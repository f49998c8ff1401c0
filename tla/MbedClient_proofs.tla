-------------------------- MODULE MbedClient_proofs --------------------------
(***************************************************************************)
(* Proofs about the client of the mbed port, for every depth of the input  *)
(* queue, number of redirects, choice of calls, peer and network, and for  *)
(* both orders of rtos::Queue.                                             *)
(***************************************************************************)
EXTENDS MbedClient, FiniteSetTheorems, TLAPS

----------------------------------------------------------------------------
(* The output queue: what its operations keep, for both orders that        *)
(* rtos::Queue may have.                                                   *)

OutType == [flags : SUBSET Buffer, items : Seq(Item)]

PoisonsIn(o) == {i \in DOMAIN o.items : o.items[i] = "poison"}
SinglePoison(o) == \A i, j \in PoisonsIn(o) : i = j
Distinct(o) == \A i, j \in DOMAIN o.items : o.items[i] = o.items[j] => i = j
CloseFirst(o) ==
    \A i \in DOMAIN o.items :
        o.items[i] = "close" => \E j \in PoisonsIn(o) : Before(o, i, j)

\* put adds the item behind the others and changes nothing else.
LEMMA PutRight ==
    ASSUME NEW o \in OutType, NEW x \in Item
    PROVE  /\ Put(o, x) \in OutType
           /\ Put(o, x).flags = o.flags
           /\ Put(o, x).items = Append(o.items, x)
           /\ DOMAIN Put(o, x).items = 1 .. Len(o.items) + 1
           /\ \A i \in DOMAIN o.items : Put(o, x).items[i] = o.items[i]
           /\ Put(o, x).items[Len(o.items) + 1] = x
           /\ DOMAIN o.items = 1 .. Len(o.items)
  BY DEF Put, OutType

\* The buffers in the queue after put are those of before and the item's.
LEMMA PutQueued ==
    ASSUME NEW o \in OutType, NEW x \in Item
    PROVE  Queued(Put(o, x)) = Queued(o) \cup {x}
<1> DEFINE p == Put(o, x)
<1>1. Len(o.items) \in Nat
  BY DEF OutType
<1>2. ASSUME NEW i \in DOMAIN p.items
      PROVE  p.items[i] \in Queued(o) \cup {x}
  <2>1. i \in DOMAIN o.items \/ i = Len(o.items) + 1
    BY <1>1, PutRight
  <2> QED
    BY <2>1, PutRight DEF Queued
<1>3. DOMAIN o.items \subseteq DOMAIN p.items /\ Len(o.items) + 1 \in DOMAIN p.items
  BY <1>1, PutRight
<1>4. ASSUME NEW y \in Queued(o) \cup {x}
      PROVE  y \in Queued(p)
  <2>1. CASE y = x
    BY <1>3, <2>1, PutRight DEF Queued
  <2>2. CASE y \in Queued(o)
    <3>1. PICK i \in DOMAIN o.items : y = o.items[i]
      BY <2>2 DEF Queued
    <3>2. i \in DOMAIN p.items /\ p.items[i] = y
      BY <1>3, <3>1, PutRight
    <3> QED
      BY <3>2 DEF Queued
  <2> QED
    BY <1>4, <2>1, <2>2
<1>5. Queued(p) \subseteq Queued(o) \cup {x}
  BY <1>2 DEF Queued
<1> QED
  BY <1>4, <1>5

\* A new buffer keeps the buffers of the queue distinct.
LEMMA PutDistinct ==
    ASSUME NEW o \in OutType, NEW x \in Item, Distinct(o), x \notin Queued(o)
    PROVE  Distinct(Put(o, x))
<1> DEFINE p == Put(o, x)
<1>1. \A i \in DOMAIN p.items : i \in DOMAIN o.items \/ i = Len(o.items) + 1
  BY PutRight DEF OutType
<1>2. \A i \in DOMAIN o.items : p.items[i] = o.items[i] /\ p.items[i] # x
  BY PutRight DEF Queued
<1>3. p.items[Len(o.items) + 1] = x
  BY PutRight
<1> SUFFICES ASSUME NEW i \in DOMAIN p.items, NEW j \in DOMAIN p.items,
                    p.items[i] = p.items[j]
             PROVE  i = j
  BY DEF Distinct
<1> QED
  BY <1>1, <1>2, <1>3 DEF Distinct

\* An item that is no poison adds none.
LEMMA PutPoisons ==
    ASSUME NEW o \in OutType, NEW x \in Item
    PROVE  PoisonsIn(Put(o, x)) =
             PoisonsIn(o) \cup IF x = "poison" THEN {Len(o.items) + 1} ELSE {}
  BY PutRight DEF PoisonsIn, OutType

\* Who is served before whom does not change by what comes later.
LEMMA PutBefore ==
    ASSUME NEW o \in OutType, NEW x \in Item,
           NEW i \in DOMAIN o.items, NEW j \in DOMAIN o.items, Before(o, i, j)
    PROVE  Before(Put(o, x), i, j)
<1>1. Put(o, x).items[i] = o.items[i] /\ Put(o, x).items[j] = o.items[j]
  BY PutRight
<1> QED
  BY <1>1 DEF Before

\* An item that is neither a close frame nor a poison keeps their order.
LEMMA PutCloseFirst ==
    ASSUME NEW o \in OutType, NEW x \in Item, CloseFirst(o), x # "close"
    PROVE  CloseFirst(Put(o, x))
<1> DEFINE p == Put(o, x)
<1> SUFFICES ASSUME NEW i \in DOMAIN p.items, p.items[i] = "close"
             PROVE  \E j \in PoisonsIn(p) : Before(p, i, j)
  BY DEF CloseFirst
<1>1. i \in DOMAIN o.items /\ o.items[i] = "close"
  BY PutRight DEF OutType
<1>2. PICK j \in PoisonsIn(o) : Before(o, i, j)
  BY <1>1 DEF CloseFirst
<1>3. j \in PoisonsIn(p)
  BY <1>2, PutPoisons
<1>4. Before(p, i, j)
  BY <1>1, <1>2, PutBefore DEF PoisonsIn
<1> QED
  BY <1>3, <1>4

\* A poison behind a queue without a poison is behind all of it: first in,
\* first out, or by priority, a close frame goes before it.
LEMMA PoisonCloseFirst ==
    ASSUME NEW o \in OutType
    PROVE  CloseFirst(Put(o, "poison"))
<1> DEFINE p == Put(o, "poison")
           n == Len(o.items) + 1
<1> SUFFICES ASSUME NEW i \in DOMAIN p.items, p.items[i] = "close"
             PROVE  \E j \in PoisonsIn(p) : Before(p, i, j)
  BY DEF CloseFirst
<1>0. "poison" \in Item
  BY DEF Item
<1>1. n \in PoisonsIn(p) /\ p.items[n] = "poison"
  BY <1>0, PutPoisons, PutRight
<1>2. i < n
  BY <1>0, PutRight DEF OutType
<1>3. Before(p, i, n)
  BY <1>1, <1>2 DEF Before, Priority
<1> QED
  BY <1>1, <1>3

----------------------------------------------------------------------------
(* get takes the item at a position k, and those behind it move up.        *)

From(k, i) == IF i < k THEN i ELSE i + 1

\* get takes one item out and leaves a well-formed queue.
LEMMA GotRight ==
    ASSUME NEW o \in OutType, NEW k \in DOMAIN o.items
    PROVE  /\ Got(o, k) \in OutType
           /\ Got(o, k).flags = o.flags
           /\ DOMAIN Got(o, k).items = 1 .. Len(o.items) - 1
           /\ \A i \in 1 .. Len(o.items) - 1 :
                 /\ From(k, i) \in DOMAIN o.items
                 /\ From(k, i) # k
                 /\ Got(o, k).items[i] = o.items[From(k, i)]
<1> DEFINE s == [i \in 1 .. Len(o.items) - 1 |->
                    IF i < k THEN o.items[i] ELSE o.items[i + 1]]
<1>1. Len(o.items) \in Nat \ {0} /\ k \in 1 .. Len(o.items)
      /\ DOMAIN o.items = 1 .. Len(o.items)
  BY DEF OutType
<1>2. Got(o, k).items = s /\ Got(o, k).flags = o.flags
  BY DEF Got, OutType
<1>3. \A i \in 1 .. Len(o.items) - 1 :
         /\ From(k, i) \in DOMAIN o.items
         /\ From(k, i) # k
         /\ s[i] = o.items[From(k, i)]
  BY <1>1 DEF From
<1>4. s \in [1 .. Len(o.items) - 1 -> Item]
  BY <1>1 DEF OutType
<1>5. s \in Seq(Item)
  BY <1>1, <1>4
<1>6. Got(o, k) \in OutType
  BY <1>2, <1>5 DEF Got, OutType
<1> QED
  BY <1>1, <1>2, <1>3, <1>6

\* Every other position moves to one of the new queue.
LEMMA GotMoves ==
    ASSUME NEW o \in OutType, NEW k \in DOMAIN o.items,
           NEW i \in DOMAIN o.items, i # k
    PROVE  \E j \in DOMAIN Got(o, k).items :
              From(k, j) = i /\ Got(o, k).items[j] = o.items[i]
<1>1. Len(o.items) \in Nat /\ k \in 1 .. Len(o.items) /\ i \in 1 .. Len(o.items)
  BY DEF OutType
<1>2. CASE i < k
  <2>1. i \in 1 .. Len(o.items) - 1 /\ From(k, i) = i
    BY <1>1, <1>2 DEF From
  <2>2. i \in DOMAIN Got(o, k).items /\ Got(o, k).items[i] = o.items[From(k, i)]
    BY <2>1, GotRight
  <2> QED
    BY <2>1, <2>2
<1>3. CASE i > k
  <2>1. PICK j : j = i - 1
    OBVIOUS
  <2>2. j \in 1 .. Len(o.items) - 1 /\ From(k, j) = i
    BY <1>1, <1>3, <2>1 DEF From
  <2> QED
    BY <2>2, GotRight
<1> QED
  BY <1>1, <1>2, <1>3

\* The buffers in the queue after get are those of before but the item's.
LEMMA GotQueued ==
    ASSUME NEW o \in OutType, NEW k \in DOMAIN o.items, Distinct(o)
    PROVE  Queued(Got(o, k)) = Queued(o) \ {o.items[k]}
<1>1. ASSUME NEW x \in Queued(Got(o, k))
      PROVE  x \in Queued(o) /\ x # o.items[k]
  BY <1>1, GotRight DEF Queued, Distinct
<1>2. ASSUME NEW x \in Queued(o), x # o.items[k]
      PROVE  x \in Queued(Got(o, k))
  BY <1>2, GotMoves DEF Queued
<1> QED
  BY <1>1, <1>2

\* The buffers that stay are distinct from each other and the taken one.
LEMMA GotDistinct ==
    ASSUME NEW o \in OutType, NEW k \in DOMAIN o.items, Distinct(o)
    PROVE  Distinct(Got(o, k))
<1> SUFFICES ASSUME NEW i \in DOMAIN Got(o, k).items,
                    NEW j \in DOMAIN Got(o, k).items,
                    Got(o, k).items[i] = Got(o, k).items[j]
             PROVE  i = j
  BY DEF Distinct
<1>0. i \in 1 .. Len(o.items) - 1 /\ j \in 1 .. Len(o.items) - 1
  BY GotRight
<1>1. From(k, i) = From(k, j)
  <2>1. From(k, i) \in DOMAIN o.items /\ From(k, j) \in DOMAIN o.items
    BY <1>0, GotRight
  <2>2. o.items[From(k, i)] = o.items[From(k, j)]
    BY <1>0, GotRight
  <2> QED
    BY <2>1, <2>2 DEF Distinct
<1> QED
  BY <1>1, GotRight DEF From, OutType

\* The poisons are those of before, when something else is taken.
LEMMA GotPoisons ==
    ASSUME NEW o \in OutType, NEW k \in DOMAIN o.items,
           o.items[k] # "poison", SinglePoison(o)
    PROVE  /\ (PoisonsIn(Got(o, k)) = {}) = (PoisonsIn(o) = {})
           /\ SinglePoison(Got(o, k))
<1>1. ASSUME NEW i \in PoisonsIn(Got(o, k))
      PROVE  From(k, i) \in PoisonsIn(o) /\ i \in 1 .. Len(o.items) - 1
  BY <1>1, GotRight DEF PoisonsIn
<1>2. ASSUME NEW i \in PoisonsIn(o)
      PROVE  \E j \in PoisonsIn(Got(o, k)) : From(k, j) = i
  BY <1>2, GotMoves DEF PoisonsIn
<1>3. ASSUME NEW i \in PoisonsIn(Got(o, k)), NEW j \in PoisonsIn(Got(o, k))
      PROVE  i = j
  <2>1. From(k, i) = From(k, j)
    BY <1>1 DEF SinglePoison
  <2> QED
    BY <1>1, <2>1 DEF From, OutType
<1> QED
  BY <1>1, <1>2, <1>3 DEF SinglePoison

\* Taking any item keeps the close frames before the poison.
LEMMA GotCloseFirst ==
    ASSUME NEW o \in OutType, NEW k \in DOMAIN o.items,
           o.items[k] # "poison", CloseFirst(o)
    PROVE  CloseFirst(Got(o, k))
<1> DEFINE g == Got(o, k)
<1> SUFFICES ASSUME NEW i \in DOMAIN g.items, g.items[i] = "close"
             PROVE  \E j \in PoisonsIn(g) : Before(g, i, j)
  BY DEF CloseFirst
<1>1. /\ From(k, i) \in DOMAIN o.items
      /\ o.items[From(k, i)] = "close"
      /\ i \in 1 .. Len(o.items) - 1
  BY GotRight
<1>2. PICK q \in PoisonsIn(o) : Before(o, From(k, i), q)
  BY <1>1 DEF CloseFirst
<1>3. PICK j \in DOMAIN g.items : From(k, j) = q /\ g.items[j] = o.items[q]
  BY <1>2, GotMoves DEF PoisonsIn
<1>4. j \in PoisonsIn(g) /\ g.items[j] = "poison" /\ j \in 1 .. Len(o.items) - 1
  BY <1>2, <1>3, GotRight DEF PoisonsIn
<1>5. Before(g, i, j)
  <2>1. CASE Ranked
    BY <2>1, <1>4 DEF Before, Priority
  <2>2. CASE ~Ranked
    <3>1. From(k, i) < From(k, j)
      BY <1>2, <1>3, <2>2 DEF Before
    <3>2. i < j
      BY <3>1, <1>1, <1>4 DEF From, OutType
    <3> QED
      BY <2>2, <3>2 DEF Before
  <2> QED
    BY <2>1, <2>2
<1> QED
  BY <1>4, <1>5

----------------------------------------------------------------------------
(* Types.                                                                  *)

\* The kinds of frames have buffers, and those and the poison are the items.
LEMMA Names ==
    /\ "poison" \in Item /\ Buffer \subseteq Item
    /\ \A type \in BufferType : TypeToBuf(type) \in Buffer
  BY DEF Item, Buffer, BufferType, TypeToBuf

\* Whatever PutFrame finds, it leaves a queue and says what became of the
\* frame.
LEMMA PutFrameType ==
    ASSUME out \in OutType, NEW type \in BufferType, NEW size \in Nat
    PROVE  LET f == PutFrame(type, size)
           IN  /\ f.out \in OutType
               /\ f.tx \in Buffer \cup {"none"}
               /\ f.status \in {"success", "would_block", "failed"}
<1>1. TypeToBuf(type) \in Buffer /\ TypeToBuf(type) \in Item
  BY Names
<1>2. Alloc(out, type) \in OutType
  BY <1>1 DEF Alloc, OutType
<1>3. Put(Alloc(out, type), TypeToBuf(type)) \in OutType
  BY <1>1, <1>2, PutRight
<1> QED
  BY <1>1, <1>2, <1>3 DEF PutFrame

\* handle_close_transport queues the poison.
LEMMA PoisonType ==
    ASSUME out \in OutType
    PROVE  Put(out, "poison") \in OutType
  BY Names, PutRight

\* The handlers of a failed handshake keep the types.
LEMMA HandshakeFailureType ==
    ASSUME TypeOK, NEW upgrade \in BOOLEAN, HandshakeFailure(upgrade)
    PROVE  /\ out' \in OutType /\ tx' \in Buffer \cup {"none"}
           /\ job' \in Job /\ timer' \in BOOLEAN /\ state' = "CLOSING"
  BY PoisonType DEF TypeOK, OutType, HandshakeFailure, Failed, Job

\* So do those of a closed websocket, with and without a close frame.
LEMMA CloseOpenType ==
    ASSUME TypeOK, NEW written \in BOOLEAN, CloseOpen(written)
    PROVE  /\ out' \in OutType /\ tx' \in Buffer \cup {"none"}
           /\ job' \in Job /\ state' = "CLOSING"
<1>1. out \in OutType
  BY DEF TypeOK, OutType
<1>2. ASSUME NEW size \in CloseSizes, CloseFrame(size)
      PROVE  out' \in OutType /\ tx' \in Buffer \cup {"none"}
  <2>1. size \in Nat /\ "CLOSE" \in BufferType
    BY ClientAssumption DEF BufferType
  <2>2. PutFrame("CLOSE", size).out \in OutType
        /\ PutFrame("CLOSE", size).tx \in Buffer \cup {"none"}
    BY <1>1, <2>1, PutFrameType
  <2> QED
    BY <1>2, <2>2, Names, PutRight DEF CloseFrame
<1>3. CASE CloseSilent
  BY <1>1, <1>3, PoisonType DEF CloseOpen, CloseSilent, TypeOK
<1> QED
  BY <1>2, <1>3 DEF CloseOpen, TypeOK

\* wic_close_with_reason in every state of the instance.
LEMMA CloseInstType ==
    ASSUME TypeOK, NEW written \in BOOLEAN, NEW armed \in BOOLEAN,
           CloseInst(written, armed)
    PROVE  /\ out' \in OutType /\ tx' \in Buffer \cup {"none"}
           /\ job' \in Job /\ timer' \in BOOLEAN
           /\ state' \in {"CLOSED", "OPENING", "OPEN", "CLOSING"}
           /\ inst' = "CLOSED" /\ http' = FALSE /\ held' = None
           /\ redirect' = redirect
<1>1. CASE inst \in {"INIT", "CLOSED"}
  BY <1>1 DEF CloseInst, TypeOK, OutType
<1>2. CASE inst = "HANDSHAKE"
  BY <1>2, HandshakeFailureType DEF CloseInst
<1>3. CASE inst = "OPEN"
  BY <1>3, CloseOpenType DEF CloseInst
<1> QED
  BY <1>1, <1>2, <1>3 DEF TypeOK

\* No item is an item, and the empty sequences are sequences of each kind.
LEMMA NoneType ==
    /\ None \in ItemOf
    /\ <<>> \in Seq(ItemOf) /\ <<>> \in Seq(Nat)
  BY DEF None, ItemOf

\* What a step may assign to a field of the job.
LEMMA JobType ==
    ASSUME NEW j \in Job, NEW ret \in {"ok", "err"},
           NEW status \in {"success", "would_block", "failed"}
    PROVE  /\ [j EXCEPT !.done = TRUE] \in Job
           /\ [j EXCEPT !.ret = ret] \in Job
           /\ [j EXCEPT !.status = status] \in Job
           /\ [j EXCEPT !.ret = ret, !.status = status] \in Job
           /\ [j EXCEPT !.done = TRUE, !.ret = ret] \in Job
           /\ [j EXCEPT !.done = TRUE, !.status = status] \in Job
  BY DEF Job

\* The messages of a chunk can be counted.
LEMMA MessagesType ==
    ASSUME NEW kinds, NEW i \in Nat
    PROVE  Messages(kinds, i) \in Nat
<1>1. IsFiniteSet(1 .. i)
  BY FS_Interval
<1>2. IsFiniteSet({j \in 1 .. i : kinds[j] = "msg"})
  BY <1>1, FS_Subset
<1> QED
  BY <1>2, FS_CardinalityType DEF Messages

\* What TypeOK needs to be inductive: an item is held of an open websocket
\* only, so that during the handshake the parser has a chunk to read from; and
\* the events that dispatch is to run are queued.
HeldKept ==
    held = None \/ (inst = "OPEN" /\ held[1] \in {"msg", "ping", "long_ping"})
BatchQueued == batch <= Len(events)

\* The types are kept.  A redirect is followed only while n is not zero.
LEMMA TypeStep ==
    ASSUME TypeOK, HeldKept, BatchQueued, [Next]_vars
    PROVE  TypeOK'
<1> USE DEF OutType
<1>0. CASE UNCHANGED vars
  BY <1>0 DEF TypeOK, vars
<1>1. CASE Wake
  BY <1>1 DEF Wake, At, TypeOK, instance, callers, Pc
<1>2. ASSUME NEW op, Dispatch(op)
      PROVE  /\ events' \in Seq(Call) /\ batch' \in Nat
             /\ op \in Call
             /\ UNCHANGED <<writing, chunk, pc, callers>>
  <2>1. events \in Seq(Call) /\ batch \in Nat \ {0} /\ events # <<>>
    BY <1>2 DEF Dispatch, TypeOK, BatchQueued
  <2> QED
    BY <1>2, <2>1 DEF Dispatch
<1>3. CASE DoOpenBusy
  <2>1. job' \in Job
    BY <1>3, JobType DEF DoOpenBusy, TypeOK
  <2> QED
    BY <1>2, <1>3, <2>1 DEF DoOpenBusy, TypeOK, instance, callers
<1>4. ASSUME DoOpenInit
      PROVE  /\ events' \in Seq(Call) /\ batch' \in Nat
             /\ UNCHANGED <<writing, chunk, pc, callers>>
             /\ input' = <<>> /\ http' = FALSE /\ redirect' = FALSE
             /\ held' \in ItemOf /\ sent' = 0 /\ got' = 0
  BY <1>2, <1>4, NoneType DEF DoOpenInit
<1>5. CASE DoOpenFail
  <2>1. job' \in Job /\ state' = "CLOSED" /\ waking' = TRUE
    BY <1>5, JobType DEF DoOpenFail, CloseSocket, TypeOK
  <2> QED
    BY <1>4, <1>5, <2>1, NoneType DEF DoOpenFail, TypeOK, callers
<1>6. CASE DoOpenNotStarted
  <2>1. job' \in Job /\ state' = "CLOSED" /\ waking' = TRUE
    BY <1>6, JobType DEF DoOpenNotStarted, CloseSocket, TypeOK
  <2> QED
    BY <1>4, <1>6, <2>1, NoneType DEF DoOpenNotStarted, TypeOK, callers
<1>7. CASE DoOpenStart
  <2>1. out' \in OutType
    <3>1. "HTTP" \in BufferType /\ Alloc(out, "HTTP") \in OutType
      BY Names DEF BufferType, Alloc, TypeOK
    <3> QED
      BY <1>7, <3>1, Names, PutRight DEF DoOpenStart
  <2>2. job' \in Job
    BY <1>7, JobType DEF DoOpenStart, TypeOK
  <2> QED
    BY <1>4, <1>7, <2>1, <2>2, NoneType DEF DoOpenStart, TypeOK, callers
<1>8. CASE DoClose
  <2>1. CASE CloseInst(TRUE, timer)
    BY <1>2, <1>8, <2>1, CloseInstType, NoneType DEF DoClose, TypeOK, callers
  <2>2. CASE ~CloseInst(TRUE, timer)
    <3>1. /\ job' = [job EXCEPT !.done = TRUE, !.ret = "ok"]
          /\ UNCHANGED <<instance, state, timer, out, tx, input, waking, sent, got>>
          /\ Dispatch("close")
      BY ONLY <1>8, <2>2 DEF DoClose
    <3>2. job' \in Job
      BY ONLY <3>1, JobType, TypeOK DEF TypeOK
    <3>3. /\ events' \in Seq(Call) /\ batch' \in Nat
          /\ UNCHANGED <<writing, chunk, pc, callers>>
      BY ONLY <1>2, <3>1
    <3> QED
      BY ONLY <3>1, <3>2, <3>3, TypeOK DEF TypeOK, callers, instance
  <2> QED
    BY <2>1, <2>2
<1>9. CASE DoSend
  <2>1. "USER" \in BufferType /\ 1 \in Nat /\ out \in OutType
    BY DEF BufferType, TypeOK
  <2>2. LET f == PutFrame("USER", 1)
        IN  /\ f.out \in OutType
            /\ f.tx \in Buffer \cup {"none"}
            /\ f.status \in {"success", "would_block", "failed"}
    BY <2>1, PutFrameType
  <2>3. out' \in OutType /\ tx' \in Buffer \cup {"none"} /\ job' \in Job
    BY <1>9, <2>2, JobType DEF DoSend, TypeOK
  <2> QED
    BY <1>2, <1>9, <2>3 DEF DoSend, TypeOK, callers, instance
<1>10. CASE DoHandshakeTimeout
  BY <1>10, CloseInstType, NoneType DEF DoHandshakeTimeout, TypeOK, worker, callers
<1>11. ASSUME NEW place \in Pc, Pass(place)
       PROVE  TypeOK'
  BY <1>11 DEF Pass, TypeOK, instance, callers
<1>12. CASE PollIdle
  BY <1>11, <1>12 DEF PollIdle, Pc
<1>13. CASE PollFails
  <2>1. PICK upgrade \in BOOLEAN : HandshakeFailure(upgrade) /\ redirect' \in BOOLEAN
    BY <1>13 DEF PollFails, TypeOK
  <2> QED
    BY <1>13, <2>1, HandshakeFailureType DEF PollFails, TypeOK, Pc, callers
<1>14. ASSUME Parsing, inst = "OPEN"
       PROVE  Current \in ItemOf /\ Consumed \in Seq(ItemOf)
  <2>1. CASE held # None
    BY <2>1 DEF Current, Consumed, TypeOK
  <2>2. CASE held = None
    <3>1. chunk # <<>> /\ chunk \in Seq(ItemOf)
      BY <1>14, <2>2 DEF Parsing, TypeOK
    <3> QED
      BY <2>2, <3>1 DEF Current, Consumed
  <2> QED
    BY <2>1, <2>2
<1>15. ASSUME NEW kinds, ParseItem(kinds), GoOn \/ Blocked
       PROVE  /\ held' \in ItemOf /\ chunk' \in Seq(ItemOf) /\ pc' \in Pc
              /\ UNCHANGED <<http, redirect, writing, events, batch, callers, sent, got>>
  BY <1>14, <1>15, NoneType
     DEF ParseItem, GoOn, Blocked, ParseReturns, TypeOK, Pc
<1>16. CASE ParseMessage
  <2>1. GoOn \/ Blocked
    BY <1>16 DEF ParseMessage
  <2>2. input' \in Seq(Nat)
    <3>1. Current[2] \in Nat
      BY <1>14, <1>16 DEF ParseMessage, ParseItem, ItemOf
    <3>2. input \in Seq(Nat)
      BY DEF TypeOK
    <3>3. input' = input \/ input' = Append(input, Current[2])
      BY <1>16 DEF ParseMessage
    <3> QED
      BY <3>1, <3>2, <3>3
  <2> QED
    BY <1>15, <1>16, <2>1, <2>2 DEF ParseMessage, TypeOK, callers
<1>17. CASE ParsePing
  <2>1. "PONG" \in BufferType /\ PongSize(Current[1]) \in Nat /\ out \in OutType
    BY DEF BufferType, PongSize, TypeOK
  <2>2. LET f == PutFrame("PONG", PongSize(Current[1]))
        IN  f.out \in OutType /\ f.tx \in Buffer \cup {"none"}
    BY <2>1, PutFrameType
  <2>3. out' \in OutType /\ tx' \in Buffer \cup {"none"} /\ (GoOn \/ Blocked)
    BY <1>17, <2>2 DEF ParsePing
  <2> QED
    BY <1>15, <1>17, <2>3 DEF ParsePing, TypeOK, callers
<1>18. CASE ParseEnd
  BY <1>18, CloseOpenType, NoneType DEF ParseEnd, ParseItem, TypeOK, callers
<1>19. ASSUME NEW kinds, ParseReply(kinds)
       PROVE  /\ chunk # <<>> /\ Tail(chunk) \in Seq(ItemOf)
              /\ UNCHANGED <<held, writing, events, batch, callers, input,
                             waking, pc, sent, got>>
  BY <1>19 DEF ParseReply, Parsing, Polling, HeldKept, TypeOK
<1>20. CASE ReplyPart
  BY <1>19, <1>20 DEF ReplyPart, TypeOK, callers
<1>21. CASE ReplyAccept
  <2>1. job' \in Job
    BY <1>21, JobType DEF ReplyAccept, TypeOK
  <2> QED
    BY <1>19, <1>21, <2>1 DEF ReplyAccept, TypeOK, callers
<1>22. CASE ReplyFails
  <2>1. PICK upgrade \in BOOLEAN : HandshakeFailure(upgrade)
    BY <1>22 DEF ReplyFails
  <2> QED
    BY <1>19, <1>22, <2>1, HandshakeFailureType, NoneType
       DEF ReplyFails, TypeOK, callers
<1>23. CASE ParseClosed
  BY <1>23, NoneType DEF ParseClosed, TypeOK, instance, callers
<1>24. CASE ParseEmpty
  BY <1>11, <1>24 DEF ParseEmpty, Pc
<1>25. CASE ReadSome
  <2>1. PICK n \in 1 .. MaxChunk : \E kinds \in [1 .. n -> PeerItems] :
           /\ sent' = sent + Messages(kinds, n)
           /\ chunk' = [i \in 1 .. n |-> <<kinds[i], Number(kinds, i)>>]
    BY <1>25 DEF ReadSome
  <2>2. PICK kinds \in [1 .. n -> PeerItems] :
           /\ sent' = sent + Messages(kinds, n)
           /\ chunk' = [i \in 1 .. n |-> <<kinds[i], Number(kinds, i)>>]
    BY <2>1
  <2>3. n \in Nat
    BY ClientAssumption
  <2>4. ASSUME NEW i \in 1 .. n
        PROVE  sent + Messages(kinds, i) \in Nat
    BY <2>3, <2>4, MessagesType DEF TypeOK
  <2>5. sent' \in Nat
    BY <2>2, <2>3, MessagesType DEF TypeOK
  <2>6. ASSUME NEW i \in 1 .. n
        PROVE  <<kinds[i], Number(kinds, i)>> \in ItemOf
    <3>1. kinds[i] \in Reply \cup FrameKind
      BY <2>2, ClientAssumption
    <3>2. Number(kinds, i) \in Nat
      BY <2>4 DEF Number
    <3> QED
      BY <3>1, <3>2 DEF ItemOf
  <2>7. chunk' \in Seq(ItemOf)
    BY <2>2, <2>3, <2>6
  <2> QED
    BY <1>25, <2>5, <2>7 DEF ReadSome, TypeOK, Pc, instance, callers
<1>26. CASE ReadNothing
  BY <1>11, <1>26 DEF ReadNothing, Pc
<1>27. CASE ReadError
  BY <1>27, CloseInstType, NoneType DEF ReadError, TypeOK, Pc, callers
<1>28. CASE GetNothing
  BY <1>11, <1>28 DEF GetNothing, Pc
<1>29. CASE GetBuffer
  <2>1. PICK i \in DOMAIN out.items :
           /\ out.items[i] # "poison"
           /\ out' = Got(out, i)
           /\ writing' = out.items[i]
    BY <1>29 DEF GetBuffer
  <2>2. out' \in OutType
    BY <2>1, GotRight DEF TypeOK
  <2>3. writing' \in Buffer
    BY <2>1 DEF TypeOK, Item
  <2> QED
    BY <1>29, <2>2, <2>3 DEF GetBuffer, TypeOK, Pc, instance, callers
<1>30. CASE GetPoison
  <2>1. out' \in OutType
    BY <1>30 DEF GetPoison, Drained, TypeOK
  <2>2. job' \in Job /\ state' = "CLOSED" /\ waking' = TRUE
    BY <1>30, JobType DEF GetPoison, CloseSocket, TypeOK
  <2> QED
    BY <1>30, <2>1, <2>2 DEF GetPoison, TypeOK, Pc, instance, callers
<1>31. CASE WritePart
  BY <1>11, <1>31 DEF WritePart, Pc
<1>32. CASE WriteDone
  <2>1. out' \in OutType
    BY <1>32 DEF WriteDone, Free, TypeOK
  <2> QED
    BY <1>32, <2>1 DEF WriteDone, TypeOK, Pc, instance, callers
<1>33. CASE NotifyReaders
  <2>1. reader' \in {"idle", "look", "waiting", "woken"} /\ waking' \in BOOLEAN
    BY ONLY <1>33, TypeOK DEF NotifyReaders, TypeOK
  <2> QED
    BY ONLY <1>33, <2>1, TypeOK DEF NotifyReaders, TypeOK, instance, worker
<1>34. ASSUME NEW from, ReaderStep(from),
              input' \in Seq(Nat), got' \in Nat,
              reader' \in {"idle", "look", "waiting", "woken"}
       PROVE  TypeOK'
  BY <1>34 DEF ReaderStep, TypeOK, instance, worker
<1>35. ASSUME NEW from, TryGet(from)
       PROVE  TypeOK'
  <2>1. input \in Seq(Nat) /\ got \in Nat
    BY DEF TypeOK
  <2>2. input' \in Seq(Nat) /\ got' \in Nat
    <3>1. CASE input # <<>>
      BY <1>35, <2>1, <3>1 DEF TryGet
    <3>2. CASE input = <<>>
      BY <1>35, <2>1, <3>2 DEF TryGet
    <3> QED
      BY <3>1, <3>2
  <2> QED
    BY <1>34, <1>35, <2>2 DEF TryGet
<1>36. CASE Look
  BY <1>34, <1>36 DEF Look, TypeOK
<1>37. CASE RecvTimeout
  BY <1>34, <1>37 DEF RecvTimeout, TypeOK
<1>38. ASSUME NEW op \in Call, NEW n \in Nat, Push(op, n)
       PROVE  TypeOK'
  <2>1. events' \in Seq(Call)
    BY <1>38 DEF Push, TypeOK
  <2>2. job' \in Job
    BY <1>38 DEF Push, JobZero, Job
  <2> QED
    BY <1>38, <2>1, <2>2 DEF Push, TypeOK, instance, worker
<1>39. ASSUME NEW op \in Calls, CallStart(op)
       PROVE  TypeOK'
  BY <1>38, <1>39, ClientAssumption DEF CallStart
<1>40. CASE CallAgain
  <2>1. call.n > 0 /\ call.n \in Nat => call.n - 1 \in Nat
    OBVIOUS
  <2> QED
    BY <1>38, <1>40, <2>1 DEF CallAgain, MayFollow, TypeOK, Call
<1>41. CASE CallReturn
  <2>1. job' \in Job
    BY <1>41 DEF CallReturn, JobZero, Job, TypeOK
  <2> QED
    BY <1>41, <2>1 DEF CallReturn, NoCall, TypeOK, instance, worker
<1> QED
  BY <1>0, <1>1, <1>3, <1>5, <1>6, <1>7, <1>8, <1>9, <1>10, <1>12, <1>13, <1>16,
     <1>17, <1>18, <1>20, <1>21, <1>22, <1>23, <1>24, <1>25, <1>26, <1>27,
     <1>28, <1>29, <1>30, <1>31, <1>32, <1>33, <1>35, <1>36, <1>37, <1>39,
     <1>40, <1>41
     DEF Next, Worker, Turn, Recv, Reader, Caller

\* Only parse_data holds an item, and every end of the websocket lets it go.
LEMMA HeldStep ==
    ASSUME TypeOK, HeldKept, [Next]_vars
    PROVE  HeldKept'
<1> USE DEF HeldKept
<1>1. CASE UNCHANGED instance
  BY <1>1 DEF instance
<1>2. CASE held' = None
  BY <1>2
<1>3. ASSUME ParseMessage \/ ParsePing
      PROVE  HeldKept'
  BY <1>3 DEF ParseMessage, ParsePing, ParseItem, GoOn, Blocked, Current
<1>4. CASE ParseEnd
  BY <1>4 DEF ParseEnd, ParseItem, Current, Reply
<1>5. ASSUME PollFails \/ ReplyPart \/ ReplyAccept \/ ReplyFails
      PROVE  HeldKept'
  BY <1>5 DEF PollFails, ReplyPart, ReplyAccept, ReplyFails, ParseReply
<1>6. ASSUME DoOpenFail \/ DoOpenNotStarted \/ DoOpenStart
      PROVE  held' = None
  BY <1>6 DEF DoOpenFail, DoOpenNotStarted, DoOpenStart, DoOpenInit
<1>7. ASSUME DoHandshakeTimeout \/ ReadError
      PROVE  held' = None
  BY <1>7 DEF DoHandshakeTimeout, ReadError, CloseInst
<1>8. ASSUME DoClose
      PROVE  held' = None \/ UNCHANGED instance
  BY <1>8 DEF DoClose, CloseInst
<1>9. ASSUME \/ UNCHANGED vars \/ Wake \/ DoOpenBusy \/ DoSend \/ PollIdle
             \/ ReadSome \/ ReadNothing \/ ParseClosed \/ ParseEmpty
             \/ GetNothing \/ GetBuffer \/ GetPoison \/ WritePart
             \/ NotifyReaders \/ WriteDone
      PROVE  UNCHANGED instance
  BY <1>9 DEF Wake, DoOpenBusy, DoSend, PollIdle, Pass, ReadSome, ReadNothing,
              ParseClosed, ParseEmpty, GetNothing, GetBuffer, GetPoison,
              WritePart, NotifyReaders, WriteDone, vars, instance
<1>10. ASSUME Recv \/ Reader \/ RecvTimeout \/ Caller
              \/ \E op \in Calls : CallStart(op)
       PROVE  UNCHANGED instance
  BY <1>10 DEF Recv, Reader, TryGet, Look, RecvTimeout, ReaderStep, Caller,
               CallStart, CallAgain, CallReturn, Push
<1> QED
  BY <1>1, <1>2, <1>3, <1>4, <1>5, <1>6, <1>7, <1>8, <1>9, <1>10
     DEF Next, Worker, Turn

\* dispatch takes one event at a time, and calls only add to them.
LEMMA BatchStep ==
    ASSUME TypeOK, BatchQueued, [Next]_vars
    PROVE  BatchQueued'
<1> USE DEF BatchQueued
<1>0. events \in Seq(Call) /\ batch \in Nat
  BY DEF TypeOK
<1>1. CASE UNCHANGED <<events, batch>>
  BY <1>1
<1>2. ASSUME NEW op, Dispatch(op)
      PROVE  BatchQueued'
  BY <1>0, <1>2 DEF Dispatch
<1>3. CASE Wake
  BY <1>0, <1>3 DEF Wake
<1>4. ASSUME NEW op \in Call, NEW n, Push(op, n)
      PROVE  BatchQueued'
  BY <1>0, <1>4 DEF Push, worker
<1>5. ASSUME \/ DoOpenBusy \/ DoOpenFail \/ DoOpenNotStarted \/ DoOpenStart
             \/ DoClose \/ DoSend
      PROVE  BatchQueued'
  BY <1>2, <1>5 DEF DoOpenBusy, DoOpenFail, DoOpenNotStarted, DoOpenStart,
                    DoOpenInit, DoClose, DoSend
<1>6. ASSUME \/ UNCHANGED vars \/ PollIdle \/ PollFails
             \/ ReadSome \/ ReadNothing \/ ReadError \/ ParseClosed \/ ParseEmpty
             \/ GetNothing \/ GetBuffer \/ GetPoison \/ WritePart
      PROVE  UNCHANGED <<events, batch>>
  BY <1>6 DEF PollIdle, PollFails, Pass, ReadSome, ReadNothing, ReadError,
              ParseClosed, ParseEmpty, GetNothing, GetBuffer, GetPoison,
              WritePart, vars
<1>7. ASSUME \/ ParseMessage \/ ParsePing \/ ParseEnd
             \/ ReplyPart \/ ReplyAccept \/ ReplyFails
      PROVE  UNCHANGED <<events, batch>>
  BY <1>7 DEF ParseMessage, ParsePing, ParseEnd, ParseItem, ReplyPart,
              ReplyAccept, ReplyFails, ParseReply
<1>8. ASSUME \/ NotifyReaders \/ WriteDone \/ DoHandshakeTimeout
             \/ Recv \/ Reader \/ RecvTimeout \/ CallReturn
      PROVE  UNCHANGED <<events, batch>>
  BY <1>8 DEF NotifyReaders, WriteDone, DoHandshakeTimeout, Recv, Reader,
              TryGet, Look, RecvTimeout, ReaderStep, CallReturn, worker
<1>9. ASSUME CallAgain \/ \E op \in Calls : CallStart(op)
      PROVE  BatchQueued'
  BY <1>4, <1>9, ClientAssumption DEF CallAgain, CallStart, Call
<1> QED
  BY <1>1, <1>3, <1>5, <1>6, <1>7, <1>8, <1>9 DEF Next, Worker, Turn, Caller

\* The constructor makes a client of the types.
LEMMA TypeInit == Init => TypeOK /\ HeldKept /\ BatchQueued
<1> SUFFICES ASSUME Init
             PROVE  TypeOK /\ HeldKept /\ BatchQueued
  OBVIOUS
<1>1. <<>> \in Seq(Item) /\ <<>> \in Seq(Call)
  OBVIOUS
<1>2. out \in OutType
  BY <1>1 DEF Init, OutZero, OutType
<1>3. job \in Job /\ call \in [op : Call \cup {"none"}, n : Nat]
  BY DEF Init, JobZero, Job, NoCall
<1>4. TypeOK
  BY <1>1, <1>2, <1>3, NoneType DEF Init, TypeOK, Pc, OutType
<1> QED
  BY <1>4 DEF Init, HeldKept, BatchQueued

\* The variables keep their types, whatever the peer and the network do.
THEOREM TypeCorrect == Spec => [](TypeOK /\ HeldKept /\ BatchQueued)
<1>1. TypeOK /\ HeldKept /\ BatchQueued /\ [Next]_vars
        => (TypeOK /\ HeldKept /\ BatchQueued)'
  BY TypeStep, HeldStep, BatchStep
<1> QED
  BY TypeInit, <1>1, PTL DEF Spec
=============================================================================
