---------------------------- MODULE WicHandshake ----------------------------
(***************************************************************************)
(* The opening handshake of the client (src/wic.c): the request with the   *)
(* headers the application has linked, the store of the response's headers *)
(* in the receive buffer, the check of the response, and the application's *)
(* look at the headers.  WicInst has this handshake as one choice.         *)
(*                                                                         *)
(* The http parser is external.  It cuts names and values where the bytes  *)
(* given to wic_parse end, so that each reaches on_header_field or         *)
(* on_header_value in pieces, of which all but the first may be empty.     *)
(* Text is a sequence of letters, in which upper and lower case differ as  *)
(* tolower has it; the names and values of the protocol have short ones.   *)
(*                                                                         *)
(* The calls of wic_start that fail (no valid URL, no buffer, a request    *)
(* that does not fit) change nothing here; WicInst has them.               *)
(*                                                                         *)
(* Environment: a header node is linked before wic_start, once in the life *)
(* of an instance, and again after wic_init, as demo_client.c does for     *)
(* each redirect.  The application iterates over the headers and rewinds   *)
(* the iterator whenever it likes: on_open, the handlers of a handshake    *)
(* that failed, and later still, when the buffer has been used again.      *)
(***************************************************************************)
EXTENDS Naturals, FiniteSets, Sequences, SequencesExt

CONSTANTS
    Null,       \* a null pointer
    RxMax,      \* rx_max, bytes in the receive buffer
    Nodes,      \* the application's wic_header nodes
    Headers,    \* headers the peer sends, records of name and value
    Statuses,   \* status codes the peer sends
    Payloads,   \* what frames leave in the receive buffer
    MaxHeaders  \* bound: headers in one response

Nul == "nul"
Letter == {"u", "U", "p", "a", "l", "w", "W", "h", "H"}
Lower(c) == CASE c = "U" -> "u" [] c = "W" -> "w" [] c = "H" -> "h" [] OTHER -> c

\* The names and values that on_response_complete looks for.
UpgradeName  == <<"u", "p">>
AcceptName   == <<"a">>
LocationName == <<"l">>
Websocket    == <<"w">>
Hash         == <<"h">>

Redirects == {300, 301, 302, 303, 304, 307}
ASSUME HandshakeAssumption ==
    /\ RxMax \in Nat
    /\ Null \notin Nodes
    /\ Headers \subseteq [name : Seq(Letter) \ {<<>>}, value : Seq(Letter)]
    /\ Statuses \subseteq Nat
    /\ Payloads \subseteq {p \in Seq(Letter \cup {Nul}) : Len(p) <= RxMax}
    /\ MaxHeaders \in Nat

VARIABLES
    state,    \* self->state
    next,     \* the next pointer of each node, which outlives the instance
    head,     \* self->tx_header
    request,  \* the nodes whose headers are in the request that was sent
    hstate,   \* self->header_state
    store,    \* self->rx.s up to its position
    error,    \* the error flag of self->rx.s
    redirect, \* self->redirect_url, or Null
    pos,      \* self->pos, the iterator of wic_get_next_header
    \* History, read by the properties only:
    linked,   \* the nodes linked since wic_init, in order
    headers,  \* the headers of the response so far
    todo,     \* what is left of the name or value that is being delivered
    answer,   \* the status and upgrade flag of the complete response
    held,     \* the buffer still holds the response, and not yet a frame
    astray,   \* the iterator was not at the first header of the response
    listed    \* what it has returned of the response since it was rewound

request_vars  == <<next, head, request, linked>>
response_vars == <<hstate, store, error, headers, todo>>
iterator_vars == <<pos, astray, listed>>
vars == <<state, next, head, request, hstate, store, error, redirect,
          pos, linked, headers, todo, answer, held, astray, listed>>

NoAnswer == [given |-> FALSE, status |-> 0, upgrade |-> FALSE]

Init ==
    /\ state = "INIT" /\ head = Null /\ request = <<>>
    /\ hstate = "IDLE" /\ store = <<>> /\ error = FALSE /\ redirect = Null
    /\ pos = 0 /\ linked = <<>> /\ headers = <<>> /\ todo = <<>>
    /\ answer = NoAnswer /\ held = TRUE /\ astray = FALSE /\ listed = <<>>
    /\ next = [n \in Nodes |-> Null]

----------------------------------------------------------------------------
(* Streams: a write is all or nothing, and nothing follows one that failed. *)

\* Faulty: a write is done although it does not fit.
WriteBeyond(s, text) == [text |-> s.text \o text, error |-> s.error]

\* Faulty: a write that fits is done although one before it was lost.
WriteAgain(s, text) ==
    IF Len(s.text) + Len(text) <= RxMax
    THEN [text |-> s.text \o text, error |-> s.error]
    ELSE [text |-> s.text, error |-> TRUE]

Write(s, text) ==
    IF ~s.error /\ Len(s.text) + Len(text) <= RxMax
    THEN [text |-> s.text \o text, error |-> FALSE]
    ELSE [text |-> s.text, error |-> TRUE]

Rx == [text |-> store, error |-> error]
Store(s) == store' = s.text /\ error' = s.error

----------------------------------------------------------------------------
(* The request.                                                            *)

\* wic_init when its arguments are right, which leaves the application's nodes
\* alone; after one that fails the application starts over.
WicInit ==
    /\ state \in {"INIT", "CLOSED"}
    /\ state' = "INIT" /\ head' = Null /\ request' = <<>>
    /\ hstate' = "IDLE" /\ store' = <<>> /\ error' = FALSE /\ redirect' = Null
    /\ pos' = 0 /\ linked' = <<>> /\ headers' = <<>> /\ todo' = <<>>
    /\ answer' = NoAnswer /\ held' = TRUE /\ astray' = FALSE /\ listed' = <<>>
    /\ UNCHANGED next

\* Faulty: the node keeps the next pointer of its last use.
NextOfStale(n) == IF head = Null THEN next ELSE [next EXCEPT ![n] = head]

NextOf(n) == [next EXCEPT ![n] = head]

WicSetHeader(n) ==
    /\ state = "INIT"
    /\ n \notin Range(linked)
    /\ next' = NextOf(n)
    /\ head' = n
    /\ linked' = Append(linked, n)
    /\ UNCHANGED <<state, request, redirect, answer, held, response_vars,
                   iterator_vars>>

\* start_client's walk along the list, which ends: the headers of a list in a
\* circle would not fit the buffer.
IsWalk(list) ==
    /\ head = IF list = <<>> THEN Null ELSE list[1]
    /\ \A i \in DOMAIN list :
          next[list[i]] = IF i = Len(list) THEN Null ELSE list[i + 1]

\* The request fits the buffer that the application has lent.
StartClient ==
    /\ state = "INIT"
    /\ state' = "PARSE_HANDSHAKE"
    /\ \E n \in 0 .. Cardinality(Nodes) : \E list \in [1 .. n -> Nodes] :
          IsWalk(list) /\ request' = list
    /\ UNCHANGED <<next, head, linked, redirect, answer, held, response_vars,
                   iterator_vars>>

----------------------------------------------------------------------------
(* The callbacks of the http parser.                                       *)

\* Faulty: every piece of a name ends the string before it.
FieldWrittenApart(piece) ==
    IF hstate = "IDLE" THEN Write(Rx, piece)
    ELSE Write(Write(Rx, <<Nul>>), piece)

\* A name that follows a value ends it.
FieldWritten(piece) ==
    IF hstate = "VALUE" THEN Write(Write(Rx, <<Nul>>), piece)
    ELSE Write(Rx, piece)

\* A value that follows a name ends it.
ValueWritten(piece) ==
    IF hstate = "FIELD" THEN Write(Write(Rx, <<Nul>>), piece)
    ELSE Write(Rx, piece)

OnHeaderField(piece) ==
    /\ Store(FieldWritten(piece))
    /\ hstate' = "FIELD"

\* A value without a name is refused; the parser never sends one.
OnHeaderValue(piece) ==
    /\ hstate # "IDLE"
    /\ Store(ValueWritten(piece))
    /\ hstate' = "VALUE"

Take(text, k) == SubSeq(text, 1, k)
Drop(text, k) == SubSeq(text, k + 1, Len(text))

Responding ==
    /\ state = "PARSE_HANDSHAKE"
    /\ UNCHANGED <<state, request_vars, redirect, answer, held, iterator_vars>>

FieldStarts(h) ==
    /\ Responding
    /\ hstate # "FIELD" /\ todo = <<>>
    /\ Len(headers) < MaxHeaders
    /\ headers' = Append(headers, h)
    /\ \E k \in DOMAIN h.name :
          OnHeaderField(Take(h.name, k)) /\ todo' = Drop(h.name, k)

FieldGoesOn ==
    /\ Responding
    /\ hstate = "FIELD"
    /\ \E k \in 0 .. Len(todo) :
          OnHeaderField(Take(todo, k)) /\ todo' = Drop(todo, k)
    /\ UNCHANGED headers

ValueStarts ==
    /\ Responding
    /\ hstate = "FIELD" /\ todo = <<>>
    /\ LET value == Last(headers).value
       IN  \E k \in IF value = <<>> THEN {0} ELSE DOMAIN value :
              OnHeaderValue(Take(value, k)) /\ todo' = Drop(value, k)
    /\ UNCHANGED headers

ValueGoesOn ==
    /\ Responding
    /\ hstate = "VALUE"
    /\ \E k \in 0 .. Len(todo) :
          OnHeaderValue(Take(todo, k)) /\ todo' = Drop(todo, k)
    /\ UNCHANGED headers

----------------------------------------------------------------------------
(* Reading the store: strings that end with a null character, names and    *)
(* values in turn.  When something was lost the last string has no end in  *)
(* the store, and a value may be missing: the code reads on in the bytes   *)
(* behind, which nobody wrote, and even past the buffer.  A string is its  *)
(* text as far as it is stored, and whether that is the whole of it.       *)

Text(t) == [text |-> t, whole |-> TRUE]

Nuls(s) == {i \in DOMAIN s : s[i] = Nul}
Starts(s) == {i \in DOMAIN s : i = 1 \/ s[i - 1] = Nul}
Ended(s, i) == \E j \in Nuls(s) : j >= i
EndOf(s, i) ==
    CHOOSE j \in Nuls(s) : j >= i /\ \A k \in Nuls(s) : k >= i => j <= k
StringAt(s, i) ==
    IF Ended(s, i) THEN Text(SubSeq(s, i, EndOf(s, i) - 1))
    ELSE [text |-> SubSeq(s, i, Len(s)), whole |-> FALSE]

\* Where strlen may find the end: somewhere behind if none is stored.  Bound:
\* within two bytes, as it is the store's end that the code compares with.
Ends(s, i) ==
    IF Ended(s, i) THEN {EndOf(s, i)}
    ELSE LET behind == IF i > Len(s) THEN i ELSE Len(s) + 1
         IN  {behind, behind + 1}

\* Where the walk of wic_get_header looks at a name.
NamesAt(s) ==
    {i \in Starts(s) : Cardinality({j \in Nuls(s) : j < i}) % 2 = 0}

\* str_equal; strcmp.
SameLetters(s, t) == \A i \in DOMAIN s : Lower(s[i]) = Lower(t[i])
StrEqual(s, t) == Len(s) = Len(t) /\ SameLetters(s, t)
MayEqual(string, t) ==
    IF string.whole THEN StrEqual(string.text, t)
    ELSE Len(string.text) <= Len(t) /\ SameLetters(string.text, t)
MayBe(string, t) ==
    IF string.whole THEN string.text = t ELSE IsPrefix(string.text, t)

\* What the walk may answer: the value of the first name that is equal.  A name
\* that was cut may be equal or not, and has its value behind the store.
WicGetHeader(s, name) ==
    LET found == {i \in NamesAt(s) : MayEqual(StringAt(s, i), name)}
        first == CHOOSE i \in found : \A j \in found : i <= j
    IN  IF found = {} THEN {Null}
        ELSE IF Ended(s, first) THEN {StringAt(s, EndOf(s, first) + 1)}
        ELSE {Null, StringAt(s, Len(s) + 1)}

\* on_response_complete ends the last value.
Finished == IF hstate = "VALUE" THEN Write(Rx, <<Nul>>) ELSE Rx

\* Faulty: the hash is compared without regard to case.
SatisfiedLoosely(status, upgrade, header, accept) ==
    /\ status = 101
    /\ upgrade
    /\ header # Null /\ MayEqual(header, Websocket)
    /\ accept # Null /\ MayEqual(accept, Hash)

\* What is found of the two headers, if it is what it may be.
Satisfied(status, upgrade, header, accept) ==
    /\ status = 101
    /\ upgrade
    /\ header # Null /\ MayEqual(header, Websocket)
    /\ accept # Null /\ MayBe(accept, Hash)

\* The response is complete.
Complete(status, upgrade) ==
    /\ state = "PARSE_HANDSHAKE"
    /\ hstate # "FIELD" /\ todo = <<>>
    /\ Store(Finished)
    /\ answer' = [given |-> TRUE, status |-> status, upgrade |-> upgrade]
    /\ \E header \in WicGetHeader(store', UpgradeName),
          accept \in WicGetHeader(store', AcceptName) :
          state' \in IF ~Satisfied(status, upgrade, header, accept)
                    THEN {"CLOSED"}
                    ELSE IF header.whole /\ accept.whole THEN {"READY"}
                    ELSE {"READY", "CLOSED"}
    /\ redirect' \in IF status \in Redirects
                     THEN WicGetHeader(store', LocationName) ELSE {Null}
    /\ astray' = (pos # 0)
    /\ UNCHANGED <<request_vars, hstate, headers, todo, held, pos, listed>>

\* The response breaks off, or is no http.
Breaks ==
    /\ state = "PARSE_HANDSHAKE"
    /\ state' = "CLOSED"
    /\ UNCHANGED <<request_vars, redirect, answer, held, response_vars,
                   iterator_vars>>

----------------------------------------------------------------------------
(* The application, and the frames that follow.                            *)

\* The code looks neither at the state nor at the error.
WicGetNextHeader ==
    /\ pos < Len(store)
    /\ \E end \in Ends(store, pos + 1) :
          /\ pos' \in Ends(store, end + 1)
          /\ listed' = IF held /\ answer.given
                       THEN Append(listed,
                                   [name  |-> StringAt(store, pos + 1),
                                    value |-> StringAt(store, end + 1)])
                       ELSE listed
    /\ UNCHANGED <<state, redirect, answer, held, request_vars, response_vars,
                   astray>>

\* Faulty: the iterator stays where it is.
RewindNot ==
    /\ astray' = FALSE
    /\ listed' = <<>>
    /\ UNCHANGED <<state, redirect, answer, held, request_vars, response_vars,
                   pos>>

WicRewindGetNextHeader ==
    /\ pos' = 0
    /\ astray' = FALSE
    /\ listed' = <<>>
    /\ UNCHANGED <<state, redirect, answer, held, request_vars, response_vars>>

\* on_open returns, or sends, which opens the websocket before it returns.
OnOpenReturn ==
    /\ state = "READY"
    /\ state' = "OPEN"
    /\ UNCHANGED <<redirect, answer, held, request_vars, response_vars,
                   iterator_vars>>

\* A frame comes: the buffer is rewound, and the payload is written over it.
Frame ==
    /\ state = "OPEN"
    /\ store' \in Payloads
    /\ error' = FALSE
    /\ held' = FALSE
    /\ headers' = <<>> /\ listed' = <<>>
    /\ UNCHANGED <<state, redirect, answer, request_vars, hstate, todo, pos,
                   astray>>

WicClose ==
    /\ state = "OPEN"
    /\ state' = "CLOSED"
    /\ UNCHANGED <<redirect, answer, held, request_vars, response_vars,
                   iterator_vars>>

----------------------------------------------------------------------------
Next ==
    \/ WicInit \/ StartClient
    \/ \E n \in Nodes : WicSetHeader(n)
    \/ \E h \in Headers : FieldStarts(h)
    \/ FieldGoesOn \/ ValueStarts \/ ValueGoesOn
    \/ \E status \in Statuses, upgrade \in BOOLEAN : Complete(status, upgrade)
    \/ Breaks
    \/ WicGetNextHeader \/ WicRewindGetNextHeader
    \/ OnOpenReturn \/ Frame \/ WicClose

Spec == Init /\ [][Next]_vars

----------------------------------------------------------------------------
(* Properties.                                                             *)

\* Every variable has its type, and no write leaves the receive buffer.
TypeOK ==
    /\ state \in {"INIT", "PARSE_HANDSHAKE", "READY", "OPEN", "CLOSED"}
    /\ next \in [Nodes -> Nodes \cup {Null}]
    /\ head \in Nodes \cup {Null}
    /\ request \in Seq(Nodes)
    /\ hstate \in {"IDLE", "FIELD", "VALUE"}
    /\ store \in Seq(Letter \cup {Nul}) /\ Len(store) <= RxMax
    /\ error \in BOOLEAN
    /\ redirect \in [text : Seq(Letter), whole : BOOLEAN] \cup {Null}
    /\ pos \in Nat

\* A header in the store, and the headers hs, one after the other.
Whole(h) == h.name \o <<Nul>> \o h.value \o <<Nul>>
Stored(hs) == FlattenSeq([i \in DOMAIN hs |-> Whole(hs[i])])

\* What the store should hold: the headers before the last, and of the last
\* what the parser has delivered, with the ends that are due.
Wanted ==
    LET past == Stored(Front(headers))
        h == Last(headers)
        come(text) == Take(text, Len(text) - Len(todo))
    IN  CASE hstate = "IDLE" -> <<>>
          [] hstate = "FIELD" -> past \o come(h.name)
          [] hstate = "VALUE" /\ ~answer.given ->
                past \o h.name \o <<Nul>> \o come(h.value)
          [] hstate = "VALUE" /\ answer.given -> past \o Whole(h)

\* However the response is cut into pieces, the receive buffer holds the names
\* and values each with one end, and after a piece that did not fit nothing
\* follows, so that no value is ever taken for the one of another name.
StoreRight ==
    held => IsPrefix(store, Wanted) /\ (~error => store = Wanted)

\* The headers that are stored whole, which come first.
Kept == {i \in DOMAIN headers : Len(Stored(Take(headers, i))) <= Len(store)}

\* The value of the first header of that name, in any case of letters.
FirstOf(name) ==
    LET found == {i \in DOMAIN headers : StrEqual(headers[i].name, name)}
    IN  IF found = {} THEN Null
        ELSE Text(headers[CHOOSE i \in found : \A j \in found : i <= j].value)

\* What the store holds decides what the first header of that name is.
Decided(name) ==
    ~error \/ \E i \in Kept : StrEqual(headers[i].name, name)

\* wic_get_header finds in the complete response, while the buffer holds it, the
\* value of the first header of that name, also when the response was too long
\* for the buffer and only a part of it, that header with it, was stored.  For
\* another name it has nothing, or a string without an end in the store.
LookupRight ==
    held /\ answer.given =>
        \A name \in {h.name : h \in Headers} \cup {LocationName} :
        \A found \in WicGetHeader(store, name) :
            IF Decided(name) THEN found = FirstOf(name)
            ELSE found # Null => ~found.whole

\* The response is one that opens the connection.
Valid(a) ==
    /\ a.status = 101 /\ a.upgrade
    /\ FirstOf(UpgradeName) # Null
    /\ StrEqual(FirstOf(UpgradeName).text, Websocket)
    /\ FirstOf(AcceptName) # Null /\ FirstOf(AcceptName).text = Hash

\* Only a response that switches protocols opens the connection; one of which
\* the headers that matter are in the buffer does exactly when it is valid, and
\* leaves a URL exactly when it redirects: that of its location.
VerdictRight ==
    [][state = "PARSE_HANDSHAKE" /\ answer'.given
       => /\ state' = "READY" => answer'.status = 101 /\ answer'.upgrade
          /\ Decided(UpgradeName)' /\ Decided(AcceptName)'
             => (state' = "READY" <=> Valid(answer'))
          /\ answer'.status \notin Redirects => redirect' = Null
          /\ answer'.status \in Redirects /\ Decided(LocationName)'
             => redirect' = FirstOf(LocationName)]_vars

\* What the iterator returns for a header.
Entry(h) == [name |-> Text(h.name), value |-> Text(h.value)]

\* Set to the first header of a response, the iterator returns the headers that
\* are stored in order, each once, and all of them before it stops; after them
\* at most one entry more, of what was cut, whose value has no end.
IteratorRight ==
    held /\ answer.given /\ ~astray =>
        /\ \A i \in DOMAIN listed :
              IF i \in Kept THEN listed[i] = Entry(headers[i])
              ELSE /\ error /\ i - 1 \in Kept \cup {0}
                   /\ ~listed[i].value.whole
        /\ pos >= Len(store) => \A i \in Kept : i \in DOMAIN listed

\* In on_open wic_get_next_header returns null-terminated names and values.
ListedWhole ==
    state = "READY" /\ ~astray =>
        \A i \in DOMAIN listed : listed[i].name.whole /\ listed[i].value.whole

\* The request has each header linked since wic_init once, the last linked
\* first, whatever the nodes were linked to in an earlier instance.
RequestRight ==
    state \in {"READY", "OPEN", "PARSE_HANDSHAKE"} => request = Reverse(linked)
=============================================================================
