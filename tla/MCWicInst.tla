----------------------------- MODULE MCWicInst -----------------------------
(* Values of WicInst's constants for TLC. *)
EXTENDS WicInst

\* Where application code runs: outside the library and in each handler.
InClosing == {"close_transport", "on_close", "hs_close_transport", "hs_failure"}
InHttpFailure == {"http_close_transport", "http_failure"}

\* An application that neither closes in on_open nor calls back while a
\* failed handshake is reported, as those of the repository.
QuietClose == {"idle", "on_message"} \cup InClosing
QuietSend  == {"idle", "on_open", "on_message"} \cup InClosing

\* One that also closes in on_open, and one that also closes in the handlers
\* that report a failed handshake.
OpenClose    == {"on_open"} \cup QuietClose
FailureClose == QuietClose \cup InHttpFailure

Ascii == {"x40"}
NoData == {<<>>}
OneByte == {<<>>, <<Ascii>>}
Cut == {<<>>, <<Lead>>}
Halves == {<<>>, <<Lead>>, <<Cont>>, <<Lead, Cont>>, <<Ascii, Lead>>}

\* A ping that no control frame may carry.
LongPing == {<<>>, [i \in 1 .. 126 |-> Ascii]}

Utf8Bytes == {Ascii, Lead, Cont}
OneKey == {{}}
TwoKeys == {{}, {"x82"}}
=============================================================================
