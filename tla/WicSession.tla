----------------------------- MODULE WicSession -----------------------------
(***************************************************************************)
(* What a wic_inst promises to the application about one connection        *)
(* (include/wic.h, the handler types): it opens or it fails, never both;   *)
(* when it is over the transport is closed once and then the end is        *)
(* reported once, as a failure of the handshake if the websocket had not   *)
(* been open and as a close if it had.  An instance that is over is used   *)
(* again only after wic_init, and wic_init finds every end reported.       *)
(***************************************************************************)

VARIABLES
    phase,      \* new, connecting, open or over
    transport,  \* up, or closed by on_close_transport
    told        \* what the application was told last

vars == <<phase, transport, told>>

Init == phase = "new" /\ transport = "up" /\ told = "nothing"

Start ==
    /\ phase = "new"
    /\ phase' = "connecting"
    /\ UNCHANGED <<transport, told>>

\* wic_close before wic_start: there is nothing to report.
Abandon ==
    /\ phase = "new"
    /\ phase' = "over"
    /\ UNCHANGED <<transport, told>>

Open ==
    /\ phase = "connecting"
    /\ phase' = "open"
    /\ told' = "open"
    /\ UNCHANGED transport

End ==
    /\ phase \in {"connecting", "open"}
    /\ phase' = "over"
    /\ transport' = "closed"
    /\ UNCHANGED told

Report ==
    /\ phase = "over"
    /\ transport = "closed"
    /\ \/ told = "nothing" /\ told' = "failure"
       \/ told = "open" /\ told' = "close"
    /\ UNCHANGED <<phase, transport>>

Renew ==
    /\ phase = "over"
    /\ transport = "closed" => told \in {"failure", "close"}
    /\ phase' = "new"
    /\ transport' = "up"
    /\ told' = "nothing"

Next == Start \/ Abandon \/ Open \/ End \/ Report \/ Renew

Spec == Init /\ [][Next]_vars /\ WF_vars(Report)
=============================================================================
