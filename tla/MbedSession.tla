---------------------------- MODULE MbedSession -----------------------------
(***************************************************************************)
(* What the mbed client promises to the application, whatever its two      *)
(* threads, the peer and the network do (port/mbed/wic_client.h): it goes  *)
(* from closed over opening, open and closing back to closed, and is never *)
(* half of one connection and half of the next; recv returns the messages  *)
(* of the connection one by one, in the order in which the peer sent them, *)
(* each once and none of another connection.  Messages that the client had *)
(* read when the websocket closed can still be received, until the next    *)
(* connect.                                                                *)
(***************************************************************************)
EXTENDS Naturals

VARIABLES
    state, \* CLOSED, OPENING, OPEN or CLOSING
    sent,  \* messages the peer has sent in this connection
    ready, \* those of them that recv has returned or may return now
    got    \* those that recv has returned

vars == <<state, sent, ready, got>>

Init == state = "CLOSED" /\ sent = 0 /\ ready = 0 /\ got = 0

\* connect; nothing of the last connection is left, even if it fails at once.
Open ==
    /\ state = "CLOSED"
    /\ state' \in {"OPENING", "CLOSED"}
    /\ sent' = 0 /\ ready' = 0 /\ got' = 0

Establish ==
    /\ state = "OPENING"
    /\ state' = "OPEN"
    /\ UNCHANGED <<sent, ready, got>>

\* The peer sends; its first messages may come with its response.
Arrive ==
    /\ state \in {"OPENING", "OPEN"}
    /\ sent' \in Nat /\ sent' > sent
    /\ UNCHANGED <<state, ready, got>>

\* The next message that was sent is the next to be received.
Queue ==
    /\ state = "OPEN"
    /\ ready < sent
    /\ ready' = ready + 1
    /\ UNCHANGED <<state, sent, got>>

Receive ==
    /\ got < ready
    /\ got' = got + 1
    /\ UNCHANGED <<state, sent, ready>>

\* Either side closes, the handshake fails or takes too long, an error.
End ==
    /\ state \in {"OPENING", "OPEN"}
    /\ state' = "CLOSING"
    /\ UNCHANGED <<sent, ready, got>>

Shut ==
    /\ state = "CLOSING"
    /\ state' = "CLOSED"
    /\ UNCHANGED <<sent, ready, got>>

Next == Open \/ Establish \/ Arrive \/ Queue \/ Receive \/ End \/ Shut

Spec == Init /\ [][Next]_vars
=============================================================================
