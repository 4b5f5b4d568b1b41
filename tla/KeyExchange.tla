----------------------------- MODULE KeyExchange -----------------------------
(***************************************************************************)
(* What the handshake promises: two peers that accept each other end up    *)
(* with the keys the server made, the client first.  Nobody gives up       *)
(* unless the peers do not accept each other or the link went down, and    *)
(* nobody is left waiting.                                                 *)
(***************************************************************************)
CONSTANTS Keys,    \* the keys the server may make
          NoKeys   \* what a peer has before it has keys

VARIABLES client, server,      \* "running", "agreed" or "failed"
          clientKeys, serverKeys,
          accepted,            \* do the peers accept each other?
          link                 \* "up" or "down"

vars == <<client, server, clientKeys, serverKeys, accepted, link>>

Init ==
    /\ client = "running" /\ server = "running"
    /\ clientKeys = NoKeys /\ serverKeys = NoKeys
    /\ accepted \in BOOLEAN
    /\ link \in {"up", "down"}

(* The server makes the keys, and may find the link gone when it offers    *)
(* them.                                                                   *)
Offer ==
    /\ server = "running" /\ serverKeys = NoKeys
    /\ serverKeys' \in Keys
    /\ server' = "running" \/ (link = "down" /\ server' = "failed")
    /\ UNCHANGED <<client, clientKeys, accepted, link>>

ClientAgrees ==
    /\ client = "running" /\ accepted /\ serverKeys # NoKeys
    /\ client' = "agreed" /\ clientKeys' = serverKeys
    /\ UNCHANGED <<server, serverKeys, accepted, link>>

ServerAgrees ==
    /\ server = "running" /\ client = "agreed"
    /\ server' = "agreed"
    /\ UNCHANGED <<client, clientKeys, serverKeys, accepted, link>>

Hopeless == ~accepted \/ link = "down"

ClientFails ==
    /\ client = "running" /\ Hopeless
    /\ client' = "failed"
    /\ UNCHANGED <<server, clientKeys, serverKeys, accepted, link>>

ServerFails ==
    /\ server = "running" /\ Hopeless
    /\ server' = "failed"
    /\ UNCHANGED <<client, clientKeys, serverKeys, accepted, link>>

Lose ==
    /\ link = "up"
    /\ link' = "down"
    /\ UNCHANGED <<client, server, clientKeys, serverKeys, accepted>>

ClientStep == ClientAgrees \/ ClientFails
ServerStep == Offer \/ ServerAgrees \/ ServerFails

Next == ClientStep \/ ServerStep \/ Lose

(* What may never happen, and with it what must happen in the end.         *)
Safety == Init /\ [][Next]_vars

Spec == Safety /\ WF_vars(ClientStep) /\ WF_vars(ServerStep)
=============================================================================
