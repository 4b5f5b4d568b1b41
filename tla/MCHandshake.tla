---------------------------- MODULE MCHandshake ----------------------------
(* Instances of Handshake for TLC: the table of certificates that comes    *)
(* with the program, and a user whose certificate does not fit a string.   *)
EXTENDS Handshake

CONSTANTS alice, bob, charlie, trudy, server, big

MCUser     == {alice, bob, charlie, trudy, big}
MCHost     == {server, trudy, bob}
MCPeer     == MCUser \union MCHost
MCVerified == {alice, bob, server, big}
MCClients  == {alice, charlie, big}
MCServers  == {server}
MCMatches  == {<<p, p>> : p \in MCPeer}
MCHuge     == {big}
=============================================================================
