-------------------------- MODULE MCServerProcess --------------------------
(* Instances of ServerProcess for TLC.                                     *)
EXTENDS ServerProcess

CONSTANTS p1, p2
=============================================================================
