-------------------------- MODULE MCSharedReceiver --------------------------
(* Instances of SharedReceiver for TLC.                                    *)
EXTENDS SharedReceiver, TLC

CONSTANTS s1, s2, s3

(* Three short sessions, with payloads below and at the buffer size: a     *)
(* request and a body, two requests, and a mixture of them.                *)
ThreeSessions == {s1, s2, s3}
ShortEnds == (s1 :> <<2, 5>>) @@ (s2 :> <<3, 4>>) @@ (s3 :> <<1, 3, 4>>)
ShortAnswers == (s1 :> {2}) @@ (s2 :> {3, 4}) @@ (s3 :> {1, 4})

(* Two sessions that run side by side.                                     *)
TwoSessions == {s1, s2}
BesideEnds == (s1 :> <<2>>) @@ (s2 :> <<2>>)
BesideAnswers == (s1 :> {2}) @@ (s2 :> {2})

(* A session whose packets use up the sequence numbers, and one after it.  *)
LongEnds == (s1 :> <<1, 3, 5>>) @@ (s2 :> <<2, 3>>)
LongAnswers == (s1 :> {1, 3, 5}) @@ (s2 :> {2, 3})
=============================================================================
