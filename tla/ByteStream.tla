----------------------------- MODULE ByteStream -----------------------------
(***************************************************************************)
(* What one direction of the secure session promises to the application    *)
(* layer: a stream of bytes.  The writer appends chunks, the reader gets   *)
(* the same bytes in the same order, in pieces of its own choosing.  The   *)
(* only thing that may go wrong is that the stream breaks; a reader never  *)
(* gives up on a stream that is open.                                      *)
(***************************************************************************)
EXTENDS Naturals, Sequences

CONSTANT Chunk        \* the chunks a writer may pass in one call

VARIABLES sent,       \* every byte handed to the stream so far
          received,   \* every byte the reader has got so far
          stream,     \* "open" or "broken"
          reader      \* "reading" or "stopped"

vars == <<sent, received, stream, reader>>

Init == /\ sent = <<>>
        /\ received = <<>>
        /\ stream = "open"
        /\ reader = "reading"

(* A write may find that it is the last one the stream carries, and a      *)
(* write to a broken stream is accepted and lost.                          *)
Write == /\ \E m \in Chunk : sent' = sent \o m
         /\ stream' \in {stream, "broken"}
         /\ UNCHANGED <<received, reader>>

Read == /\ reader = "reading"
        /\ \E n \in Len(received)+1 .. Len(sent) : received' = SubSeq(sent, 1, n)
        /\ UNCHANGED <<sent, stream, reader>>

Break == /\ stream = "open"
         /\ stream' = "broken"
         /\ UNCHANGED <<sent, received, reader>>

Stop == /\ reader = "reading"
        /\ stream = "broken"
        /\ reader' = "stopped"
        /\ UNCHANGED <<sent, received, stream>>

Next == Write \/ Read \/ Break \/ Stop

(* What may never happen.                                                  *)
Safety == Init /\ [][Next]_vars

(* While the stream is open, unread bytes are eventually read.             *)
Spec == Safety /\ WF_vars(Read /\ stream = "open")
=============================================================================
