--------------------------- MODULE SharedReceiver ---------------------------
(***************************************************************************)
(* Crypto::recv in the server process.  Every client has a thread and a    *)
(* Crypto object of its own, but `remaining`, `index` and `payload` are    *)
(* function statics: one copy for the process, with no lock.               *)
(*                                                                         *)
(* The steps of a thread are the accesses of crypto.cpp to the statics, in *)
(* program order (the build does not optimise); what a thread does with    *)
(* its own connection between two of them is part of the step.  What       *)
(* SecureChannel shows of one session is taken from there: every packet    *)
(* arrives in order and verifies.  Byte k of session s is <<s, k>>.        *)
(***************************************************************************)
EXTENDS Integers, Sequences

CONSTANTS Session,     \* the client sessions the server meets
          Ends,        \* Ends[s]: where the payloads end in what the client
                       \* of s sends
          Answers,     \* Answers[s]: after which bytes of s its handlers
                       \* answer
          BufferSize,  \* BUFFER_SIZE
          SeqModulus,  \* 2^32
          Overlap,     \* may sessions run at the same time?
          Junk         \* a byte of no session

(* The first i payloads of s carry this many bytes, and payload i this.    *)
End(s, i) == IF i = 0 THEN 0 ELSE Ends[s][i]

Size(s, i) == End(s, i) - End(s, i - 1)

Packets(s) == Len(Ends[s])

Total(s) == End(s, Packets(s))

(* The sizes of the payloads imply that their ends grow.  Where a thread   *)
(* answers is not where a payload ends if recvCmd has stopped at a full    *)
(* line: of a request of BUFFER_SIZE bytes it reads one less.              *)
ASSUME SharedReceiverAssumption ==
    /\ BufferSize \in Nat \ {0}
    /\ SeqModulus \in Nat /\ \E k \in 1..SeqModulus : SeqModulus = 2 * k
    /\ Overlap \in BOOLEAN
    /\ \A s \in Session :
         /\ Ends[s] \in Seq(Nat)
         /\ \A i \in 1..Packets(s) : Size(s, i) \in 1..BufferSize
         /\ \A i, j \in 0..Packets(s) : i <= j => End(s, i) <= End(s, j)
         /\ Answers[s] \subseteq 1..Total(s)

VARIABLES
    remaining, index, payload,  \* the statics
    pc,        \* pc[s]: where the thread of s is, "crashed" if the process died
    up,        \* up[s]: is the connection of s up?
    taken,     \* taken[s]: packets the thread has read off its connection
    seqI,      \* seqI[s]: sequence_number_i
    want,      \* want[s]: the `size` argument of the call
    r,         \* r[s]: the local r of the call
    got        \* got[s]: history, the bytes the calls have returned

statics == <<remaining, index, payload>>
locals  == <<up, taken, seqI, want, r, got>>
vars    == <<remaining, index, payload, pc, up, taken, seqI, want, r, got>>

Inc(x) == IF x + 1 = SeqModulus THEN 0 ELSE x + 1

(* Mutant: a counter of two bits.                                          *)
Inc2Narrow(x) == (x + 2) % 4

Inc2(x) == Inc(Inc(x))

Init ==
    /\ remaining = 0 /\ index = 0 /\ payload = [j \in 1..BufferSize |-> Junk]
    /\ pc = [s \in Session |-> "new"]
    /\ up = [s \in Session |-> TRUE]
    /\ taken = [s \in Session |-> 0]
    /\ seqI = [s \in Session |-> 0]
    /\ want = [s \in Session |-> 0]
    /\ r = [s \in Session |-> 0]
    /\ got = [s \in Session |-> <<>>]

Goto(s, to) == pc' = [pc EXCEPT ![s] = to]

(* The server accepts the client of s and its thread gets a session.       *)
Start(s) ==
    /\ pc[s] = "new"
    /\ Overlap \/ \A t \in Session : pc[t] \in {"new", "ended"}
    /\ Goto(s, "idle")
    /\ UNCHANGED <<statics, locals>>

(* The client goes away or the network fails: what the thread has not read *)
(* is lost.                                                                *)
Drop(s) ==
    /\ pc[s] \notin {"ended", "crashed"} /\ up[s]
    /\ up' = [up EXCEPT ![s] = FALSE]
    /\ UNCHANGED <<statics, pc, taken, seqI, want, r, got>>

(* The application asks for n bytes, of those its protocol tells it to     *)
(* expect before it answers next, and leaves once it has them all.         *)
Call(s) ==
    /\ pc[s] = "idle"
    /\ IF Len(got[s]) < Total(s)
         THEN /\ \E n \in 1..BufferSize :
                   /\ n <= Total(s) - Len(got[s])
                   /\ \A a \in Answers[s] :
                        Len(got[s]) < a => n <= a - Len(got[s])
                   /\ want' = [want EXCEPT ![s] = n]
              /\ Goto(s, "check")
         ELSE Goto(s, "ended") /\ UNCHANGED want
    /\ UNCHANGED <<statics, up, taken, seqI, r, got>>

(* Mutant: the handler does not wait for the whole request.                *)
LeaveEarly(s) ==
    /\ pc[s] = "idle"
    /\ \E a \in Answers[s] : Len(got[s]) \in 1..a
    /\ Goto(s, "ended")
    /\ UNCHANGED <<statics, locals>>

(* A handler answers what has been read, and the session ends there, with  *)
(* whatever is in the statics: the answer does not go out (send() fails,   *)
(* or the counter of what is sent is used up) and the exception gets to    *)
(* execute, or it was QUIT.  Any other answer changes nothing here.        *)
Leave(s) ==
    /\ pc[s] = "idle"
    /\ Len(got[s]) \in Answers[s]
    /\ Goto(s, "ended")
    /\ UNCHANGED <<statics, locals>>

(* if (remaining == 0)                                                     *)
Check(s) ==
    /\ pc[s] = "check"
    /\ Goto(s, IF remaining = 0 THEN "fetch" ELSE "measure")
    /\ UNCHANGED <<statics, locals>>

(* Mutant: the failure of a lost connection is swallowed.                  *)
FetchSwallowsFailure(s) ==
    /\ pc[s] = "fetch"
    /\ IF up[s]
         THEN /\ taken[s] < Packets(s)
              /\ taken' = [taken EXCEPT ![s] = @ + 1]
              /\ seqI' = [seqI EXCEPT ![s] = Inc2(@)]
              /\ payload' = [j \in 1..BufferSize |->
                               IF j <= Size(s, taken'[s])
                                 THEN <<s, End(s, taken[s]) + j>> ELSE payload[j]]
              /\ Goto(s, "publish")
         ELSE UNCHANGED <<pc, taken, seqI, payload>>
    /\ UNCHANGED <<remaining, index, up, want, r, got>>

(* Receive and verify a packet of the thread's own connection and decrypt  *)
(* it into the shared payload; a lost connection raises ExRecv instead.    *)
Fetch(s) ==
    /\ pc[s] = "fetch"
    /\ IF up[s]
         THEN /\ taken[s] < Packets(s)
              /\ taken' = [taken EXCEPT ![s] = @ + 1]
              /\ seqI' = [seqI EXCEPT ![s] = Inc2(@)]
              /\ payload' = [j \in 1..BufferSize |->
                               IF j <= Size(s, taken'[s])
                                 THEN <<s, End(s, taken[s]) + j>> ELSE payload[j]]
              /\ Goto(s, "publish")
         ELSE Goto(s, "ended") /\ UNCHANGED <<taken, seqI, payload>>
    /\ UNCHANGED <<remaining, index, up, want, r, got>>

(* remaining = rocket.getPayloadSize()                                     *)
Publish(s) ==
    /\ pc[s] = "publish"
    /\ remaining' = Size(s, taken[s])
    /\ Goto(s, "reset")
    /\ UNCHANGED <<index, payload, locals>>

(* index = 0, then ExSeqNumOverflow if the counter has wrapped.            *)
Reset(s) ==
    /\ pc[s] = "reset"
    /\ index' = 0
    /\ Goto(s, IF seqI[s] = 0 THEN "ended" ELSE "measure")
    /\ UNCHANGED <<remaining, payload, locals>>

(* r = (remaining < size) ? remaining : size                               *)
Measure(s) ==
    /\ pc[s] = "measure"
    /\ r' = [r EXCEPT ![s] = IF remaining < want[s] THEN remaining ELSE want[s]]
    /\ Goto(s, "copy")
    /\ UNCHANGED <<statics, up, taken, seqI, want, got>>

(* memcpy(buffer, payload + index, r): beyond the buffer is other memory,  *)
(* and a negative r is an enormous size_t that brings the process down.    *)
Copy(s) ==
    /\ pc[s] = "copy"
    /\ IF r[s] >= 0
         THEN /\ got' = [got EXCEPT ![s] = @ \o [j \in 1..r[s] |->
                           IF index + j \in 1..BufferSize THEN payload[index + j] ELSE Junk]]
              /\ Goto(s, "advance")
         ELSE pc' = [t \in Session |-> "crashed"] /\ UNCHANGED got
    /\ UNCHANGED <<statics, up, taken, seqI, want, r>>

(* Mutant: `index` is not advanced.                                        *)
AdvanceNot(s) == pc[s] = "advance" /\ Goto(s, "consume") /\ UNCHANGED <<statics, locals>>

(* index += r                                                              *)
Advance(s) ==
    /\ pc[s] = "advance"
    /\ index' = index + r[s]
    /\ Goto(s, "consume")
    /\ UNCHANGED <<remaining, payload, locals>>

(* Mutant: what was asked for is subtracted, not what was copied.          *)
ConsumeWanted(s) ==
    /\ pc[s] = "consume"
    /\ remaining' = remaining - want[s]
    /\ Goto(s, "idle")
    /\ UNCHANGED <<index, payload, locals>>

(* remaining -= r                                                          *)
Consume(s) ==
    /\ pc[s] = "consume"
    /\ remaining' = remaining - r[s]
    /\ Goto(s, "idle")
    /\ UNCHANGED <<index, payload, locals>>

Step(s) ==
    \/ Start(s) \/ Call(s) \/ Leave(s) \/ Check(s) \/ Fetch(s) \/ Publish(s)
    \/ Reset(s) \/ Measure(s) \/ Copy(s) \/ Advance(s) \/ Consume(s)

(* Every client has been served.                                           *)
Done ==
    /\ \A s \in Session : pc[s] = "ended"
    /\ UNCHANGED vars

Next == (\E s \in Session : Step(s) \/ Drop(s)) \/ Done

Spec == Init /\ [][Next]_vars

(* Threads run on, and clients are accepted as they come.                  *)
FairSpec == Spec /\ \A s \in Session : WF_vars(Step(s))

-----------------------------------------------------------------------------
(* Properties                                                              *)

Bytes == (Session \X Nat) \union {Junk}

Phase == {"new", "idle", "check", "fetch", "publish", "reset", "measure",
          "copy", "advance", "consume", "ended"}

(* The statics stay in the bounds of the payload buffer: memcpy never      *)
(* reads past it and never gets a negative count.                          *)
TypeOK ==
    /\ remaining \in 0..BufferSize
    /\ index \in 0..BufferSize
    /\ payload \in [1..BufferSize -> Bytes]
    /\ pc \in [Session -> Phase]
    /\ up \in [Session -> BOOLEAN]
    /\ taken \in [Session -> Nat] /\ \A s \in Session : taken[s] <= Packets(s)
    /\ seqI \in [Session -> 0..SeqModulus-1]
    /\ want \in [Session -> 0..BufferSize] /\ r \in [Session -> 0..BufferSize]
    /\ got \in [Session -> Seq(Bytes)]

(* Every session reads its own bytes, in order: never those of another     *)
(* session that runs beside it or that ran before it.                      *)
SessionIsolation ==
    \A s \in Session : \A k \in 1..Len(got[s]) : got[s][k] = <<s, k>>

(* A session leaves nothing in the statics for the next one to read: not   *)
(* when it has read all, not when it loses the connection in the middle of *)
(* a body, and not when an answer fails, because it answers only what it   *)
(* has read to the end of its payload (see AnswersAtEnds).                 *)
DrainedBetweenSessions ==
    (\A s \in Session : pc[s] \in {"new", "ended"}) => remaining = 0

(* No two sessions run at a time, none of them uses up the sequence        *)
(* numbers, and no thread answers with a part of a payload unread, as it   *)
(* does to a request longer than the line that recvCmd reads: what the     *)
(* statics need to be sound.                                               *)
OneAtATime == ~Overlap /\ \A s \in Session : 2 * Packets(s) < SeqModulus

AnswersAtEnds ==
    \A s \in Session : \A a \in Answers[s] : \E i \in 1..Packets(s) : a = End(s, i)

Running(s) == pc[s] \notin {"new", "ended"}

(* What of the statics the call of s has not given out or consumed yet: it *)
(* begins behind index, and behind the bytes copied if s has not moved     *)
(* index yet.                                                              *)
Behind(s) == IF pc[s] = "advance" THEN index + r[s] ELSE index
Left(s) == IF pc[s] \in {"advance", "consume"} THEN remaining - r[s] ELSE remaining

(* The n bytes of the buffer behind `at` are those s is to read next.      *)
Buffered(s, at, n) == \A j \in 1..n : payload[at + j] = <<s, Len(got[s]) + j>>

(* Bytes of the last payload taken have been handed out.                   *)
Begun(s) == taken[s] >= 1 /\ End(s, taken[s] - 1) < Len(got[s])

(* Where the statics and the bytes of session s are as its thread goes     *)
(* through Crypto::recv.  What is left is always the rest of one payload,  *)
(* so nothing is left when the thread has read to the end of one.          *)
SessionInv(s) ==
    /\ seqI[s] = 2 * taken[s]
    /\ pc[s] = "new" => taken[s] = 0 /\ got[s] = <<>>
    /\ pc[s] = "fetch" => remaining = 0 /\ Len(got[s]) = End(s, taken[s])
    /\ pc[s] \in {"publish", "reset"} =>
         /\ taken[s] >= 1 /\ Len(got[s]) = End(s, taken[s] - 1)
         /\ remaining = IF pc[s] = "publish" THEN 0 ELSE Size(s, taken[s])
         /\ Buffered(s, 0, Size(s, taken[s]))
    /\ pc[s] \in {"idle", "check", "measure", "copy", "advance", "consume"} =>
         /\ Len(got[s]) + Left(s) = End(s, taken[s])
         /\ Behind(s) + Left(s) <= BufferSize
         /\ Buffered(s, Behind(s), Left(s))
    /\ pc[s] \in {"copy", "advance", "consume"} => r[s] <= remaining
    /\ pc[s] \in {"check", "fetch", "publish", "reset", "measure"} => want[s] >= 1
    /\ pc[s] = "copy" => r[s] >= 1
    /\ pc[s] \in {"measure", "copy"} =>
         remaining >= 1 /\ taken[s] >= 1 /\ End(s, taken[s] - 1) <= Len(got[s])
    /\ pc[s] \in {"advance", "consume"} => Begun(s)
    /\ pc[s] \in {"idle", "check"} => remaining = 0 \/ Begun(s)

(* At most one thread is in Crypto::recv, its sequence number has not      *)
(* wrapped, and the statics hold exactly the bytes of its connection that  *)
(* are decrypted and not handed out; between two sessions they are empty.  *)
SequentialInv ==
    /\ TypeOK /\ SessionIsolation /\ DrainedBetweenSessions
    /\ \A s, t \in Session : Running(s) /\ Running(t) => s = t
    /\ \A s \in Session : SessionInv(s)

(* Every thread gets to the end of its session.                            *)
AllServed == <>(\A s \in Session : pc[s] = "ended")
=============================================================================
