---------------------------- MODULE SecureChannel ----------------------------
(***************************************************************************)
(* One direction of one secure session: Crypto::send on one peer,          *)
(* Crypto::recv on the other, and the TCP connection between them.         *)
(*                                                                         *)
(* A payload travels as three units, Rocket, SpaceCraft and ciphertext.    *)
(* TCP is the log `pkts` of the packets ever handed to the kernel and the  *)
(* number `reach` of their units that get to the receiver: all of them     *)
(* while the connection is up, a prefix once it is down.                   *)
(*                                                                         *)
(* Abstracted: a MAC is the tuple it authenticates; a ciphertext is its    *)
(* plaintext with the CFB8 stream position it was produced at, and         *)
(* decrypts to garbage at any other position (CFB8 resynchronises after    *)
(* AES128_BLOCK_LEN bytes; payloads here are shorter than a block).        *)
(* Crypto::send is one step: a receiver that sees a packet half sent can   *)
(* only block in MSG_WAITALL, and a connection lost half way is a `reach`  *)
(* in the middle of the packet.                                            *)
(***************************************************************************)
EXTENDS Integers, Sequences

CONSTANTS Byte,        \* the values of a byte
          BufferSize,  \* BUFFER_SIZE, the largest payload of a packet
          SeqModulus,  \* sequence numbers are uint32_t: 2^32
          Garbled      \* what a ciphertext decrypts to at a wrong position

ASSUME SecureChannelAssumption ==
    /\ BufferSize \in Nat \ {0}
    /\ SeqModulus \in Nat
    /\ \E k \in 1..SeqModulus : SeqModulus = 2 * k
    /\ Garbled \notin Byte

VARIABLES
    seqO,       \* sender: sequence_number_o
    tx,         \* sender: "open", or the exception Crypto::send threw
    pkts,       \* the packets ever handed to TCP
    reach,      \* how many of their units get to the receiver
    conn,       \* "up" or "down"
    seqI,       \* receiver: sequence_number_i
    decPos,     \* receiver: position of the decryption context ctx_d
    taken,      \* receiver: packets read off the connection
    rx,         \* receiver: where Crypto::recv is, or the exception it threw
    want,       \* receiver: the `size` argument of the call
    remaining,  \* receiver: the three statics of Crypto::recv
    index,
    payload,
    sent,       \* history: every byte fed to the encryption context
    received    \* history: every byte returned to the application

txVars   == <<seqO, tx, pkts, sent>>
netVars  == <<reach, conn>>
rxVars   == <<seqI, decPos, taken, rx, want, remaining, index, payload, received>>
vars     == <<seqO, tx, pkts, reach, conn, seqI, decPos, taken, rx, want,
              remaining, index, payload, sent, received>>

(* The callers of Crypto::send pass between 1 and BUFFER_SIZE bytes        *)
(* (FileTransfer); it takes an empty payload as well.                      *)
Payloads == UNION {[1..n -> Byte] : n \in 0..BufferSize}

(* Mutant: a counter wider than the field it is sent in.                   *)
IncWide(x) == x + 1

Inc(x) == IF x + 1 = SeqModulus THEN 0 ELSE x + 1

-----------------------------------------------------------------------------
(* Packets                                                                 *)

RocketMac(size, seq) == <<size, seq>>

SpaceCraftMac(seq, pos, data) == <<seq, pos, data>>

(* The Rocket, SpaceCraft and ciphertext that Crypto::send makes of m when *)
(* its counter is seq and its encryption context has consumed pos bytes.   *)
Packet(m, seq, pos) ==
    [size |-> Len(m), rseq |-> seq, rmac |-> RocketMac(Len(m), seq),
     sseq |-> Inc(seq), smac |-> SpaceCraftMac(Inc(seq), pos, m),
     pos  |-> pos, data |-> m]

(* Mutant: the length check is off by one.                                 *)
RocketVerdictTight(p, expected) ==
    IF p.size >= BufferSize THEN "tooLong"
    ELSE IF p.rseq # expected THEN "badSeq" ELSE "body"

(* Rocket::verify: what Crypto::recv does next, or the exception thrown.   *)
RocketVerdict(p, expected) ==
    IF p.rmac # RocketMac(p.size, p.rseq) THEN "badHmac"
    ELSE IF p.size > BufferSize THEN "tooLong"
    ELSE IF p.rseq # expected THEN "badSeq"
    ELSE "body"

(* SpaceCraft::verify, over the received ciphertext.                       *)
SpaceCraftVerdict(p, expected) ==
    IF p.smac # SpaceCraftMac(p.sseq, p.pos, p.data) THEN "badHmac"
    ELSE IF p.sseq # expected THEN "badSeq"
    ELSE "copy"

Decrypt(p, pos) == IF p.pos = pos THEN p.data ELSE [j \in 1..p.size |-> Garbled]

-----------------------------------------------------------------------------
Rejections == {"badHmac", "tooLong", "badSeq"}
Ended      == {"failed", "overflow"} \union Rejections

Init ==
    /\ seqO = 0 /\ tx = "open" /\ pkts = <<>> /\ sent = <<>>
    /\ reach = 0 /\ conn = "up"
    /\ seqI = 0 /\ decPos = 0 /\ taken = 0 /\ rx = "idle" /\ want = 1
    /\ remaining = 0 /\ index = 0 /\ payload = <<>> /\ received = <<>>

(* Mutant: the wrap of the counter goes unnoticed.                         *)
SendOutcomesUnchecked(m) == IF m = <<>> THEN {"failed"} ELSE {"open"}

(* Connection::send throws when the kernel takes nothing: on a connection  *)
(* that is down it may, and for an empty payload it always does, after the *)
(* two headers went out.  The wrap of the counter is looked at only after  *)
(* the transmission.                                                       *)
SendOutcomes(m) ==
    LET normal == IF Inc(Inc(seqO)) = 0 THEN "overflow" ELSE "open"
    IN  IF m = <<>> THEN {"failed"}
        ELSE IF conn = "down" THEN {"failed", normal}
        ELSE {normal}

Units(m) == IF m = <<>> THEN 2 ELSE 3

(* Crypto::send                                                            *)
Send(m) ==
    /\ tx = "open"
    /\ pkts' = Append(pkts, Packet(m, seqO, Len(sent)))
    /\ sent' = sent \o m
    /\ seqO' = Inc(Inc(seqO))
    /\ tx' \in SendOutcomes(m)
    /\ reach' = IF conn = "up" THEN reach + Units(m) ELSE reach
    /\ UNCHANGED <<conn, rxVars>>

(* The connection goes down: either peer closed it or the network failed.  *)
(* Any unit not yet read may be lost, with all that follow it.             *)
Disconnect ==
    /\ conn = "up"
    /\ conn' = "down"
    /\ \E k \in 3 * taken + (IF rx = "body" THEN 1 ELSE 0) .. reach : reach' = k
    /\ UNCHANGED <<txVars, rxVars>>

-----------------------------------------------------------------------------
(* Crypto::recv                                                            *)

Incoming == pkts[taken + 1]

Arrived(unit) == 3 * taken + unit <= reach

(* Entry: feed from TCP only if the last payload has been used up.         *)
Call(n) ==
    /\ rx = "idle"
    /\ want' = n
    /\ rx' = IF remaining = 0 THEN "rocket" ELSE "copy"
    /\ UNCHANGED <<txVars, netVars, seqI, decPos, taken, remaining, index, payload, received>>

RecvRocket ==
    /\ rx = "rocket"
    /\ Arrived(1)
    /\ rx' = RocketVerdict(Incoming, seqI)
    /\ seqI' = Inc(seqI)
    /\ UNCHANGED <<txVars, netVars, decPos, taken, want, remaining, index, payload, received>>

(* Mutant: `index` is not reset for the new payload.                       *)
RefillKeepsIndex(p) ==
    /\ taken' = taken + 1
    /\ payload' = Decrypt(p, decPos)
    /\ decPos' = decPos + p.size
    /\ remaining' = p.size
    /\ UNCHANGED index
    /\ rx' = IF Inc(seqI) = 0 THEN "overflow" ELSE "copy"

(* Mutant: the end of the counters is seen one packet too early.           *)
RefillEarly(p) ==
    /\ taken' = taken + 1
    /\ payload' = Decrypt(p, decPos)
    /\ decPos' = decPos + p.size
    /\ remaining' = p.size
    /\ index' = 0
    /\ rx' = IF Inc(Inc(Inc(seqI))) = 0 THEN "overflow" ELSE "copy"

(* A verified packet: decrypt it and refill the statics.  The wrap of the  *)
(* counter is looked at only after that, and the exception leaves the      *)
(* statics as they are.                                                    *)
Refill(p) ==
    /\ taken' = taken + 1
    /\ payload' = Decrypt(p, decPos)
    /\ decPos' = decPos + p.size
    /\ remaining' = p.size
    /\ index' = 0
    /\ rx' = IF Inc(seqI) = 0 THEN "overflow" ELSE "copy"

(* SpaceCraft and ciphertext, verified together.                           *)
RecvBody ==
    /\ rx = "body"
    /\ Arrived(3)
    /\ seqI' = Inc(seqI)
    /\ IF SpaceCraftVerdict(Incoming, seqI) = "copy"
          THEN Refill(Incoming)
          ELSE /\ rx' = SpaceCraftVerdict(Incoming, seqI)
               /\ UNCHANGED <<taken, payload, decPos, remaining, index>>
    /\ UNCHANGED <<txVars, netVars, want, received>>

(* Mutant: `index` does not move past the bytes copied.                    *)
CopyKeepsIndex ==
    LET r == IF remaining < want THEN remaining ELSE want
    IN  /\ rx = "copy"
        /\ received' = received \o SubSeq(payload, index + 1, index + r)
        /\ remaining' = remaining - r
        /\ rx' = "idle"
        /\ UNCHANGED <<txVars, netVars, seqI, decPos, taken, want, payload, index>>

Copy ==
    LET r == IF remaining < want THEN remaining ELSE want
    IN  /\ rx = "copy"
        /\ received' = received \o SubSeq(payload, index + 1, index + r)
        /\ index' = index + r
        /\ remaining' = remaining - r
        /\ rx' = "idle"
        /\ UNCHANGED <<txVars, netVars, seqI, decPos, taken, want, payload>>

(* Mutant: an empty socket is taken for a closed one.                      *)
StarvedAtOnce == rx = "rocket" /\ ~Arrived(1)

(* Connection::recv throws at the end of a broken connection, and also     *)
(* when it is asked for no bytes at all.                                   *)
Starved ==
    \/ rx = "rocket" /\ conn = "down" /\ ~Arrived(1)
    \/ rx = "body" /\ conn = "down" /\ ~Arrived(3)
    \/ rx = "body" /\ Arrived(2) /\ Incoming.size = 0

(* Mutant: the failure is swallowed and the read tried again.              *)
RecvFailsSwallowed == Starved /\ UNCHANGED vars

RecvFails ==
    /\ Starved
    /\ rx' = "failed"
    /\ UNCHANGED <<txVars, netVars, seqI, decPos, taken, want, remaining, index, payload, received>>

(* Both peers are through with the session.                                *)
Done ==
    /\ conn = "down" /\ tx # "open" /\ rx \in Ended
    /\ UNCHANGED vars

Next ==
    \/ \E m \in Payloads : Send(m)
    \/ Disconnect
    \/ \E n \in 1..BufferSize : Call(n)
    \/ RecvRocket
    \/ RecvBody
    \/ Copy
    \/ RecvFails
    \/ Done

Spec == Init /\ [][Next]_vars

(* The application of the receiver always comes back to read, the thread   *)
(* runs on, and a peer whose Crypto call threw closes its connection.      *)
RxStep ==
    (\E n \in 1..BufferSize : Call(n)) \/ RecvRocket \/ RecvBody \/ Copy \/ RecvFails

Close == (tx # "open" \/ rx \in Ended) /\ Disconnect

FairSpec == Spec /\ WF_vars(RxStep) /\ WF_vars(Close)

-----------------------------------------------------------------------------
(* Properties                                                              *)

PacketType ==
    [size : Nat, rseq : 0..SeqModulus-1, rmac : Nat \X (0..SeqModulus-1),
     sseq : 0..SeqModulus-1, smac : (0..SeqModulus-1) \X Nat \X Payloads,
     pos : Nat, data : Payloads]

(* Every variable holds a value of its C++ type, the sequence counters     *)
(* stay in the 32 bits they have, and the statics of Crypto::recv stay in  *)
(* the buffer: index and remaining never leave 0..BUFFER_SIZE.             *)
TypeOK ==
    /\ seqO \in 0..SeqModulus-1 /\ seqI \in 0..SeqModulus-1
    /\ tx \in {"open", "failed", "overflow"}
    /\ rx \in {"idle", "rocket", "body", "copy"} \union Ended
    /\ pkts \in Seq(PacketType)
    /\ reach \in Nat /\ conn \in {"up", "down"}
    /\ decPos \in Nat /\ taken \in Nat
    /\ want \in 1..BufferSize
    /\ remaining \in 0..BufferSize /\ index \in 0..BufferSize
    /\ payload \in Seq(Byte \union {Garbled})
    /\ sent \in Seq(Byte) /\ received \in Seq(Byte \union {Garbled})

(* The application of the receiver gets the bytes the sender's application *)
(* passed to Crypto::send, in order, none missing, repeated or garbled,    *)
(* however the calls cut the payloads and wherever the connection breaks.  *)
ReceivedIsPrefix ==
    /\ Len(received) <= Len(sent)
    /\ \A i \in 1..Len(received) : received[i] = sent[i]

(* Rocket::verify and SpaceCraft::verify never turn down a packet of the   *)
(* peer: sender and receiver count, measure and authenticate alike.        *)
NoRejection == rx \notin Rejections

(* No sequence number is put under a MAC twice in a session, in whatever   *)
(* packet and header: Crypto::send stops before it could.                  *)
StampsUnique ==
    \A i, j \in 1..Len(pkts) :
        /\ pkts[i].rseq # pkts[j].sseq
        /\ i # j => pkts[i].rseq # pkts[j].rseq /\ pkts[i].sseq # pkts[j].sseq

(* The first `n` packets carry this many bytes.                            *)
End(n) == IF n = 0 THEN 0 ELSE pkts[n].pos + pkts[n].size

(* Packet i is what Crypto::send makes of its piece of the stream: it is   *)
(* stamped 2i-2 and 2i-1, and its ciphertext begins where the previous one *)
(* ended.                                                                  *)
WellFormed(i) ==
    LET p == pkts[i]
    IN  /\ p.size = Len(p.data)
        /\ p.rseq = 2 * i - 2 /\ p.rmac = RocketMac(p.size, p.rseq)
        /\ p.sseq = 2 * i - 1 /\ p.smac = SpaceCraftMac(p.sseq, p.pos, p.data)
        /\ p.pos = End(i - 1)
        /\ p.pos + p.size <= Len(sent)
        /\ \A j \in 1..p.size : p.data[j] = sent[p.pos + j]

SenderInv ==
    /\ 2 * Len(pkts) <= SeqModulus
    /\ tx = "open" => seqO = 2 * Len(pkts) /\ 2 * Len(pkts) < SeqModulus
    /\ tx = "open" => \A i \in 1..Len(pkts) : pkts[i].size # 0
    /\ Len(sent) = End(Len(pkts))
    /\ \A i \in 1..Len(pkts) : WellFormed(i)

ReceiverInv ==
    /\ reach <= 3 * Len(pkts)
    /\ 3 * taken + (IF rx = "body" THEN 1 ELSE 0) <= reach
    /\ decPos = End(taken)
    /\ rx \notin Ended => seqI = 2 * taken + (IF rx = "body" THEN 1 ELSE 0)

StaticsInv ==
    /\ rx \in {"rocket", "body"} => remaining = 0
    /\ index + remaining = Len(payload) /\ Len(payload) <= BufferSize
    /\ Len(received) + remaining = decPos
    /\ \A j \in 1..remaining : payload[index + j] = sent[Len(received) + j]

(* The two peers agree on the session at every moment: the packets are     *)
(* stamped and cut from the stream as the receiver expects them, both      *)
(* counters and both cipher positions are where the packets exchanged put  *)
(* them, and the statics hold exactly the decrypted bytes not yet handed   *)
(* out.                                                                    *)
ChannelInv ==
    /\ TypeOK /\ SenderInv /\ ReceiverInv /\ StaticsInv
    /\ NoRejection /\ ReceivedIsPrefix

(* A receiver whose connection is gone is told: Crypto::recv hands out     *)
(* what did arrive and then throws, it does not wait for ever.             *)
FailureNoticed == (conn = "down") ~> (rx \in Ended)

(* The stream of bytes promised to the application layer.                  *)
BS == INSTANCE ByteStream WITH
        Chunk  <- Payloads,
        stream <- IF conn = "up" /\ tx = "open" THEN "open" ELSE "broken",
        reader <- IF rx \in Ended THEN "stopped" ELSE "reading"

(* Crypto::send and Crypto::recv implement that stream: the reader gives   *)
(* up only on a stream that broke or that the sender already knows to be   *)
(* exhausted, and on an open stream all that was sent is read.             *)
ImplementsByteStream == BS!Spec

(* The end of the counters costs the payload of the last packet they       *)
(* allow, which is decrypted and not handed out, and nothing before it:    *)
(* Crypto::recv has emptied its statics when it asks for a packet.         *)
OverflowLosesOnlyLast ==
    rx = "overflow" => 2 * taken = SeqModulus /\ Len(received) = End(taken - 1)
=============================================================================
