----------------------- MODULE SecureChannelRefinement -----------------------
(***************************************************************************)
(* Proofs about SecureChannel that rest on ChannelInv: what the end of the *)
(* sequence numbers costs, and that every step of Crypto::send and         *)
(* Crypto::recv is one of the abstract stream of bytes.                    *)
(***************************************************************************)
EXTENDS SecureChannelProofs

-----------------------------------------------------------------------------
(* The end of the counters.                                                *)

(* The last sequence number is used by the last packet the counters allow. *)
LEMMA LastStamp ==
    ASSUME NEW n \in Nat, 2 * n < SeqModulus, Inc(2 * n + 1) = 0
    PROVE  2 * (n + 1) = SeqModulus
BY Stamps, SecureChannelAssumption

(* A step that leaves the receiver alone loses nothing.                    *)
LEMMA OverflowStays ==
    ASSUME ChannelInv, OverflowLosesOnlyLast,
           UNCHANGED <<taken, received, rx>>,
           \A i \in 0..Len(pkts) : End(i)' = End(i)
    PROVE  OverflowLosesOnlyLast'
<1> SUFFICES ASSUME rx = "overflow"
             PROVE  2 * taken = SeqModulus /\ Len(received) = End(taken - 1)'
  BY DEF OverflowLosesOnlyLast
<1>1. 2 * taken = SeqModulus /\ Len(received) = End(taken - 1)
  BY DEF OverflowLosesOnlyLast
<1>2. taken \in Nat /\ reach \in Nat /\ Len(pkts) \in Nat /\ 3 * taken <= reach
      /\ reach <= 3 * Len(pkts)
  BY DEF ChannelInv, TypeOK, ReceiverInv
<1>3. taken >= 1
  BY <1>1, <1>2, SecureChannelAssumption
<1>4. taken - 1 \in 0..Len(pkts)
  BY <1>2, <1>3
<1>5. End(taken - 1)' = End(taken - 1)
  BY <1>4
<1> QED
  BY <1>1, <1>5

(* The packet whose counter wraps is taken when all before it is read.     *)
LEMMA OverflowBody ==
    ASSUME ChannelInv, RecvBody
    PROVE  OverflowLosesOnlyLast'
<1> SUFFICES ASSUME rx' = "overflow"
             PROVE  2 * taken' = SeqModulus /\ Len(received') = End(taken - 1)'
  BY DEF OverflowLosesOnlyLast
<1>1. /\ rx = "body" /\ Arrived(3) /\ UNCHANGED txVars /\ received' = received
  BY DEF RecvBody
<1>2. taken \in Nat /\ 2 * taken < SeqModulus
  BY <1>1, IncomingOK
<1>3. seqI = 2 * taken + 1 /\ decPos = End(taken)
  BY <1>1, <1>2 DEF ChannelInv, ReceiverInv, Ended, Rejections
<1>4. taken' = taken + 1 /\ Inc(seqI) = 0
  <2>1. SpaceCraftVerdict(Incoming, seqI) \in {"badHmac", "badSeq", "copy"}
    BY DEF SpaceCraftVerdict
  <2> QED
    BY <2>1 DEF RecvBody, Refill
<1>5. 2 * (taken + 1) = SeqModulus
  BY <1>2, <1>3, <1>4, LastStamp
<1>6. Len(received) = End(taken)
  BY <1>1, <1>3 DEF ChannelInv, StaticsInv, TypeOK
<1>7. taken' - 1 = taken /\ pkts' = pkts
  BY <1>1, <1>2, <1>4 DEF txVars
<1>8. End(taken - 1)' = End(taken)
  BY <1>7 DEF End
<1> QED
  BY <1>1, <1>4, <1>5, <1>6, <1>8

(* The end of the sequence numbers costs the last payload and no more.     *)
THEOREM OverflowCost == Spec => []OverflowLosesOnlyLast
<1>1. Init => OverflowLosesOnlyLast
  BY DEF Init, OverflowLosesOnlyLast
<1>2. ChannelInv /\ OverflowLosesOnlyLast /\ [Next]_vars => OverflowLosesOnlyLast'
  <2> SUFFICES ASSUME ChannelInv, OverflowLosesOnlyLast, [Next]_vars
               PROVE  OverflowLosesOnlyLast'
    OBVIOUS
  <2>1. CASE \E m \in Payloads : Send(m)
    <3>1. PICK m \in Payloads : Send(m)
      BY <2>1
    <3>2. UNCHANGED <<taken, received, rx>>
      BY <3>1 DEF Send, rxVars
    <3>3. \A i \in 0..Len(pkts) : End(i)' = End(i)
      BY <3>1, SendKeepsEnds
    <3> QED
      BY <3>2, <3>3, OverflowStays
  <2>2. CASE Disconnect \/ Done \/ UNCHANGED vars
    <3>1. UNCHANGED <<taken, received, rx, pkts>>
      BY <2>2 DEF Disconnect, Done, vars, txVars, rxVars
    <3>2. \A i \in 0..Len(pkts) : End(i)' = End(i)
      BY <3>1 DEF End
    <3> QED
      BY <3>1, <3>2, OverflowStays
  <2>3. CASE (\E n \in 1..BufferSize : Call(n)) \/ RecvRocket \/ Copy \/ RecvFails
    <3>1. rx' # "overflow"
      BY <2>3 DEF Call, RecvRocket, RocketVerdict, Copy, RecvFails
    <3> QED
      BY <3>1 DEF OverflowLosesOnlyLast
  <2> QED
    BY <2>1, <2>2, <2>3, OverflowBody DEF Next
<1> QED
  BY <1>1, <1>2, ChannelInvariant, PTL DEF Spec

-----------------------------------------------------------------------------
(* The channel implements the abstract stream of bytes.                    *)

(* A receiver that runs on, and a stream that is left alone.               *)
LEMMA UnseenByReader ==
    ASSUME UNCHANGED <<sent, received, conn, tx>>, rx \notin Ended, rx' \notin Ended
    PROVE  UNCHANGED BS!vars
BY DEF BS!vars

(* Crypto::recv throws: the stream has broken.                             *)
LEMMA ReaderStops ==
    ASSUME UNCHANGED <<sent, received, conn, tx>>, rx \notin Ended, rx' \in Ended,
           conn = "down" \/ tx # "open", conn \in {"up", "down"}
    PROVE  BS!Stop
BY DEF BS!Stop

LEMMA SendStep ==
    ASSUME ChannelInv, NEW m \in Payloads, Send(m)
    PROVE  BS!Write
<1>1. /\ tx = "open" /\ sent' = sent \o m /\ UNCHANGED <<conn, rx, received>>
  BY DEF Send, rxVars
<1> QED
  BY <1>1 DEF BS!Write

LEMMA DisconnectStep ==
    ASSUME Disconnect
    PROVE  BS!Break \/ UNCHANGED BS!vars
<1>1. conn = "up" /\ conn' = "down" /\ UNCHANGED <<sent, received, tx, rx>>
  BY DEF Disconnect, txVars, rxVars
<1>2. CASE tx = "open"
  BY <1>1, <1>2 DEF BS!Break
<1>3. CASE tx # "open"
  BY <1>1, <1>3 DEF BS!vars
<1> QED
  BY <1>2, <1>3

LEMMA RocketStep ==
    ASSUME ChannelInv, RecvRocket
    PROVE  UNCHANGED BS!vars
<1>1. rx = "rocket" /\ UNCHANGED <<sent, received, conn, tx>>
  BY DEF RecvRocket, txVars, netVars
<1>2. rx' = "body"
  <2>1. rx' \in Rejections \union {"body"}
    BY DEF RecvRocket, RocketVerdict, Rejections
  <2> QED
    BY <2>1, RecvRocketInv DEF ChannelInv, NoRejection
<1> QED
  BY <1>1, <1>2, UnseenByReader DEF Ended, Rejections

(* The receiver's counter wraps only when the sender's has.                *)
LEMMA BodyStep ==
    ASSUME ChannelInv, RecvBody
    PROVE  BS!Stop \/ UNCHANGED BS!vars
<1>1. rx = "body" /\ UNCHANGED <<sent, received, conn, tx, pkts, reach>>
  BY DEF RecvBody, txVars, netVars
<1>2. rx' \in {"copy", "overflow"}
  <2>1. rx' \in {"copy", "overflow"} \union Rejections
    BY DEF RecvBody, Refill, SpaceCraftVerdict, Rejections
  <2> QED
    BY <2>1, RecvBodyInv DEF ChannelInv, NoRejection
<1>3. CASE rx' = "copy"
  BY <1>1, <1>3, UnseenByReader DEF Ended, Rejections
<1>4. CASE rx' = "overflow"
  <2>1. 2 * taken' = SeqModulus /\ taken' \in Nat
    BY <1>4, OverflowBody, RecvBodyInv DEF OverflowLosesOnlyLast, ChannelInv, TypeOK
  <2>2. taken' = taken + 1
    BY <1>4 DEF RecvBody, Refill, SpaceCraftVerdict
  <2>3. ~(2 * Len(pkts) < SeqModulus)
    <3>1. Arrived(3)
      BY DEF RecvBody
    <3>2. taken \in Nat /\ taken + 1 <= Len(pkts) /\ Len(pkts) \in Nat
      BY <1>1, <3>1, IncomingOK DEF ChannelInv, TypeOK
    <3>3. 2 * (taken + 1) = SeqModulus
      BY <2>1, <2>2
    <3> QED
      BY <3>2, <3>3
  <2>4. tx # "open"
    BY <2>3 DEF ChannelInv, SenderInv
  <2> QED
    BY <1>1, <1>4, <2>4, ReaderStops DEF Ended, Rejections, ChannelInv, TypeOK
<1> QED
  BY <1>2, <1>3, <1>4

(* A sequence that agrees with the first bytes of another is its prefix.   *)
LEMMA PrefixIsSubSeq ==
    ASSUME NEW S, NEW T, NEW s \in Seq(S), NEW t \in Seq(T), Len(t) <= Len(s),
           \A i \in 1..Len(t) : t[i] = s[i]
    PROVE  t = SubSeq(s, 1, Len(t))
<1>1. Len(t) \in Nat /\ Len(s) \in Nat
  BY LenProperties
<1>2. /\ SubSeq(s, 1, Len(t)) \in Seq(S) /\ Len(SubSeq(s, 1, Len(t))) = Len(t)
      /\ \A i \in 1..Len(t) : SubSeq(s, 1, Len(t))[i] = s[i]
  BY <1>1
<1> QED
  BY <1>2, SeqEqual

LEMMA CopyStep ==
    ASSUME ChannelInv, Copy
    PROVE  BS!Read \/ UNCHANGED BS!vars
<1>1. rx = "copy" /\ rx' = "idle" /\ UNCHANGED <<sent, conn, tx>>
  BY DEF Copy, txVars, netVars
<1>2. /\ received' \in Seq(Byte \union {Garbled}) /\ sent' \in Seq(Byte)
      /\ received \in Seq(Byte \union {Garbled})
      /\ Len(received') <= Len(sent') /\ \A i \in 1..Len(received') : received'[i] = sent'[i]
      /\ Len(received) <= Len(sent) /\ \A i \in 1..Len(received) : received[i] = sent[i]
  BY CopyInv DEF ChannelInv, TypeOK, ReceivedIsPrefix
<1>3. received' = SubSeq(sent, 1, Len(received')) /\ received = SubSeq(sent, 1, Len(received))
  BY <1>1, <1>2, PrefixIsSubSeq
<1>4. Len(received') \in Nat /\ Len(received) \in Nat /\ Len(received') >= Len(received)
  <2>1. /\ Len(received) + remaining = decPos /\ Len(received') + remaining' = decPos'
        /\ decPos' = decPos /\ decPos \in Nat
        /\ remaining \in Nat /\ remaining' \in Nat
    BY CopyInv, SecureChannelAssumption DEF ChannelInv, TypeOK, StaticsInv, Copy
  <2>2. remaining' <= remaining
    <3>1. want \in Nat
      BY SecureChannelAssumption DEF ChannelInv, TypeOK
    <3> QED
      BY <2>1, <3>1 DEF Copy
  <2>3. Len(received') \in Nat /\ Len(received) \in Nat
    BY <1>2, LenProperties
  <2> QED
    BY <2>1, <2>2, <2>3
<1>5. CASE Len(received') = Len(received)
  <2>1. received' = received
    BY <1>3, <1>5
  <2> QED
    BY <1>1, <2>1, UnseenByReader DEF Ended, Rejections
<1>6. CASE Len(received') # Len(received)
  <2>1. Len(received') \in Len(received) + 1 .. Len(sent)
    BY <1>1, <1>2, <1>4, <1>6, LenProperties
  <2> QED
    BY <1>1, <1>3, <2>1 DEF BS!Read, Ended, Rejections
<1> QED
  BY <1>5, <1>6

(* A receiver that starves has lost its connection, or is sent a packet    *)
(* without a payload, after which the sender has given up.                 *)
LEMMA FailStep ==
    ASSUME ChannelInv, RecvFails
    PROVE  BS!Stop
<1>1. /\ rx \in {"rocket", "body"} /\ rx' = "failed"
      /\ UNCHANGED <<sent, received, conn, tx>>
  BY DEF RecvFails, Starved, txVars, netVars
<1>2. conn = "down" \/ tx # "open"
  <2>1. CASE conn = "down"
    BY <2>1
  <2>2. CASE rx = "body" /\ Arrived(2) /\ Incoming.size = 0
    <3>1. taken \in Nat /\ reach \in Nat /\ Len(pkts) \in Nat
      BY DEF ChannelInv, TypeOK
    <3>2. 3 * taken + 1 <= 3 * Len(pkts)
      BY <2>2, <3>1 DEF Arrived, ChannelInv, ReceiverInv
    <3>3. taken + 1 \in 1..Len(pkts)
      BY <3>1, <3>2
    <3> QED
      BY <2>2, <3>3 DEF Incoming, ChannelInv, SenderInv
  <2> QED
    BY <2>1, <2>2 DEF RecvFails, Starved
<1> QED
  BY <1>1, <1>2, ReaderStops DEF Ended, Rejections, ChannelInv, TypeOK

(* Crypto::send and Crypto::recv are a stream of bytes: what is read is    *)
(* what was written, in order, and a reader stops only when the stream has *)
(* broken or its sender has given up.                                      *)
THEOREM ByteStreamSafety == Spec => BS!Safety
<1>1. Init => BS!Init
  BY DEF Init, BS!Init, Ended, Rejections
<1>2. ChannelInv /\ [Next]_vars => [BS!Next]_(BS!vars)
  <2> SUFFICES ASSUME ChannelInv, [Next]_vars
               PROVE  [BS!Next]_(BS!vars)
    OBVIOUS
  <2>1. CASE \E n \in 1..BufferSize : Call(n)
    BY <2>1, UnseenByReader DEF Call, Ended, Rejections, txVars, netVars
  <2>2. CASE Done \/ UNCHANGED vars
    BY <2>2 DEF Done, vars, BS!vars
  <2> QED
    BY <2>1, <2>2, SendStep, DisconnectStep, RocketStep, BodyStep, CopyStep, FailStep
       DEF Next, BS!Next
<1> QED
  BY <1>1, <1>2, ChannelInvariant, PTL DEF Spec, BS!Safety
=============================================================================
