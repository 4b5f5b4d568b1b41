------------------------- MODULE SecureChannelProofs -------------------------
(***************************************************************************)
(* Proofs about SecureChannel for every set of bytes, buffer size and      *)
(* sequence number modulus: ChannelInv is inductive, and the safety        *)
(* properties follow from it.                                              *)
(***************************************************************************)
EXTENDS SecureChannel, SequenceTheorems, TLAPS

-----------------------------------------------------------------------------
(* Lemmas about the operators of the model.                                *)

(* A payload is a string of at most BufferSize bytes.                      *)
LEMMA PayloadType ==
    ASSUME NEW m \in Payloads
    PROVE  /\ m \in Seq(Byte)
           /\ Len(m) \in 0..BufferSize
<1>1. PICK n \in 0..BufferSize : m \in [1..n -> Byte]
  BY DEF Payloads
<1>2. n \in Nat /\ n <= BufferSize
  BY <1>1, SecureChannelAssumption
<1>3. m \in Seq(Byte)
  BY <1>1, <1>2, SeqDef
<1>4. Len(m) = n
  BY <1>1, <1>2, <1>3, LenProperties
<1> QED
  BY <1>2, <1>3, <1>4, SecureChannelAssumption

(* The counter stays below the modulus, and wraps only at its last value.  *)
LEMMA IncType ==
    ASSUME NEW x \in 0..SeqModulus-1
    PROVE  /\ Inc(x) \in 0..SeqModulus-1
           /\ x + 1 < SeqModulus => Inc(x) = x + 1
           /\ x + 1 = SeqModulus => Inc(x) = 0
BY SecureChannelAssumption DEF Inc

(* The modulus is even, so a counter that is even and below the modulus    *)
(* stays below it when it is incremented once.                             *)
LEMMA EvenRoom ==
    ASSUME NEW n \in Nat, 2 * n < SeqModulus
    PROVE  /\ 2 * n + 1 < SeqModulus
           /\ 2 * n + 2 <= SeqModulus
<1>1. PICK k \in 1..SeqModulus : SeqModulus = 2 * k
  BY SecureChannelAssumption
<1>2. n < k
  BY <1>1, SecureChannelAssumption
<1> QED
  BY <1>1, <1>2, SecureChannelAssumption

(* What the next packet is stamped with, and what the sender's counter is  *)
(* after it.                                                               *)
LEMMA Stamps ==
    ASSUME NEW n \in Nat, 2 * n < SeqModulus
    PROVE  /\ 2 * n \in 0..SeqModulus-1
           /\ Inc(2 * n) = 2 * n + 1
           /\ 2 * n + 1 \in 0..SeqModulus-1
           /\ Inc(2 * n + 1) = IF 2 * n + 2 = SeqModulus THEN 0 ELSE 2 * n + 2
           /\ Inc(2 * n + 1) \in 0..SeqModulus-1
           /\ 2 * n + 2 <= SeqModulus
BY EvenRoom, SecureChannelAssumption DEF Inc

(* The packet built from a payload has the type of packets.                *)
LEMMA PacketOK ==
    ASSUME NEW m \in Payloads, NEW seq \in 0..SeqModulus-1, NEW pos \in Nat
    PROVE  Packet(m, seq, pos) \in PacketType
<1>1. Len(m) \in Nat
  BY PayloadType
<1>2. Inc(seq) \in 0..SeqModulus-1
  BY IncType
<1> QED
  BY <1>1, <1>2 DEF Packet, PacketType, RocketMac, SpaceCraftMac

(* The fields of a packet.                                                 *)
LEMMA PacketFields ==
    ASSUME NEW p \in PacketType
    PROVE  /\ p.size \in Nat /\ p.pos \in Nat /\ p.data \in Payloads
           /\ p.data \in Seq(Byte) /\ Len(p.data) \in 0..BufferSize
<1>1. p.size \in Nat /\ p.pos \in Nat /\ p.data \in Payloads
  BY DEF PacketType
<1> QED
  BY <1>1, PayloadType

-----------------------------------------------------------------------------
(* The initial state satisfies the invariant.                              *)
LEMMA InitInv == Init => ChannelInv
<1> SUFFICES ASSUME Init PROVE ChannelInv
  OBVIOUS
<1> USE SecureChannelAssumption DEF Init
<1>0. SeqModulus >= 2
  OBVIOUS
<1>1. TypeOK
  BY <1>0 DEF TypeOK, Ended, Rejections
<1>2. SenderInv
  BY <1>0 DEF SenderInv, End
<1>3. ReceiverInv
  BY DEF ReceiverInv, End, Ended, Rejections
<1>4. StaticsInv /\ NoRejection /\ ReceivedIsPrefix
  BY DEF StaticsInv, NoRejection, ReceivedIsPrefix, Rejections
<1> QED
  BY <1>1, <1>2, <1>3, <1>4 DEF ChannelInv

-----------------------------------------------------------------------------
(* Every step preserves the invariant: one lemma per action.               *)

(* Crypto::send puts one well formed packet at the end of the log and      *)
(* leaves what is there alone.                                             *)
LEMMA SendInv ==
    ASSUME ChannelInv, NEW m \in Payloads, Send(m)
    PROVE  ChannelInv'
<1> USE DEF ChannelInv
<1> DEFINE q == Packet(m, seqO, Len(sent))
<1>0. PICK n \in Nat : n = Len(pkts)
  BY DEF TypeOK
<1>1. /\ n \in Nat /\ 2 * n < SeqModulus /\ seqO = 2 * n /\ tx = "open"
      /\ Len(sent) = End(n) /\ Len(sent) \in Nat
  BY <1>0 DEF SenderInv, Send, TypeOK
<1>2. /\ Inc(seqO) = 2 * n + 1
      /\ Inc(Inc(seqO)) = IF 2 * n + 2 = SeqModulus THEN 0 ELSE 2 * n + 2
      /\ Inc(Inc(seqO)) \in 0..SeqModulus-1
      /\ 2 * n + 2 <= SeqModulus
  BY <1>1, Stamps
<1>3. q \in PacketType
  BY <1>1, PacketOK DEF TypeOK
<1>4. m \in Seq(Byte) /\ Len(m) \in Nat /\ Len(m) <= BufferSize
  BY PayloadType, SecureChannelAssumption
<1>5. /\ pkts' \in Seq(PacketType) /\ Len(pkts') = n + 1
      /\ \A i \in 1..n : pkts'[i] = pkts[i]
      /\ pkts'[n + 1] = q
  BY <1>0, <1>3 DEF Send, TypeOK
<1>6. /\ sent' \in Seq(Byte) /\ Len(sent') = Len(sent) + Len(m)
      /\ \A i \in 1..Len(sent) : sent'[i] = sent[i]
      /\ \A j \in 1..Len(m) : sent'[Len(sent) + j] = m[j]
  BY <1>4 DEF Send, TypeOK
<1>7. \A i \in 0..n : End(i)' = End(i)
  BY <1>5, <1>1 DEF End
<1>8. End(n + 1)' = Len(sent')
  BY <1>5, <1>6, <1>1, <1>4 DEF End, Packet
<1>9. SendOutcomes(m) \subseteq {"open", "failed", "overflow"}
  BY DEF SendOutcomes
<1>10. Units(m) \in {2, 3}
  BY DEF Units
<1>11. UNCHANGED <<conn, seqI, decPos, taken, rx, want, remaining, index, payload, received>>
  BY DEF Send, rxVars
<1>R. reach \in Nat /\ reach' \in Nat /\ reach <= reach' /\ reach' <= reach + 3
  <2>1. reach' = IF conn = "up" THEN reach + Units(m) ELSE reach
    BY DEF Send
  <2>2. reach \in Nat
    BY DEF TypeOK
  <2> QED
    BY <1>10, <2>1, <2>2
<1>T. Len(received) \in Nat /\ remaining \in Nat
  BY SecureChannelAssumption DEF TypeOK
<1>12. TypeOK'
  <2>1. seqO' \in 0..SeqModulus-1 /\ tx' \in {"open", "failed", "overflow"}
    BY <1>2, <1>9 DEF Send
  <2> QED
    BY <2>1, <1>R, <1>5, <1>6, <1>11 DEF TypeOK
<1>13. \A i \in 1..n+1 : WellFormed(i)'
  <2> SUFFICES ASSUME NEW i \in 1..n+1 PROVE WellFormed(i)'
    OBVIOUS
  <2>1. CASE i \in 1..n
    <3>1. WellFormed(i)
      BY <2>1, <1>0 DEF SenderInv
    <3>2. pkts'[i] = pkts[i] /\ End(i - 1)' = End(i - 1)
      BY <2>1, <1>5, <1>7, <1>1
    <3>3. pkts[i] \in PacketType
      BY <2>1, <1>0 DEF TypeOK
    <3>4. pkts[i].pos \in Nat /\ pkts[i].size \in Nat
      BY <3>3, PacketFields
    <3>5. pkts[i].pos + pkts[i].size <= Len(sent)
      BY <3>1 DEF WellFormed
    <3>6. \A j \in 1..pkts[i].size : pkts[i].data[j] = sent'[pkts[i].pos + j]
      <4> SUFFICES ASSUME NEW j \in 1..pkts[i].size
                   PROVE  pkts[i].data[j] = sent'[pkts[i].pos + j]
        OBVIOUS
      <4>1. pkts[i].data[j] = sent[pkts[i].pos + j]
        BY <3>1 DEF WellFormed
      <4>2. pkts[i].pos + j \in 1..Len(sent)
        BY <3>4, <3>5, <1>1
      <4> QED
        BY <4>1, <4>2, <1>6
    <3>7. pkts[i].pos + pkts[i].size <= Len(sent')
      BY <3>4, <3>5, <1>1, <1>4, <1>6
    <3> QED
      BY <3>1, <3>2, <3>6, <3>7 DEF WellFormed
  <2>2. CASE i = n + 1
    <3>1. pkts'[i] = q /\ End(i - 1)' = Len(sent)
      BY <2>2, <1>5, <1>7, <1>1
    <3> QED
      BY <3>1, <2>2, <1>1, <1>2, <1>4, <1>6 DEF WellFormed, Packet
  <2> QED
    BY <2>1, <2>2, <1>1
<1>14. tx' = "open" => Inc(Inc(seqO)) # 0
  BY DEF Send, SendOutcomes
<1>15. SenderInv'
  <2>1. 2 * Len(pkts') <= SeqModulus
    BY <1>1, <1>2, <1>5
  <2>2. tx' = "open" => seqO' = 2 * Len(pkts') /\ 2 * Len(pkts') < SeqModulus
    <3>1. seqO' = Inc(Inc(seqO))
      BY DEF Send
    <3>2. ASSUME tx' = "open"
          PROVE  seqO' = 2 * n + 2 /\ 2 * n + 2 < SeqModulus
      BY <1>1, <1>2, <1>14, <3>1, <3>2, SecureChannelAssumption
    <3> QED
      BY <3>2, <1>1, <1>5
  <2>3. Len(sent') = End(Len(pkts))'
    BY <1>5, <1>8
  <2>4. tx' = "open" => \A i \in 1..Len(pkts') : pkts'[i].size # 0
    <3> SUFFICES ASSUME tx' = "open", NEW i \in 1..n+1
                 PROVE  pkts'[i].size # 0
      BY <1>5
    <3>1. m # <<>>
      BY DEF Send, SendOutcomes
    <3>2. CASE i \in 1..n
      BY <3>2, <1>0, <1>1, <1>5 DEF SenderInv
    <3>3. CASE i = n + 1
      <4>1. Len(m) # 0
        BY <3>1, <1>4, EmptySeq
      <4> QED
        BY <3>3, <4>1, <1>5 DEF Packet
    <3> QED
      BY <3>2, <3>3, <1>1
  <2> QED
    BY <2>1, <2>2, <2>3, <2>4, <1>13, <1>5 DEF SenderInv
<1>16. ReceiverInv'
  <2>1. taken \in 0..n
    BY <1>0, <1>1 DEF ReceiverInv, TypeOK
  <2>2. End(taken)' = End(taken)
    BY <2>1, <1>7, <1>11
  <2>3. reach <= 3 * n
    BY <1>0 DEF ReceiverInv
  <2>4. reach' <= 3 * Len(pkts')
    BY <1>R, <1>1, <1>5, <2>3
  <2>5. 3 * taken + (IF rx = "body" THEN 1 ELSE 0) <= reach'
    <3>1. 3 * taken + (IF rx = "body" THEN 1 ELSE 0) <= reach
      BY DEF ReceiverInv
    <3> QED
      BY <1>R, <1>1, <2>1, <3>1
  <2> QED
    BY <2>2, <2>4, <2>5, <1>11 DEF ReceiverInv
<1>17. StaticsInv'
  <2>1. Len(received) + remaining <= Len(sent)
    <3>1. taken \in 0..n
      BY <1>0, <1>1 DEF ReceiverInv, TypeOK
    <3>2. End(taken) <= Len(sent)
      BY <3>1, <1>0, <1>1 DEF SenderInv, WellFormed, End
    <3> QED
      BY <3>2 DEF StaticsInv, ReceiverInv
  <2> QED
    BY <2>1, <1>1, <1>6, <1>11, <1>T DEF StaticsInv
<1>18. NoRejection' /\ ReceivedIsPrefix'
  BY <1>1, <1>6, <1>11, <1>4, <1>T DEF NoRejection, ReceivedIsPrefix
<1> QED
  BY <1>12, <1>15, <1>16, <1>17, <1>18

(* Sending leaves the packets that the receiver has taken where they are.  *)
LEMMA SendKeepsEnds ==
    ASSUME ChannelInv, NEW m \in Payloads, Send(m)
    PROVE  \A i \in 0..Len(pkts) : End(i)' = End(i)
<1>1. pkts \in Seq(PacketType) /\ Len(sent) \in Nat /\ seqO \in 0..SeqModulus-1
  BY DEF ChannelInv, TypeOK
<1>2. Packet(m, seqO, Len(sent)) \in PacketType
  BY <1>1, PacketOK
<1>3. \A i \in 1..Len(pkts) : pkts'[i] = pkts[i]
  BY <1>1, <1>2 DEF Send
<1> QED
  BY <1>1, <1>3 DEF End

(* What holds of the sender's side is untouched by the steps of the others.*)
LEMMA SenderUntouched ==
    ASSUME SenderInv, UNCHANGED txVars
    PROVE  /\ SenderInv'
           /\ \A n \in Nat : End(n)' = End(n)
BY DEF SenderInv, WellFormed, End, txVars

(* A connection that goes down loses no unit the receiver has read.        *)
LEMMA DisconnectInv ==
    ASSUME ChannelInv, Disconnect
    PROVE  ChannelInv'
<1>1. /\ TypeOK /\ SenderInv /\ ReceiverInv /\ StaticsInv
      /\ NoRejection /\ ReceivedIsPrefix
  BY DEF ChannelInv
<1>2. UNCHANGED txVars /\ UNCHANGED rxVars
  BY DEF Disconnect
<1>3. /\ reach' \in Nat /\ reach' <= reach
      /\ 3 * taken + (IF rx = "body" THEN 1 ELSE 0) <= reach'
      /\ conn' \in {"up", "down"}
  BY <1>1 DEF Disconnect, TypeOK
<1>4. SenderInv' /\ End(taken)' = End(taken)
  BY <1>1, <1>2, SenderUntouched DEF TypeOK, rxVars
<1>5. TypeOK'
  BY <1>1, <1>2, <1>3 DEF TypeOK, txVars, rxVars
<1>6. ReceiverInv'
  <2>1. reach' <= 3 * Len(pkts')
    BY <1>1, <1>2, <1>3 DEF ReceiverInv, TypeOK, txVars
  <2> QED
    BY <2>1, <1>1, <1>2, <1>3, <1>4 DEF ReceiverInv, rxVars
<1>7. StaticsInv' /\ NoRejection' /\ ReceivedIsPrefix'
  BY <1>1, <1>2 DEF StaticsInv, NoRejection, ReceivedIsPrefix, txVars, rxVars
<1> QED
  BY <1>4, <1>5, <1>6, <1>7 DEF ChannelInv

(* Entering Crypto::recv only chooses between the statics and TCP.         *)
LEMMA CallInv ==
    ASSUME ChannelInv, NEW n \in 1..BufferSize, Call(n)
    PROVE  ChannelInv'
<1>1. /\ TypeOK /\ SenderInv /\ ReceiverInv /\ StaticsInv
      /\ NoRejection /\ ReceivedIsPrefix
  BY DEF ChannelInv
<1>2. /\ UNCHANGED txVars /\ UNCHANGED netVars
      /\ UNCHANGED <<seqI, decPos, taken, remaining, index, payload, received>>
      /\ rx = "idle" /\ want' = n
      /\ rx' \in {"rocket", "copy"} /\ (rx' = "rocket" => remaining = 0)
  BY DEF Call
<1>3. SenderInv' /\ End(taken)' = End(taken)
  BY <1>1, <1>2, SenderUntouched DEF TypeOK
<1>4. TypeOK'
  BY <1>1, <1>2 DEF TypeOK, txVars, netVars
<1>5. ReceiverInv'
  BY <1>1, <1>2, <1>3 DEF ReceiverInv, Ended, Rejections, txVars, netVars
<1>6. StaticsInv' /\ NoRejection' /\ ReceivedIsPrefix'
  BY <1>1, <1>2 DEF StaticsInv, NoRejection, ReceivedIsPrefix, Rejections, txVars
<1> QED
  BY <1>3, <1>4, <1>5, <1>6 DEF ChannelInv

(* The packet whose Rocket has arrived is the one the receiver expects.    *)
LEMMA IncomingOK ==
    ASSUME ChannelInv, NEW u \in {1, 3}, Arrived(u), rx \in {"rocket", "body"}
    PROVE  /\ taken \in Nat /\ taken + 1 \in 1..Len(pkts)
           /\ Incoming \in PacketType
           /\ WellFormed(taken + 1)
           /\ 2 * taken < SeqModulus
<1>1. TypeOK /\ SenderInv /\ ReceiverInv
  BY DEF ChannelInv
<1>2. taken \in Nat /\ reach \in Nat /\ Len(pkts) \in Nat
  BY <1>1 DEF TypeOK
<1>3. 3 * taken + 1 <= 3 * Len(pkts)
  BY <1>1, <1>2 DEF Arrived, ReceiverInv
<1>4. taken + 1 \in 1..Len(pkts)
  BY <1>2, <1>3
<1>5. Incoming \in PacketType
  BY <1>1, <1>4 DEF TypeOK, Incoming
<1> QED
  BY <1>1, <1>2, <1>4, <1>5, SecureChannelAssumption DEF SenderInv

(* The Rocket that arrives is verified: it is authentic, its length fits   *)
(* the buffer and its stamp is the receiver's counter.                     *)
LEMMA RecvRocketInv ==
    ASSUME ChannelInv, RecvRocket
    PROVE  ChannelInv'
<1>1. /\ TypeOK /\ SenderInv /\ ReceiverInv /\ StaticsInv
      /\ NoRejection /\ ReceivedIsPrefix
  BY DEF ChannelInv
<1>2. /\ UNCHANGED txVars /\ UNCHANGED netVars
      /\ UNCHANGED <<decPos, taken, want, remaining, index, payload, received>>
      /\ rx = "rocket" /\ Arrived(1)
      /\ rx' = RocketVerdict(Incoming, seqI) /\ seqI' = Inc(seqI)
  BY DEF RecvRocket
<1>3. /\ taken \in Nat /\ Incoming \in PacketType /\ WellFormed(taken + 1)
      /\ 2 * taken < SeqModulus
  BY <1>2, IncomingOK
<1>4. seqI = 2 * taken
  BY <1>1, <1>2, <1>3 DEF ReceiverInv, Ended, Rejections
<1>5. /\ Incoming.rseq = seqI
      /\ Incoming.rmac = RocketMac(Incoming.size, Incoming.rseq)
      /\ Incoming.size = Len(Incoming.data)
  BY <1>3, <1>4 DEF WellFormed, Incoming
<1>6. Incoming.size <= BufferSize /\ Incoming.size \in Nat
  BY <1>3, <1>5, PacketFields, SecureChannelAssumption
<1>7. rx' = "body"
  BY <1>2, <1>5, <1>6, SecureChannelAssumption DEF RocketVerdict
<1>8. seqI' = 2 * taken + 1 /\ seqI' \in 0..SeqModulus-1
  BY <1>2, <1>3, <1>4, Stamps
<1>9. SenderInv' /\ End(taken)' = End(taken)
  BY <1>1, <1>2, <1>3, SenderUntouched
<1>10. TypeOK'
  BY <1>1, <1>2, <1>7, <1>8 DEF TypeOK, txVars, netVars
<1>11. ReceiverInv'
  <2>1. 3 * taken + 1 <= reach
    BY <1>2 DEF Arrived
  <2> QED
    BY <1>1, <1>2, <1>7, <1>8, <1>9, <2>1 DEF ReceiverInv, txVars, netVars
<1>12. StaticsInv' /\ NoRejection' /\ ReceivedIsPrefix'
  BY <1>1, <1>2, <1>7 DEF StaticsInv, NoRejection, ReceivedIsPrefix, Rejections, txVars
<1> QED
  BY <1>9, <1>10, <1>11, <1>12 DEF ChannelInv

(* The SpaceCraft and the ciphertext are authentic, carry the receiver's   *)
(* counter and begin at its cipher position: the statics are refilled with *)
(* the next bytes of the stream.                                           *)
LEMMA RecvBodyInv ==
    ASSUME ChannelInv, RecvBody
    PROVE  ChannelInv'
<1>1. /\ TypeOK /\ SenderInv /\ ReceiverInv /\ StaticsInv
      /\ NoRejection /\ ReceivedIsPrefix
  BY DEF ChannelInv
<1>2. /\ UNCHANGED txVars /\ UNCHANGED netVars /\ UNCHANGED <<want, received>>
      /\ rx = "body" /\ Arrived(3) /\ seqI' = Inc(seqI)
  BY DEF RecvBody
<1>3. /\ taken \in Nat /\ taken + 1 \in 1..Len(pkts)
      /\ Incoming \in PacketType /\ WellFormed(taken + 1)
      /\ 2 * taken < SeqModulus
  BY <1>2, IncomingOK
<1>4. seqI = 2 * taken + 1
  BY <1>1, <1>2, <1>3 DEF ReceiverInv, Ended, Rejections
<1>5. /\ Incoming.sseq = seqI
      /\ Incoming.smac = SpaceCraftMac(Incoming.sseq, Incoming.pos, Incoming.data)
      /\ Incoming.size = Len(Incoming.data)
      /\ Incoming.pos = decPos
      /\ Incoming.pos + Incoming.size <= Len(sent)
      /\ \A j \in 1..Incoming.size : Incoming.data[j] = sent[Incoming.pos + j]
  <2>1. 2 * (taken + 1) - 1 = seqI /\ (taken + 1) - 1 = taken
    BY <1>3, <1>4
  <2>2. decPos = End(taken)
    BY <1>1 DEF ReceiverInv
  <2> QED
    BY <1>3, <2>1, <2>2 DEF WellFormed, Incoming
<1>6. Refill(Incoming)
  BY <1>5 DEF RecvBody, SpaceCraftVerdict
<1>7. /\ Incoming.data \in Seq(Byte) /\ Incoming.size \in 0..BufferSize
      /\ Incoming.pos \in Nat
  BY <1>3, <1>5, PacketFields
<1>8. /\ taken' = taken + 1 /\ payload' = Incoming.data
      /\ decPos' = decPos + Incoming.size
      /\ remaining' = Incoming.size /\ index' = 0
      /\ rx' \in {"overflow", "copy"}
      /\ rx' = "copy" => Inc(seqI) # 0
  BY <1>5, <1>6 DEF Refill, Decrypt
<1>9. /\ seqI' \in 0..SeqModulus-1
      /\ rx' = "copy" => seqI' = 2 * taken'
  BY <1>2, <1>3, <1>4, <1>8, Stamps
<1>10. /\ SenderInv'
       /\ \A k \in Nat : End(k)' = End(k)
  BY <1>1, <1>2, SenderUntouched
<1>11. TypeOK'
  <2>1. payload' \in Seq(Byte \union {Garbled})
    BY <1>7, <1>8, SeqMonotonic
  <2>2. decPos' \in Nat /\ taken' \in Nat
    BY <1>1, <1>3, <1>7, <1>8, SecureChannelAssumption DEF TypeOK
  <2>3. remaining' \in 0..BufferSize /\ index' \in 0..BufferSize
    BY <1>7, <1>8, SecureChannelAssumption
  <2> QED
    BY <1>1, <1>2, <1>8, <1>9, <2>1, <2>2, <2>3 DEF TypeOK, Ended, txVars, netVars
<1>12. ReceiverInv'
  <2>1. 3 * taken' <= reach'
    BY <1>2, <1>3, <1>8 DEF Arrived, netVars
  <2>2. decPos' = End(taken)'
    BY <1>2, <1>3, <1>5, <1>8 DEF End, Incoming, txVars
  <2>3. reach' <= 3 * Len(pkts')
    BY <1>1, <1>2 DEF ReceiverInv, txVars, netVars
  <2> QED
    BY <1>1, <1>3, <1>8, <1>9, <2>1, <2>2, <2>3 DEF ReceiverInv, Ended
<1>13. StaticsInv'
  <2>1. Len(received) = decPos
    BY <1>1, <1>2 DEF StaticsInv, TypeOK
  <2>2. \A j \in 1..remaining' : payload'[index' + j] = sent'[Len(received') + j]
    BY <1>2, <1>5, <1>7, <1>8, <2>1 DEF txVars
  <2> QED
    BY <1>1, <1>2, <1>5, <1>7, <1>8, <2>1, <2>2, SecureChannelAssumption DEF StaticsInv
<1>14. NoRejection' /\ ReceivedIsPrefix'
  BY <1>1, <1>2, <1>8 DEF NoRejection, ReceivedIsPrefix, Rejections, txVars
<1> QED
  BY <1>10, <1>11, <1>12, <1>13, <1>14 DEF ChannelInv

(* Copying moves bytes from the statics to the application and loses none. *)
LEMMA CopyInv ==
    ASSUME ChannelInv, Copy
    PROVE  ChannelInv'
<1>1. /\ TypeOK /\ SenderInv /\ ReceiverInv /\ StaticsInv
      /\ NoRejection /\ ReceivedIsPrefix
  BY DEF ChannelInv
<1>2. PICK r \in Nat :
        /\ r <= remaining
        /\ received' = received \o SubSeq(payload, index + 1, index + r)
        /\ index' = index + r /\ remaining' = remaining - r
  <2> DEFINE m == IF remaining < want THEN remaining ELSE want
  <2>1. remaining \in Nat /\ want \in Nat
    BY <1>1, SecureChannelAssumption DEF TypeOK
  <2>2. m \in Nat /\ m <= remaining
    BY <2>1
  <2>3. /\ received' = received \o SubSeq(payload, index + 1, index + m)
        /\ index' = index + m /\ remaining' = remaining - m
    BY DEF Copy
  <2> HIDE DEF m
  <2> QED
    BY <2>2, <2>3
<1>3. /\ rx = "copy" /\ rx' = "idle" /\ UNCHANGED txVars /\ UNCHANGED netVars
      /\ UNCHANGED <<seqI, decPos, taken, want, payload>>
  BY DEF Copy
<1>4. /\ remaining \in Nat /\ index \in Nat /\ Len(payload) \in Nat
      /\ index + remaining = Len(payload) /\ Len(payload) <= BufferSize
      /\ received \in Seq(Byte \union {Garbled})
      /\ payload \in Seq(Byte \union {Garbled}) /\ Len(received) \in Nat
      /\ sent \in Seq(Byte) /\ Len(sent) \in Nat
  BY <1>1, SecureChannelAssumption DEF TypeOK, StaticsInv
<1> DEFINE piece == SubSeq(payload, index + 1, index + r)
<1>a. received' = received \o piece
  BY <1>2
<1>b. /\ r \in Nat /\ r <= remaining
      /\ index' = index + r /\ remaining' = remaining - r
  BY <1>2
<1>c. payload' = payload /\ sent' = sent /\ decPos' = decPos
  BY <1>3 DEF txVars
<1>5. /\ piece \in Seq(Byte \union {Garbled}) /\ Len(piece) = r
      /\ \A j \in 1..r : piece[j] = payload[index + j]
  BY <1>2, <1>4, SubSeqProperties
<1> HIDE DEF piece
<1>6. /\ received' \in Seq(Byte \union {Garbled})
      /\ Len(received') = Len(received) + r
      /\ \A j \in 1..Len(received) : received'[j] = received[j]
      /\ \A j \in 1..r : received'[Len(received) + j] = payload[index + j]
  <2>1. /\ Len(received \o piece) = Len(received) + Len(piece)
        /\ received \o piece \in Seq(Byte \union {Garbled})
        /\ \A j \in 1..Len(received) : (received \o piece)[j] = received[j]
        /\ \A j \in 1..Len(piece) : (received \o piece)[Len(received) + j] = piece[j]
    <3>1. received \in Seq(Byte \union {Garbled}) /\ piece \in Seq(Byte \union {Garbled})
      BY <1>4, <1>5
    <3> QED
      BY <3>1, ConcatProperties, LenProperties
  <2> QED
    BY <1>a, <1>5, <2>1
<1>7. SenderInv' /\ End(taken)' = End(taken)
  BY <1>1, <1>3, SenderUntouched DEF TypeOK
<1>8. TypeOK'
  <2>1. remaining' \in 0..BufferSize /\ index' \in 0..BufferSize
    BY <1>2, <1>4, SecureChannelAssumption
  <2> QED
    BY <1>1, <1>3, <1>6, <2>1 DEF TypeOK, txVars, netVars
<1>9. ReceiverInv'
  BY <1>1, <1>3, <1>7 DEF ReceiverInv, Ended, Rejections, txVars, netVars
<1>10. \A j \in 1..remaining : payload[index + j] = sent[Len(received) + j]
  BY <1>1 DEF StaticsInv
<1>11. StaticsInv'
  <2>1. Len(received') + remaining' = decPos'
    <3>1. Len(received) + remaining = decPos /\ decPos' = decPos
      BY <1>1, <1>3 DEF StaticsInv
    <3>2. Len(received') = Len(received) + r /\ remaining' = remaining - r
      BY <1>2, <1>6
    <3> QED
      BY <3>1, <3>2, <1>4
  <2>2. \A j \in 1..remaining' : payload'[index' + j] = sent'[Len(received') + j]
    <3> SUFFICES ASSUME NEW j \in 1..remaining'
                 PROVE  payload'[index' + j] = sent'[Len(received') + j]
      OBVIOUS
    <3>1. r + j \in 1..remaining
      BY <1>2, <1>4
    <3>2. payload[index + (r + j)] = sent[Len(received) + (r + j)]
      BY <3>1, <1>10
    <3>3. /\ index' + j = index + (r + j)
          /\ Len(received') + j = Len(received) + (r + j)
      BY <1>b, <1>4, <1>6
    <3> QED
      BY <3>2, <3>3, <1>c
  <2>3. index' + remaining' = Len(payload') /\ Len(payload') <= BufferSize
    BY <1>b, <1>c, <1>4
  <2> QED
    BY <1>3, <2>1, <2>2, <2>3 DEF StaticsInv
<1>12. ReceivedIsPrefix'
  <2>1. Len(received) + remaining <= Len(sent)
    <3>1. taken \in 0..Len(pkts)
      BY <1>1, <1>3 DEF ReceiverInv, TypeOK
    <3>2. decPos <= Len(sent)
      BY <1>1, <3>1 DEF ReceiverInv, SenderInv, WellFormed, End
    <3> QED
      BY <1>1, <3>2 DEF StaticsInv
  <2>2. Len(received') <= Len(sent')
    BY <2>1, <1>2, <1>3, <1>4, <1>6 DEF txVars
  <2>3. ASSUME NEW i \in 1..Len(received') PROVE received'[i] = sent'[i]
    <3>1. CASE i \in 1..Len(received)
      BY <3>1, <1>1, <1>3, <1>6 DEF ReceivedIsPrefix, txVars
    <3>2. CASE i \notin 1..Len(received)
      <4>1. /\ i - Len(received) \in 1..r /\ i - Len(received) \in 1..remaining
            /\ Len(received) + (i - Len(received)) = i
        BY <3>2, <1>2, <1>4, <1>6
      <4> QED
        BY <4>1, <1>3, <1>6, <1>10 DEF txVars
    <3> QED
      BY <3>1, <3>2
  <2> QED
    BY <2>2, <2>3 DEF ReceivedIsPrefix
<1>13. NoRejection'
  BY <1>3 DEF NoRejection, Rejections
<1> QED
  BY <1>7, <1>8, <1>9, <1>11, <1>12, <1>13 DEF ChannelInv

(* Failing to receive changes nothing but where the receiver is.           *)
LEMMA RecvFailsInv ==
    ASSUME ChannelInv, RecvFails
    PROVE  ChannelInv'
<1>1. /\ TypeOK /\ SenderInv /\ ReceiverInv /\ StaticsInv
      /\ NoRejection /\ ReceivedIsPrefix
  BY DEF ChannelInv
<1>2. /\ UNCHANGED txVars /\ UNCHANGED netVars /\ rx' = "failed"
      /\ UNCHANGED <<seqI, decPos, taken, want, remaining, index, payload, received>>
  BY DEF RecvFails
<1>3. SenderInv' /\ End(taken)' = End(taken)
  BY <1>1, <1>2, SenderUntouched DEF TypeOK
<1>4. TypeOK'
  BY <1>1, <1>2 DEF TypeOK, Ended, txVars, netVars
<1>5. 3 * taken <= reach
  BY <1>1 DEF ReceiverInv, TypeOK
<1>6. ReceiverInv'
  BY <1>1, <1>2, <1>3, <1>5 DEF ReceiverInv, TypeOK, Ended, txVars, netVars
<1>7. StaticsInv' /\ NoRejection' /\ ReceivedIsPrefix'
  BY <1>1, <1>2 DEF StaticsInv, NoRejection, ReceivedIsPrefix, Rejections, txVars
<1> QED
  BY <1>3, <1>4, <1>6, <1>7 DEF ChannelInv

(* Stuttering preserves everything.                                        *)
LEMMA StutterInv ==
    ASSUME ChannelInv, UNCHANGED vars
    PROVE  ChannelInv'
<1>1. UNCHANGED txVars /\ UNCHANGED netVars /\ UNCHANGED rxVars
  BY DEF vars, txVars, netVars, rxVars
<1>2. TypeOK' /\ NoRejection' /\ ReceivedIsPrefix'
  BY <1>1 DEF ChannelInv, TypeOK, NoRejection, ReceivedIsPrefix, txVars, netVars, rxVars
<1>3. SenderInv' /\ End(taken)' = End(taken)
  BY <1>1, SenderUntouched DEF ChannelInv, TypeOK, rxVars
<1>4. ReceiverInv' /\ StaticsInv'
  BY <1>1, <1>3 DEF ChannelInv, ReceiverInv, StaticsInv, txVars, netVars, rxVars
<1> QED
  BY <1>2, <1>3, <1>4 DEF ChannelInv

-----------------------------------------------------------------------------
(* The peers of a session agree at every moment, for every buffer size and *)
(* every even modulus of the sequence numbers.                             *)
THEOREM ChannelInvariant == Spec => []ChannelInv
<1>1. Init => ChannelInv
  BY InitInv
<1>2. ChannelInv /\ [Next]_vars => ChannelInv'
  <2> SUFFICES ASSUME ChannelInv, [Next]_vars PROVE ChannelInv'
    OBVIOUS
  <2>1. CASE \E m \in Payloads : Send(m)
    BY <2>1, SendInv
  <2>2. CASE Disconnect
    BY <2>2, DisconnectInv
  <2>3. CASE \E n \in 1..BufferSize : Call(n)
    BY <2>3, CallInv
  <2>4. CASE RecvRocket
    BY <2>4, RecvRocketInv
  <2>5. CASE RecvBody
    BY <2>5, RecvBodyInv
  <2>6. CASE Copy
    BY <2>6, CopyInv
  <2>7. CASE RecvFails
    BY <2>7, RecvFailsInv
  <2>8. CASE Done \/ UNCHANGED vars
    BY <2>8, StutterInv DEF Done
  <2> QED
    BY <2>1, <2>2, <2>3, <2>4, <2>5, <2>6, <2>7, <2>8 DEF Next
<1> QED
  BY <1>1, <1>2, PTL DEF Spec

(* The C++ types are respected: counters, statics and buffers stay within  *)
(* their bounds.                                                           *)
THEOREM TypeCorrect == Spec => []TypeOK
<1>1. ChannelInv => TypeOK
  BY DEF ChannelInv
<1> QED
  BY <1>1, ChannelInvariant, PTL

(* The application reads a prefix of what the peer's application wrote.    *)
THEOREM StreamIsPrefix == Spec => []ReceivedIsPrefix
<1>1. ChannelInv => ReceivedIsPrefix
  BY DEF ChannelInv
<1> QED
  BY <1>1, ChannelInvariant, PTL

(* No packet of the peer is ever rejected.                                 *)
THEOREM NoSpuriousRejection == Spec => []NoRejection
<1>1. ChannelInv => NoRejection
  BY DEF ChannelInv
<1> QED
  BY <1>1, ChannelInvariant, PTL

(* No sequence number is authenticated twice in a session.                 *)
THEOREM NoStampReuse == Spec => []StampsUnique
<1>1. ChannelInv => StampsUnique
  <2> SUFFICES ASSUME ChannelInv, NEW i \in 1..Len(pkts), NEW j \in 1..Len(pkts)
               PROVE  /\ pkts[i].rseq # pkts[j].sseq
                      /\ i # j => pkts[i].rseq # pkts[j].rseq /\ pkts[i].sseq # pkts[j].sseq
    BY DEF StampsUnique
  <2>1. /\ pkts[i].rseq = 2 * i - 2 /\ pkts[i].sseq = 2 * i - 1
        /\ pkts[j].rseq = 2 * j - 2 /\ pkts[j].sseq = 2 * j - 1
    BY DEF ChannelInv, SenderInv, WellFormed
  <2>2. i \in Int /\ j \in Int
    BY DEF ChannelInv, TypeOK
  <2> QED
    BY <2>1, <2>2
<1> QED
  BY <1>1, ChannelInvariant, PTL
=============================================================================
