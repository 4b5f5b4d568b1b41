------------------------ MODULE SharedReceiverProofs ------------------------
(***************************************************************************)
(* Proofs about SharedReceiver for every set of sessions, every way their  *)
(* clients cut what they send, and every buffer size: a server that meets  *)
(* its clients one after the other, none of which uses up the sequence     *)
(* numbers or sends a request of more than a line, is not disturbed by the *)
(* statics of Crypto::recv.  The runs shared_overlap and shared_overflow   *)
(* show that the first two conditions are needed; README.md has the        *)
(* instance that shows it of the third.                                    *)
(***************************************************************************)
EXTENDS SharedReceiver, SequenceTheorems, TLAPS

-----------------------------------------------------------------------------
(* Lemmas about the operators of the model.                                *)

LEMMA Cuts ==
    ASSUME NEW s \in Session
    PROVE  /\ Packets(s) \in Nat /\ End(s, 0) = 0
           /\ \A i \in 0..Packets(s) : End(s, i) \in Nat /\ End(s, i) <= Total(s)
           /\ \A i, j \in 0..Packets(s) : i <= j => End(s, i) <= End(s, j)
           /\ \A i \in 1..Packets(s) : /\ Size(s, i) \in 1..BufferSize
                                       /\ End(s, i) = End(s, i - 1) + Size(s, i)
<1>1. Ends[s] \in Seq(Nat) /\ Packets(s) \in Nat
  BY SharedReceiverAssumption DEF Packets
<1>0. \A i, j \in 0..Packets(s) : i <= j => End(s, i) <= End(s, j)
  BY SharedReceiverAssumption
<1>2. \A i \in 0..Packets(s) : End(s, i) \in Nat /\ End(s, i) <= Total(s)
  <2> SUFFICES ASSUME NEW i \in 0..Packets(s) PROVE End(s, i) \in Nat
    BY <1>0, <1>1 DEF Total
  <2>1. CASE i = 0
    BY <2>1 DEF End
  <2>2. CASE i # 0
    <3>1. i \in 1..Len(Ends[s])
      BY <2>2, <1>1 DEF Packets
    <3> QED
      BY <2>2, <3>1, <1>1, ElementOfSeq DEF End
  <2> QED
    BY <2>1, <2>2
<1>3. ASSUME NEW i \in 1..Packets(s)
      PROVE  Size(s, i) \in 1..BufferSize /\ End(s, i) = End(s, i - 1) + Size(s, i)
  <2>1. Size(s, i) \in 1..BufferSize
    BY SharedReceiverAssumption
  <2>2. i \in 0..Packets(s) /\ i - 1 \in 0..Packets(s)
    BY <1>1
  <2>3. End(s, i) \in Nat /\ End(s, i - 1) \in Nat
    BY <1>2, <2>2
  <2> QED
    BY <2>1, <2>3 DEF Size
<1>4. End(s, 0) = 0
  BY DEF End
<1> QED
  BY <1>0, <1>1, <1>2, <1>3, <1>4

(* Two sequence numbers are taken of a packet, and the counter does not    *)
(* wrap while the modulus is larger than what the session needs.           *)
LEMMA IncTwice ==
    ASSUME NEW n \in Nat, 2 * n + 2 < SeqModulus
    PROVE  Inc2(2 * n) = 2 * (n + 1) /\ 2 * (n + 1) \in 0..SeqModulus-1
<1>1. Inc(2 * n) = 2 * n + 1
  BY SharedReceiverAssumption DEF Inc
<1>2. Inc(2 * n + 1) = 2 * n + 2
  BY SharedReceiverAssumption DEF Inc
<1> QED
  BY <1>1, <1>2, SharedReceiverAssumption DEF Inc2

-----------------------------------------------------------------------------
LEMMA InitInv == Init => SequentialInv
<1> SUFFICES ASSUME Init PROVE SequentialInv
  OBVIOUS
<1> USE DEF Init
<1>1. SeqModulus \in Nat /\ SeqModulus >= 2 /\ BufferSize \in Nat
  BY SharedReceiverAssumption
<1>2. TypeOK
  <2>1. \A s \in Session : Packets(s) \in Nat
    BY Cuts
  <2> QED
    BY <1>1, <2>1 DEF TypeOK, Phase, Bytes
<1>3. SessionIsolation /\ DrainedBetweenSessions
  BY DEF SessionIsolation, DrainedBetweenSessions
<1>4. \A s \in Session : ~Running(s) /\ SessionInv(s)
  <2> SUFFICES ASSUME NEW s \in Session PROVE ~Running(s) /\ SessionInv(s)
    OBVIOUS
  <2>1. pc[s] = "new" /\ taken[s] = 0 /\ seqI[s] = 0 /\ got[s] = <<>>
    OBVIOUS
  <2> HIDE DEF Init
  <2> QED
    BY <2>1 DEF Running, SessionInv
<1> QED
  BY <1>2, <1>3, <1>4 DEF SequentialInv

(* A step of one session that no other is beside: it is enough to look at  *)
(* the statics, and at the session itself.                                 *)
LEMMA OneSession ==
    ASSUME SequentialInv, NEW s \in Session,
           \A t \in Session \ {s} : ~Running(t),
           \A t \in Session \ {s} : /\ pc'[t] = pc[t] /\ taken'[t] = taken[t]
                                    /\ seqI'[t] = seqI[t] /\ got'[t] = got[t],
           TypeOK', SessionInv(s)',
           \A k \in 1..Len(got'[s]) : got'[s][k] = <<s, k>>,
           pc'[s] \in {"new", "ended"} => remaining' = 0
    PROVE  SequentialInv'
<1>1. SessionIsolation'
  BY DEF SequentialInv, SessionIsolation
<1>2. DrainedBetweenSessions'
  BY DEF DrainedBetweenSessions
<1>3. \A t \in Session \ {s} : ~Running(t)'
  BY DEF Running
<1>4. ASSUME NEW t \in Session \ {s} PROVE SessionInv(t)'
  <2>1. SessionInv(t) /\ pc[t] \in {"new", "ended"}
    BY DEF SequentialInv, Running
  <2>2. pc'[t] \in {"new", "ended"} /\ (pc'[t] = "new" => pc[t] = "new")
    BY <2>1
  <2>3. seqI'[t] = 2 * taken'[t] /\ (pc'[t] = "new" => taken'[t] = 0 /\ got'[t] = <<>>)
    BY <2>1, <2>2 DEF SessionInv
  <2> QED
    BY <2>2, <2>3 DEF SessionInv
<1>5. \A t \in Session : SessionInv(t)'
  BY <1>4
<1>6. \A t, u \in Session : Running(t)' /\ Running(u)' => t = u
  BY <1>3
<1> QED
  BY <1>1, <1>2, <1>5, <1>6 DEF SequentialInv

-----------------------------------------------------------------------------
(* One lemma per step.                                                     *)

(* A session begins when no other runs, with empty statics.                *)
LEMMA StartInv ==
    ASSUME SequentialInv, OneAtATime, NEW s \in Session, Start(s)
    PROVE  SequentialInv'
<1>1. /\ pc[s] = "new" /\ \A t \in Session : ~Running(t)
      /\ pc' = [pc EXCEPT ![s] = "idle"]
      /\ UNCHANGED <<remaining, index, payload, up, taken, seqI, want, r, got>>
  BY DEF Start, OneAtATime, Running, Goto, statics, locals
<1>2. TypeOK /\ SessionInv(s) /\ remaining = 0
  BY <1>1 DEF SequentialInv, DrainedBetweenSessions, Running
<1>3. TypeOK' /\ pc'[s] = "idle" /\ \A t \in Session \ {s} : pc'[t] = pc[t]
  BY <1>1, <1>2 DEF TypeOK, Phase
<1>4. SessionInv(s)'
  <2>1. taken[s] = 0 /\ got[s] = <<>> /\ End(s, taken[s]) = 0 /\ seqI[s] = 2 * taken[s]
    BY <1>1, <1>2, Cuts DEF SessionInv
  <2>2. index \in Nat /\ index <= BufferSize /\ BufferSize \in Nat
    BY <1>2, SharedReceiverAssumption DEF TypeOK
  <2>3. Len(got[s]) = 0
    BY <2>1
  <2> QED
    BY <1>1, <1>2, <1>3, <2>1, <2>2, <2>3 DEF SessionInv, Left, Behind, Buffered
<1>5. \A k \in 1..Len(got'[s]) : got'[s][k] = <<s, k>>
  BY <1>1 DEF SequentialInv, SessionIsolation
<1> QED
  BY <1>1, <1>3, <1>4, <1>5, OneSession

(* What is known of the session that runs.                                 *)
LEMMA TheOne ==
    ASSUME SequentialInv, NEW s \in Session, Running(s)
    PROVE  /\ TypeOK /\ SessionInv(s)
           /\ \A t \in Session \ {s} : ~Running(t)
           /\ \A k \in 1..Len(got[s]) : got[s][k] = <<s, k>>
           /\ remaining \in Nat /\ index \in Nat /\ BufferSize \in Nat
           /\ remaining <= BufferSize /\ index <= BufferSize
           /\ taken[s] \in 0..Packets(s) /\ want[s] \in Nat /\ want[s] <= BufferSize
           /\ r[s] \in Nat /\ got[s] \in Seq(Bytes) /\ Len(got[s]) \in Nat
<1>1. TypeOK /\ SessionInv(s) /\ SessionIsolation
      /\ \A t \in Session : Running(t) => t = s
  BY DEF SequentialInv
<1>2. /\ remaining \in Nat /\ index \in Nat /\ BufferSize \in Nat
      /\ remaining <= BufferSize /\ index <= BufferSize
  BY <1>1, SharedReceiverAssumption DEF TypeOK
<1>3. /\ taken[s] \in 0..Packets(s) /\ want[s] \in Nat /\ want[s] <= BufferSize
      /\ r[s] \in Nat /\ got[s] \in Seq(Bytes)
  BY <1>1, Cuts, SharedReceiverAssumption DEF TypeOK
<1>4. Len(got[s]) \in Nat
  BY <1>3, LenProperties
<1> QED
  BY <1>1, <1>2, <1>3, <1>4 DEF SessionIsolation

(* The session asks for bytes, or ends when it has them all.               *)
LEMMA CallInv ==
    ASSUME SequentialInv, NEW s \in Session, Call(s)
    PROVE  SequentialInv'
<1>1. /\ pc[s] = "idle" /\ Running(s)
      /\ UNCHANGED <<remaining, index, payload, up, taken, seqI, r, got>>
  BY DEF Call, Running, statics
<1>2. /\ TypeOK /\ SessionInv(s) /\ \A t \in Session \ {s} : ~Running(t)
      /\ \A k \in 1..Len(got[s]) : got[s][k] = <<s, k>>
      /\ remaining \in Nat /\ taken[s] \in 0..Packets(s) /\ Len(got[s]) \in Nat
      /\ got[s] \in Seq(Bytes)
  BY <1>1, TheOne
<1>3. \/ /\ pc' = [pc EXCEPT ![s] = "check"]
         /\ \E n \in 1..BufferSize : want' = [want EXCEPT ![s] = n]
      \/ /\ pc' = [pc EXCEPT ![s] = "ended"] /\ want' = want
         /\ ~(Len(got[s]) < Total(s))
  BY DEF Call, Goto
<1>4. /\ pc'[s] \in {"check", "ended"} /\ \A t \in Session \ {s} : pc'[t] = pc[t]
      /\ pc' \in [Session -> Phase]
  BY <1>2, <1>3 DEF TypeOK, Phase
<1>5. want' \in [Session -> 0..BufferSize]
  <2>1. want \in [Session -> 0..BufferSize]
    BY <1>2 DEF TypeOK
  <2>2. ASSUME NEW n \in 1..BufferSize, want' = [want EXCEPT ![s] = n]
        PROVE  want' \in [Session -> 0..BufferSize]
    <3>1. n \in 0..BufferSize
      BY SharedReceiverAssumption
    <3> QED
      BY <2>1, <2>2, <3>1
  <2> QED
    BY <1>3, <2>1, <2>2
<1>6. TypeOK'
  BY <1>1, <1>2, <1>4, <1>5 DEF TypeOK
<1>7. SessionInv(s)'
  <2>1. want'[s] >= 1 \/ pc'[s] = "ended"
    BY <1>2, <1>3, SharedReceiverAssumption DEF TypeOK
  <2> QED
    BY <1>1, <1>2, <1>4, <2>1 DEF SessionInv, Left, Behind, Buffered, Begun
<1>8. pc'[s] = "ended" => remaining' = 0
  <2> SUFFICES ASSUME pc'[s] = "ended" PROVE remaining = 0
    BY <1>1
  <2>1. Len(got[s]) >= Total(s) /\ Total(s) \in Nat
    <3>1. ~(Len(got[s]) < Total(s))
      BY <1>2, <1>3 DEF TypeOK
    <3>2. Total(s) \in Nat
      BY Cuts DEF Total
    <3> QED
      BY <3>1, <3>2, <1>2
  <2>2. Len(got[s]) + remaining = End(s, taken[s])
    BY <1>1, <1>2 DEF SessionInv, Left
  <2>3. End(s, taken[s]) <= Total(s)
    BY <1>2, Cuts
  <2> QED
    BY <2>1, <2>2, <2>3, <1>2
<1> QED
  BY <1>1, <1>2, <1>4, <1>6, <1>7, <1>8, OneSession

(* The session ends at the end of a request, which is the end of a         *)
(* payload: of the payload in the statics, as some of it has been read and *)
(* no more than all of it.                                                 *)
LEMMA LeaveInv ==
    ASSUME SequentialInv, AnswersAtEnds, NEW s \in Session, Leave(s)
    PROVE  SequentialInv'
<1>1. /\ pc[s] = "idle" /\ Running(s) /\ Len(got[s]) \in Answers[s]
      /\ pc' = [pc EXCEPT ![s] = "ended"]
      /\ UNCHANGED <<remaining, index, payload, up, taken, seqI, want, r, got>>
  BY DEF Leave, Running, Goto, statics, locals
<1>2. /\ TypeOK /\ SessionInv(s) /\ \A t \in Session \ {s} : ~Running(t)
      /\ \A k \in 1..Len(got[s]) : got[s][k] = <<s, k>>
      /\ remaining \in Nat /\ taken[s] \in 0..Packets(s) /\ Len(got[s]) \in Nat
  BY <1>1, TheOne
<1>3. remaining = 0
  <2> SUFFICES ASSUME remaining # 0 PROVE FALSE
    OBVIOUS
  <2>1. /\ taken[s] >= 1 /\ End(s, taken[s] - 1) < Len(got[s])
        /\ Len(got[s]) + remaining = End(s, taken[s])
    BY <1>1, <1>2 DEF SessionInv, Begun, Left
  <2>2. PICK i \in 1..Packets(s) : Len(got[s]) = End(s, i)
    BY <1>1 DEF AnswersAtEnds
  <2>3. /\ i \in 0..Packets(s) /\ taken[s] - 1 \in 0..Packets(s)
        /\ taken[s] \in Int /\ i \in Int
    BY <1>2, <2>1, Cuts
  <2>4. End(s, i) \in Nat /\ End(s, taken[s]) \in Nat /\ End(s, taken[s] - 1) \in Nat
    BY <1>2, <2>3, Cuts
  <2>5. CASE i <= taken[s] - 1
    <3>1. End(s, i) <= End(s, taken[s] - 1)
      BY <2>3, <2>5, Cuts
    <3> QED
      BY <2>1, <2>2, <2>4, <3>1
  <2>6. CASE ~(i <= taken[s] - 1)
    <3>1. taken[s] <= i
      BY <2>3, <2>6
    <3>2. End(s, taken[s]) <= End(s, i)
      BY <1>2, <2>3, <3>1, Cuts
    <3> QED
      BY <1>2, <2>1, <2>2, <2>4, <3>2
  <2> QED
    BY <2>5, <2>6
<1>4. /\ pc'[s] = "ended" /\ \A t \in Session \ {s} : pc'[t] = pc[t]
      /\ pc' \in [Session -> Phase]
  BY <1>1, <1>2 DEF TypeOK, Phase
<1>5. TypeOK'
  BY <1>1, <1>2, <1>4 DEF TypeOK
<1>6. SessionInv(s)'
  <2>1. seqI[s] = 2 * taken[s]
    BY <1>2 DEF SessionInv
  <2> QED
    BY <1>1, <1>4, <2>1 DEF SessionInv
<1> QED
  BY <1>1, <1>2, <1>3, <1>4, <1>5, <1>6, OneSession

(* A look at the statics.                                                  *)
LEMMA CheckInv ==
    ASSUME SequentialInv, NEW s \in Session, Check(s)
    PROVE  SequentialInv'
<1>1. /\ pc[s] = "check" /\ Running(s)
      /\ pc' = [pc EXCEPT ![s] = IF remaining = 0 THEN "fetch" ELSE "measure"]
      /\ UNCHANGED <<remaining, index, payload, up, taken, seqI, want, r, got>>
  BY DEF Check, Running, Goto, statics, locals
<1>2. /\ TypeOK /\ SessionInv(s) /\ \A t \in Session \ {s} : ~Running(t)
      /\ \A k \in 1..Len(got[s]) : got[s][k] = <<s, k>>
      /\ Len(got[s]) \in Nat /\ remaining \in Nat /\ taken[s] \in 0..Packets(s)
  BY <1>1, TheOne
<1>3. /\ pc'[s] = (IF remaining = 0 THEN "fetch" ELSE "measure")
      /\ \A t \in Session \ {s} : pc'[t] = pc[t]
      /\ pc' \in [Session -> Phase]
  BY <1>1, <1>2 DEF TypeOK, Phase
<1>4. TypeOK'
  BY <1>1, <1>2, <1>3 DEF TypeOK
<1>5. SessionInv(s)'
  <2>1. /\ Len(got[s]) + remaining = End(s, taken[s])
        /\ index + remaining <= BufferSize /\ Buffered(s, index, remaining)
        /\ seqI[s] = 2 * taken[s] /\ want[s] >= 1
        /\ remaining = 0 \/ (taken[s] >= 1 /\ End(s, taken[s] - 1) < Len(got[s]))
    BY <1>1, <1>2 DEF SessionInv, Left, Behind, Begun
  <2>2. CASE remaining = 0
    <3>1. Len(got[s]) = End(s, taken[s])
      BY <2>1, <2>2, <1>2
    <3> QED
      BY <1>1, <1>3, <2>1, <2>2, <3>1 DEF SessionInv
  <2>3. CASE remaining # 0
    <3>1. /\ remaining >= 1 /\ taken[s] >= 1
          /\ End(s, taken[s] - 1) <= Len(got[s])
      <4>1. taken[s] - 1 \in 0..Packets(s)
        BY <1>2, <2>1, <2>3, Cuts
      <4>2. End(s, taken[s] - 1) \in Nat
        BY <4>1, Cuts
      <4> QED
        BY <1>2, <2>1, <2>3, <4>2
    <3> QED
      BY <1>1, <1>3, <2>1, <2>3, <3>1 DEF SessionInv, Left, Behind, Buffered
  <2> QED
    BY <2>2, <2>3
<1> QED
  BY <1>1, <1>2, <1>3, <1>4, <1>5, OneSession

(* A packet is decrypted into the payload, or the connection is lost.      *)
LEMMA FetchInv ==
    ASSUME SequentialInv, OneAtATime, NEW s \in Session, Fetch(s)
    PROVE  SequentialInv'
<1>1. /\ pc[s] = "fetch" /\ Running(s)
      /\ UNCHANGED <<remaining, index, up, want, r, got>>
  BY DEF Fetch, Running
<1>2. /\ TypeOK /\ SessionInv(s) /\ \A t \in Session \ {s} : ~Running(t)
      /\ \A k \in 1..Len(got[s]) : got[s][k] = <<s, k>>
      /\ Len(got[s]) \in Nat /\ taken[s] \in 0..Packets(s)
  BY <1>1, TheOne
<1>3. /\ remaining = 0 /\ Len(got[s]) = End(s, taken[s])
      /\ seqI[s] = 2 * taken[s] /\ want[s] >= 1
  BY <1>1, <1>2 DEF SessionInv
<1>4. CASE ~up[s]
  <2>1. pc' = [pc EXCEPT ![s] = "ended"] /\ UNCHANGED <<taken, seqI, payload>>
    BY <1>4 DEF Fetch, Goto
  <2>2. /\ pc'[s] = "ended" /\ \A t \in Session \ {s} : pc'[t] = pc[t]
        /\ pc' \in [Session -> Phase]
    BY <1>2, <2>1 DEF TypeOK, Phase
  <2>3. TypeOK'
    BY <1>1, <1>2, <2>1, <2>2 DEF TypeOK
  <2>4. SessionInv(s)'
    BY <1>1, <1>3, <2>1, <2>2 DEF SessionInv
  <2> QED
    BY <1>1, <1>2, <1>3, <2>1, <2>2, <2>3, <2>4, OneSession
<1>5. CASE up[s]
  <2> DEFINE n == taken[s]
  <2>1. /\ pc' = [pc EXCEPT ![s] = "publish"]
        /\ n < Packets(s) /\ taken' = [taken EXCEPT ![s] = n + 1]
        /\ seqI' = [seqI EXCEPT ![s] = Inc2(seqI[s])]
        /\ payload' = [j \in 1..BufferSize |->
                         IF j <= Size(s, taken'[s])
                           THEN <<s, End(s, n) + j>> ELSE payload[j]]
    BY <1>5 DEF Fetch, Goto
  <2>2. n \in Nat /\ n + 1 \in 1..Packets(s) /\ Packets(s) \in Nat
    BY <1>2, <2>1, Cuts
  <2>3. /\ pc'[s] = "publish" /\ taken'[s] = n + 1
        /\ \A t \in Session \ {s} : /\ pc'[t] = pc[t] /\ taken'[t] = taken[t]
                                    /\ seqI'[t] = seqI[t]
        /\ pc' \in [Session -> Phase] /\ taken' \in [Session -> Nat]
        /\ \A t \in Session : taken'[t] <= Packets(t)
    BY <1>2, <2>1, <2>2 DEF TypeOK, Phase
  <2>4. seqI'[s] = 2 * (n + 1) /\ seqI' \in [Session -> 0..SeqModulus-1]
    <3>1. 2 * n + 2 < SeqModulus
      BY <2>2, SharedReceiverAssumption DEF OneAtATime
    <3>2. Inc2(2 * n) = 2 * (n + 1) /\ 2 * (n + 1) \in 0..SeqModulus-1
      BY <2>2, <3>1, IncTwice
    <3> QED
      BY <1>2, <1>3, <2>1, <3>2 DEF TypeOK
  <2>5. Size(s, n + 1) \in 1..BufferSize /\ End(s, n) \in Nat
    BY <2>2, Cuts
  <2>6. payload' \in [1..BufferSize -> Bytes]
    <3>1. ASSUME NEW j \in 1..BufferSize
          PROVE  <<s, End(s, n) + j>> \in Bytes /\ payload[j] \in Bytes
      <4>1. End(s, n) + j \in Nat
        BY <2>5, SharedReceiverAssumption
      <4>2. <<s, End(s, n) + j>> \in Bytes
        BY <4>1 DEF Bytes
      <4>3. payload \in [1..BufferSize -> Bytes]
        BY <1>2 DEF TypeOK
      <4> QED
        BY <4>2, <4>3
    <3> QED
      BY <2>1, <3>1
  <2>7. TypeOK'
    BY <1>1, <1>2, <2>3, <2>4, <2>6 DEF TypeOK
  <2>8. \A j \in 1..Size(s, n + 1) : payload'[j] = <<s, Len(got[s]) + j>>
    <3> SUFFICES ASSUME NEW j \in 1..Size(s, n + 1)
                 PROVE  payload'[j] = <<s, Len(got[s]) + j>>
      OBVIOUS
    <3>1. j \in 1..BufferSize /\ j <= Size(s, n + 1)
      BY <2>5, SharedReceiverAssumption
    <3> QED
      BY <3>1, <2>1, <2>3, <1>3
  <2>9. Buffered(s, 0, Size(s, taken[s]))'
    <3> SUFFICES ASSUME NEW j \in 1..Size(s, n + 1)
                 PROVE  payload'[0 + j] = <<s, Len(got[s]) + j>>
      BY <1>1, <2>3 DEF Buffered, Size, End
    <3>1. 0 + j = j
      BY <2>5
    <3> QED
      BY <2>8, <3>1
  <2>10. SessionInv(s)'
    <3>1. taken'[s] >= 1 /\ taken'[s] - 1 = n
      BY <2>2, <2>3
    <3> QED
      BY <1>1, <1>3, <2>3, <2>4, <2>9, <3>1 DEF SessionInv
  <2> QED
    BY <1>1, <1>2, <2>3, <2>7, <2>10, OneSession
<1> QED
  BY <1>4, <1>5

(* Its size is published.                                                  *)
LEMMA PublishInv ==
    ASSUME SequentialInv, NEW s \in Session, Publish(s)
    PROVE  SequentialInv'
<1>1. /\ pc[s] = "publish" /\ Running(s) /\ remaining' = Size(s, taken[s])
      /\ pc' = [pc EXCEPT ![s] = "reset"]
      /\ UNCHANGED <<index, payload, up, taken, seqI, want, r, got>>
  BY DEF Publish, Running, Goto, locals
<1>2. /\ TypeOK /\ SessionInv(s) /\ \A t \in Session \ {s} : ~Running(t)
      /\ \A k \in 1..Len(got[s]) : got[s][k] = <<s, k>>
      /\ taken[s] \in 0..Packets(s)
  BY <1>1, TheOne
<1>3. /\ taken[s] >= 1 /\ Len(got[s]) = End(s, taken[s] - 1)
      /\ Buffered(s, 0, Size(s, taken[s])) /\ seqI[s] = 2 * taken[s]
      /\ want[s] >= 1
  BY <1>1, <1>2 DEF SessionInv
<1>4. /\ pc'[s] = "reset" /\ \A t \in Session \ {s} : pc'[t] = pc[t]
      /\ pc' \in [Session -> Phase]
  BY <1>1, <1>2 DEF TypeOK, Phase
<1>5. remaining' \in 0..BufferSize
  <2>1. taken[s] \in 1..Packets(s)
    BY <1>2, <1>3, Cuts
  <2>2. Size(s, taken[s]) \in 1..BufferSize
    BY <2>1, Cuts
  <2> QED
    BY <1>1, <2>2, SharedReceiverAssumption
<1>6. TypeOK'
  BY <1>1, <1>2, <1>4, <1>5 DEF TypeOK
<1>7. SessionInv(s)'
  BY <1>1, <1>3, <1>4 DEF SessionInv, Buffered
<1> QED
  BY <1>1, <1>2, <1>4, <1>6, <1>7, OneSession

(* The index is reset; the counter has not wrapped.                        *)
LEMMA ResetInv ==
    ASSUME SequentialInv, NEW s \in Session, Reset(s)
    PROVE  SequentialInv'
<1>1. /\ pc[s] = "reset" /\ Running(s) /\ index' = 0
      /\ pc' = [pc EXCEPT ![s] = IF seqI[s] = 0 THEN "ended" ELSE "measure"]
      /\ UNCHANGED <<remaining, payload, up, taken, seqI, want, r, got>>
  BY DEF Reset, Running, Goto, locals
<1>2. /\ TypeOK /\ SessionInv(s) /\ \A t \in Session \ {s} : ~Running(t)
      /\ \A k \in 1..Len(got[s]) : got[s][k] = <<s, k>>
      /\ taken[s] \in 0..Packets(s) /\ BufferSize \in Nat
  BY <1>1, TheOne
<1>3. /\ taken[s] >= 1 /\ Len(got[s]) = End(s, taken[s] - 1)
      /\ remaining = Size(s, taken[s]) /\ want[s] >= 1
      /\ Buffered(s, 0, Size(s, taken[s])) /\ seqI[s] = 2 * taken[s]
  BY <1>1, <1>2 DEF SessionInv
<1>4. taken[s] \in 1..Packets(s) /\ taken[s] \in Nat /\ seqI[s] # 0
  BY <1>2, <1>3, Cuts
<1>5. /\ pc'[s] = "measure" /\ \A t \in Session \ {s} : pc'[t] = pc[t]
      /\ pc' \in [Session -> Phase]
  BY <1>1, <1>2, <1>4 DEF TypeOK, Phase
<1>6. TypeOK'
  BY <1>1, <1>2, <1>5 DEF TypeOK
<1>7. SessionInv(s)'
  <2>1. End(s, taken[s]) = End(s, taken[s] - 1) + remaining /\ remaining \in 1..BufferSize
    BY <1>3, <1>4, Cuts
  <2>2. 0 + remaining <= BufferSize /\ remaining >= 1
    BY <2>1, <1>2
  <2>3. End(s, taken[s] - 1) <= Len(got[s])
    <3>1. Len(got[s]) \in Nat
      BY <1>1, TheOne
    <3> QED
      BY <1>3, <3>1
  <2> QED
    BY <1>1, <1>3, <1>5, <2>1, <2>2, <2>3 DEF SessionInv, Left, Behind, Buffered
<1> QED
  BY <1>1, <1>2, <1>5, <1>6, <1>7, OneSession

(* How much is copied.                                                     *)
LEMMA MeasureInv ==
    ASSUME SequentialInv, NEW s \in Session, Measure(s)
    PROVE  SequentialInv'
<1>1. /\ pc[s] = "measure" /\ Running(s)
      /\ r' = [r EXCEPT ![s] = IF remaining < want[s] THEN remaining ELSE want[s]]
      /\ pc' = [pc EXCEPT ![s] = "copy"]
      /\ UNCHANGED <<remaining, index, payload, up, taken, seqI, want, got>>
  BY DEF Measure, Running, Goto, statics
<1>2. /\ TypeOK /\ SessionInv(s) /\ \A t \in Session \ {s} : ~Running(t)
      /\ \A k \in 1..Len(got[s]) : got[s][k] = <<s, k>>
      /\ remaining \in Nat /\ remaining <= BufferSize /\ BufferSize \in Nat
      /\ want[s] \in Nat
  BY <1>1, TheOne
<1>3. /\ pc'[s] = "copy" /\ \A t \in Session \ {s} : pc'[t] = pc[t]
      /\ pc' \in [Session -> Phase]
  BY <1>1, <1>2 DEF TypeOK, Phase
<1>4. r'[s] \in 0..BufferSize /\ r'[s] <= remaining /\ r' \in [Session -> 0..BufferSize]
  <2> DEFINE m == IF remaining < want[s] THEN remaining ELSE want[s]
  <2>1. m \in 0..BufferSize /\ m <= remaining
    BY <1>2
  <2>2. r \in [Session -> 0..BufferSize] /\ r' = [r EXCEPT ![s] = m]
    BY <1>1, <1>2 DEF TypeOK
  <2> HIDE DEF m
  <2> QED
    BY <2>1, <2>2
<1>5. TypeOK'
  BY <1>1, <1>2, <1>3, <1>4 DEF TypeOK
<1>6. SessionInv(s)'
  BY <1>1, <1>2, <1>3, <1>4 DEF SessionInv, Left, Behind, Buffered
<1> QED
  BY <1>1, <1>2, <1>3, <1>5, <1>6, OneSession

(* The bytes copied are the next of the session.                           *)
LEMMA CopyInv ==
    ASSUME SequentialInv, NEW s \in Session, Copy(s)
    PROVE  SequentialInv'
<1>1. pc[s] = "copy" /\ Running(s) /\ UNCHANGED <<remaining, index, payload, up, taken, seqI, want, r>>
  BY DEF Copy, Running, statics
<1>2. /\ TypeOK /\ SessionInv(s) /\ \A t \in Session \ {s} : ~Running(t)
      /\ \A k \in 1..Len(got[s]) : got[s][k] = <<s, k>>
      /\ remaining \in Nat /\ index \in Nat /\ BufferSize \in Nat
      /\ r[s] \in Nat /\ got[s] \in Seq(Bytes) /\ Len(got[s]) \in Nat
  BY <1>1, TheOne
<1>3. /\ r[s] <= remaining /\ Len(got[s]) + remaining = End(s, taken[s])
      /\ index + remaining <= BufferSize /\ seqI[s] = 2 * taken[s]
      /\ \A j \in 1..remaining : payload[index + j] = <<s, Len(got[s]) + j>>
      /\ r[s] >= 1 /\ taken[s] >= 1 /\ End(s, taken[s] - 1) <= Len(got[s])
  BY <1>1, <1>2 DEF SessionInv, Left, Behind, Buffered
<1> DEFINE n == Len(got[s])
           m == r[s]
           piece == [j \in 1..m |-> IF index + j \in 1..BufferSize
                                      THEN payload[index + j] ELSE Junk]
<1>4. got' = [got EXCEPT ![s] = got[s] \o piece] /\ pc' = [pc EXCEPT ![s] = "advance"]
  <2>1. r[s] >= 0
    BY <1>2
  <2> QED
    BY <2>1, Zenon DEF Copy, Goto
<1>5. \A j \in 1..m : piece[j] = <<s, n + j>> /\ piece[j] \in Bytes
  <2> SUFFICES ASSUME NEW j \in 1..m PROVE piece[j] = <<s, n + j>> /\ piece[j] \in Bytes
    OBVIOUS
  <2>1. j \in 1..remaining /\ index + j \in 1..BufferSize
    BY <1>2, <1>3
  <2>2. piece[j] = <<s, n + j>>
    BY <2>1, <1>3
  <2>3. n + j \in Nat
    BY <1>2
  <2>4. <<s, n + j>> \in Bytes
    BY <2>3 DEF Bytes
  <2> QED
    BY <2>2, <2>4
<1>6. piece \in Seq(Bytes) /\ Len(piece) = m
  <2>1. piece \in [1..m -> Bytes]
    BY <1>5
  <2>2. piece \in Seq(Bytes)
    BY <2>1, <1>2, SeqDef
  <2> QED
    BY <2>2, <1>2, LenProperties
<1> HIDE DEF piece
<1>7. /\ got[s] \o piece \in Seq(Bytes) /\ Len(got[s] \o piece) = n + m
      /\ \A k \in 1..n : (got[s] \o piece)[k] = got[s][k]
      /\ \A j \in 1..m : (got[s] \o piece)[n + j] = piece[j]
  <2>1. got[s] \in Seq(Bytes) /\ n = Len(got[s]) /\ n \in Nat /\ m \in Nat
    BY <1>2
  <2>2. /\ got[s] \o piece \in Seq(Bytes) /\ Len(got[s] \o piece) = n + m
        /\ \A k \in 1 .. n + m : (got[s] \o piece)[k] = IF k <= n THEN got[s][k] ELSE piece[k - n]
    <3>1. /\ got[s] \o piece \in Seq(Bytes) /\ Len(got[s] \o piece) = Len(got[s]) + Len(piece)
          /\ \A k \in 1 .. Len(got[s]) + Len(piece) :
               (got[s] \o piece)[k] = IF k <= Len(got[s]) THEN got[s][k] ELSE piece[k - Len(got[s])]
      BY <2>1, <1>6, ConcatProperties, Zenon
    <3>2. Len(got[s]) = n /\ Len(piece) = m
      BY <1>6
    <3> QED
      BY <3>1, <3>2, Zenon
  <2> DEFINE joined == got[s] \o piece
  <2> HIDE DEF joined
  <2>3. /\ Len(joined) = n + m
        /\ \A k \in 1 .. n + m : joined[k] = IF k <= n THEN got[s][k] ELSE piece[k - n]
    BY <2>2 DEF joined
  <2> HIDE DEF n, m
  <2>4. \A k \in 1..n : joined[k] = got[s][k]
    BY <2>1, <2>3
  <2>5. \A j \in 1..m : joined[n + j] = piece[j]
    <3> SUFFICES ASSUME NEW j \in 1..m
                 PROVE  joined[n + j] = piece[j]
      OBVIOUS
    <3> DEFINE k == n + j
    <3>1. k \in 1 .. n + m /\ ~(k <= n) /\ k - n = j
      BY <2>1
    <3> HIDE DEF k
    <3>2. joined[k] = piece[k - n]
      BY <2>3, <3>1, Zenon
    <3> QED
      BY <3>1, <3>2 DEF k
  <2> QED
    BY <2>2, <2>4, <2>5 DEF joined
<1>8. /\ got'[s] = got[s] \o piece /\ got' \in [Session -> Seq(Bytes)]
      /\ \A t \in Session \ {s} : got'[t] = got[t]
  BY <1>2, <1>4, <1>7 DEF TypeOK
<1>9. /\ pc'[s] = "advance" /\ \A t \in Session \ {s} : pc'[t] = pc[t]
      /\ pc' \in [Session -> Phase]
  BY <1>2, <1>4 DEF TypeOK, Phase
<1>10. TypeOK'
  BY <1>1, <1>2, <1>8, <1>9 DEF TypeOK
<1>11. \A k \in 1..Len(got'[s]) : got'[s][k] = <<s, k>>
  <2> SUFFICES ASSUME NEW k \in 1..n + m
               PROVE  (got[s] \o piece)[k] = <<s, k>>
    BY <1>7, <1>8
  <2>1. CASE k \in 1..n
    BY <2>1, <1>2, <1>7
  <2>2. CASE k \notin 1..n
    <3>1. k - n \in 1..m /\ n + (k - n) = k
      BY <2>2, <1>2
    <3>2. (got[s] \o piece)[n + (k - n)] = <<s, n + (k - n)>>
      BY <3>1, <1>5, <1>7
    <3> QED
      BY <3>1, <3>2
  <2> QED
    BY <2>1, <2>2
<1>12. SessionInv(s)'
  <2>1. Len(got'[s]) = n + m
    BY <1>7, <1>8
  <2>2. n + m + (remaining - m) = End(s, taken[s]) /\ index + m + (remaining - m) <= BufferSize
    BY <1>2, <1>3
  <2>3. ASSUME NEW j \in 1..remaining - m
        PROVE  payload[index + m + j] = <<s, n + m + j>>
    <3>1. m + j \in 1..remaining
      BY <1>2, <1>3
    <3>2. payload[index + (m + j)] = <<s, n + (m + j)>>
      BY <3>1, <1>3
    <3>3. index + (m + j) = index + m + j /\ n + (m + j) = n + m + j
      BY <1>2
    <3> QED
      BY <3>2, <3>3
  <2>4. Begun(s)'
    <3>0. taken[s] \in 0..Packets(s) /\ Packets(s) \in Nat
      BY <1>1, TheOne, Cuts
    <3>1. taken[s] - 1 \in 0..Packets(s)
      BY <1>3, <3>0
    <3>2. End(s, taken[s] - 1) \in Nat
      BY <3>1, Cuts
    <3>3. End(s, taken[s] - 1) < n + m
      BY <1>2, <1>3, <3>2
    <3> QED
      BY <1>1, <1>3, <2>1, <3>3 DEF Begun, End
  <2> QED
    BY <1>1, <1>3, <1>9, <2>1, <2>2, <2>3, <2>4 DEF SessionInv, Left, Behind, Buffered
<1> QED
  BY <1>1, <1>2, <1>8, <1>9, <1>10, <1>11, <1>12, OneSession

(* The index moves past them.                                              *)
LEMMA AdvanceInv ==
    ASSUME SequentialInv, NEW s \in Session, Advance(s)
    PROVE  SequentialInv'
<1>1. /\ pc[s] = "advance" /\ Running(s) /\ index' = index + r[s]
      /\ pc' = [pc EXCEPT ![s] = "consume"]
      /\ UNCHANGED <<remaining, payload, up, taken, seqI, want, r, got>>
  BY DEF Advance, Running, Goto, locals
<1>2. /\ TypeOK /\ SessionInv(s) /\ \A t \in Session \ {s} : ~Running(t)
      /\ \A k \in 1..Len(got[s]) : got[s][k] = <<s, k>>
      /\ remaining \in Nat /\ index \in Nat /\ BufferSize \in Nat /\ r[s] \in Nat
  BY <1>1, TheOne
<1>3. /\ pc'[s] = "consume" /\ \A t \in Session \ {s} : pc'[t] = pc[t]
      /\ pc' \in [Session -> Phase]
  BY <1>1, <1>2 DEF TypeOK, Phase
<1>4. /\ r[s] <= remaining /\ seqI[s] = 2 * taken[s]
      /\ Len(got[s]) + (remaining - r[s]) = End(s, taken[s])
      /\ index + r[s] + (remaining - r[s]) <= BufferSize
      /\ Buffered(s, index + r[s], remaining - r[s])
      /\ taken[s] >= 1 /\ End(s, taken[s] - 1) < Len(got[s])
  BY <1>1, <1>2 DEF SessionInv, Left, Behind, Begun
<1>5. index' \in 0..BufferSize
  BY <1>1, <1>2, <1>4
<1>6. TypeOK'
  BY <1>1, <1>2, <1>3, <1>5 DEF TypeOK
<1>7. SessionInv(s)'
  BY <1>1, <1>3, <1>4 DEF SessionInv, Left, Behind, Buffered, Begun
<1> QED
  BY <1>1, <1>2, <1>3, <1>6, <1>7, OneSession

(* They are no longer in the statics.                                      *)
LEMMA ConsumeInv ==
    ASSUME SequentialInv, NEW s \in Session, Consume(s)
    PROVE  SequentialInv'
<1>1. /\ pc[s] = "consume" /\ Running(s) /\ remaining' = remaining - r[s]
      /\ pc' = [pc EXCEPT ![s] = "idle"]
      /\ UNCHANGED <<index, payload, up, taken, seqI, want, r, got>>
  BY DEF Consume, Running, Goto, locals
<1>2. /\ TypeOK /\ SessionInv(s) /\ \A t \in Session \ {s} : ~Running(t)
      /\ \A k \in 1..Len(got[s]) : got[s][k] = <<s, k>>
      /\ remaining \in Nat /\ remaining <= BufferSize /\ BufferSize \in Nat /\ r[s] \in Nat
  BY <1>1, TheOne
<1>3. /\ pc'[s] = "idle" /\ \A t \in Session \ {s} : pc'[t] = pc[t]
      /\ pc' \in [Session -> Phase]
  BY <1>1, <1>2 DEF TypeOK, Phase
<1>4. /\ r[s] <= remaining /\ seqI[s] = 2 * taken[s]
      /\ Len(got[s]) + (remaining - r[s]) = End(s, taken[s])
      /\ index + (remaining - r[s]) <= BufferSize
      /\ Buffered(s, index, remaining - r[s])
      /\ taken[s] >= 1 /\ End(s, taken[s] - 1) < Len(got[s])
  BY <1>1, <1>2 DEF SessionInv, Left, Behind, Begun
<1>5. remaining' \in 0..BufferSize
  BY <1>1, <1>2, <1>4
<1>6. TypeOK'
  BY <1>1, <1>2, <1>3, <1>5 DEF TypeOK
<1>7. SessionInv(s)'
  BY <1>1, <1>3, <1>4 DEF SessionInv, Left, Behind, Buffered, Begun
<1> QED
  BY <1>1, <1>2, <1>3, <1>6, <1>7, OneSession

(* A lost connection, or no step at all.                                   *)
LEMMA UntouchedInv ==
    ASSUME SequentialInv, UNCHANGED <<remaining, index, payload, pc, taken, seqI, want, r, got>>,
           up' \in [Session -> BOOLEAN]
    PROVE  SequentialInv'
<1>1. TypeOK'
  BY DEF SequentialInv, TypeOK
<1>2. SessionIsolation' /\ DrainedBetweenSessions'
  BY DEF SequentialInv, SessionIsolation, DrainedBetweenSessions
<1>3. \A s \in Session : (SessionInv(s)' <=> SessionInv(s)) /\ (Running(s)' <=> Running(s))
  BY DEF SessionInv, Running, Left, Behind, Buffered, Begun
<1> QED
  BY <1>1, <1>2, <1>3 DEF SequentialInv

-----------------------------------------------------------------------------
(* A server that meets its clients one after the other, none of which uses *)
(* up the sequence numbers or gets an answer with a part of a payload      *)
(* unread, always has in the statics what the session that runs is to read *)
(* next, and nothing between two of them.                                  *)
THEOREM SequentialInvariant ==
    ASSUME OneAtATime, AnswersAtEnds
    PROVE  Spec => []SequentialInv
<1>1. SequentialInv /\ [Next]_vars => SequentialInv'
  <2> SUFFICES ASSUME SequentialInv, [Next]_vars
               PROVE  SequentialInv'
    OBVIOUS
  <2>1. ASSUME NEW s \in Session, Step(s)
        PROVE  SequentialInv'
    BY <2>1, StartInv, CallInv, LeaveInv, CheckInv, FetchInv, PublishInv, ResetInv, MeasureInv,
       CopyInv, AdvanceInv, ConsumeInv DEF Step
  <2>2. ASSUME NEW s \in Session, Drop(s)
        PROVE  SequentialInv'
    <3>1. up' = [up EXCEPT ![s] = FALSE]
          /\ UNCHANGED <<remaining, index, payload, pc, taken, seqI, want, r, got>>
      BY <2>2 DEF Drop, statics
    <3>2. up' \in [Session -> BOOLEAN]
      BY <3>1 DEF SequentialInv, TypeOK
    <3> QED
      BY <3>1, <3>2, UntouchedInv
  <2>3. CASE Done \/ UNCHANGED vars
    <3>1. UNCHANGED <<remaining, index, payload, pc, up, taken, seqI, want, r, got>>
      BY <2>3 DEF Done, vars
    <3>2. up' \in [Session -> BOOLEAN]
      BY <3>1 DEF SequentialInv, TypeOK
    <3> QED
      BY <3>1, <3>2, UntouchedInv
  <2> QED
    BY <2>1, <2>2, <2>3 DEF Next
<1> QED
  BY InitInv, <1>1, PTL DEF Spec

(* The statics stay in the payload buffer, and no count is negative.       *)
THEOREM StaticsInBounds ==
    ASSUME OneAtATime, AnswersAtEnds
    PROVE  Spec => []TypeOK
<1>1. SequentialInv => TypeOK
  BY DEF SequentialInv
<1> QED
  BY SequentialInvariant, <1>1, PTL

(* Every session reads its own bytes, in order.                            *)
THEOREM SessionsAreIsolated ==
    ASSUME OneAtATime, AnswersAtEnds
    PROVE  Spec => []SessionIsolation
<1>1. SequentialInv => SessionIsolation
  BY DEF SequentialInv
<1> QED
  BY SequentialInvariant, <1>1, PTL

(* Such a session leaves nothing for the next one, whether it has read     *)
(* all, loses the connection, or ends where it answers.                    *)
THEOREM StaticsAreDrained ==
    ASSUME OneAtATime, AnswersAtEnds
    PROVE  Spec => []DrainedBetweenSessions
<1>1. SequentialInv => DrainedBetweenSessions
  BY DEF SequentialInv
<1> QED
  BY SequentialInvariant, <1>1, PTL
=============================================================================
