-------------------------- MODULE FileServerProofs --------------------------
(***************************************************************************)
(* Proofs about FileServer for every set of sessions, names and inodes and *)
(* all sizes: what concurrent sessions and a crash can do to the files of  *)
(* root/, and what they can not.                                           *)
(***************************************************************************)
EXTENDS FileServer, SequenceTheorems, TLAPS

-----------------------------------------------------------------------------
(* Lemmas about the operators of the model.                                *)

LEMMA BodyIs ==
    ASSUME NEW u, NEW n \in Nat
    PROVE  /\ Body(u, n) \in Seq({u} \X Nat) /\ Len(Body(u, n)) = n
           /\ \A k \in 1..n : Body(u, n)[k] = <<u, k>>
<1>1. Body(u, n) \in [1..n -> {u} \X Nat]
  BY DEF Body
<1>2. Body(u, n) \in Seq({u} \X Nat)
  BY <1>1, SeqDef
<1>3. DOMAIN Body(u, n) = 1..n /\ \A k \in 1..n : Body(u, n)[k] = <<u, k>>
  BY DEF Body
<1>4. Len(Body(u, n)) = n
  BY <1>1, <1>2, LenProperties
<1> QED
  BY <1>2, <1>3, <1>4

(* A sequence is an upload's beginning if its bytes are.                   *)
LEMMA IsBody ==
    ASSUME NEW S, NEW s \in Seq(S), NEW u, \A k \in 1..Len(s) : s[k] = <<u, k>>
    PROVE  s = Body(u, Len(s))
<1>1. Len(s) \in Nat
  BY LenProperties
<1>2. Body(u, Len(s)) \in Seq({u} \X Nat) /\ Len(Body(u, Len(s))) = Len(s)
      /\ \A k \in 1..Len(s) : Body(u, Len(s))[k] = <<u, k>>
  BY <1>1, BodyIs
<1>3. s \in Seq(S \union ({u} \X Nat)) /\ Body(u, Len(s)) \in Seq(S \union ({u} \X Nat))
  BY <1>2, SeqMonotonic
<1> QED
  BY <1>2, <1>3, SeqEqual

(* The beginning of an upload is what a file that is pure may hold.        *)
Pure(x) == x = <<>> \/ x = Body(x[1][1], Len(x))

LEMMA BodyIsPure ==
    ASSUME NEW u, NEW n \in Nat
    PROVE  Pure(Body(u, n))
<1>1. /\ Body(u, n) \in Seq({u} \X Nat) /\ Len(Body(u, n)) = n
      /\ \A k \in 1..n : Body(u, n)[k] = <<u, k>>
  BY BodyIs
<1>2. CASE n = 0
  BY <1>1, <1>2, EmptySeq DEF Pure
<1>3. CASE n # 0
  <2>1. Body(u, n)[1] = <<u, 1>>
    BY <1>1, <1>3
  <2> QED
    BY <2>1, <1>1 DEF Pure
<1> QED
  BY <1>2, <1>3

LEMMA EmptyBody == \A u : Body(u, 0) = <<>>
<1> SUFFICES ASSUME NEW u PROVE Body(u, 0) = <<>>
  OBVIOUS
<1>1. Body(u, 0) \in Seq({u} \X Nat) /\ Len(Body(u, 0)) = 0
  BY BodyIs
<1> QED
  BY <1>1, EmptySeq

(* The fields of a handler.                                                *)
LEMMA Fields ==
    ASSUME TypeOK, NEW s \in Session
    PROVE  /\ h[s] \in Handler /\ h[s].pc \in Phase
           /\ h[s].name \in Name \union {None} /\ h[s].file \in Inode \union {None}
           /\ h[s].size \in Nat /\ h[s].pos \in Nat /\ h[s].recvd \in Nat
           /\ h[s].sent \in Seq(Bytes) /\ h[s].held \in Seq(Bytes)
           /\ Busy(s) => /\ h[s].name \in Name /\ h[s].file \in Inode
                         /\ data[h[s].file] \in Seq(Bytes) /\ Len(data[h[s].file]) \in Nat
           /\ Upload(s) \in Session \X Nat
<1>1. h[s] \in Handler
  BY DEF TypeOK
<1>2. /\ h[s].pc \in Phase
      /\ h[s].name \in Name \union {None} /\ h[s].file \in Inode \union {None}
      /\ h[s].size \in Nat /\ h[s].pos \in Nat /\ h[s].recvd \in Nat
      /\ h[s].sent \in Seq(Bytes) /\ h[s].held \in Seq(Bytes)
  BY <1>1 DEF Handler
<1>3. Busy(s) => h[s].name \in Name /\ h[s].file \in Inode
  BY <1>2 DEF TypeOK
<1>4. Busy(s) => data[h[s].file] \in Seq(Bytes) /\ Len(data[h[s].file]) \in Nat
  BY <1>3, LenProperties DEF TypeOK
<1>5. Upload(s) \in Session \X Nat
  BY DEF Upload, TypeOK
<1> QED
  BY <1>1, <1>2, <1>3, <1>4, <1>5

LEMMA IdleType == /\ Idle \in Handler /\ Idle.pc = "idle"
                  /\ Idle.name = None /\ Idle.file = None
BY DEF Idle, Handler, Phase

(* What a write makes of the file: a sequence of bytes, each at its place, *)
(* and the upload's beginning if it was a shorter beginning before.        *)
LEMMA WrittenIs ==
    ASSUME FilesInv, NEW s \in Session, Storing(s), NEW n \in Nat, h[s].pos <= n
    PROVE  /\ Written(s, n) \in Seq(Bytes)
           /\ \A k \in 1..Len(Written(s, n)) :
                Written(s, n)[k] = Hole \/ Written(s, n)[k][2] = k
           /\ data[h[s].file] = Body(Upload(s), h[s].pos)
                => Written(s, n) = Body(Upload(s), n)
<1> DEFINE old == data[h[s].file]
           len == IF Len(old) < n THEN n ELSE Len(old)
           new(k) == IF k \in h[s].pos + 1 .. n THEN <<Upload(s), k>>
                     ELSE IF k <= Len(old) THEN old[k] ELSE Hole
<1>1. /\ h[s].file \in Inode /\ old \in Seq(Bytes) /\ Len(old) \in Nat
      /\ Upload(s) \in Session \X Nat /\ h[s].pos \in Nat
  BY Fields DEF FilesInv, Storing, Busy
<1>2. Written(s, n) = [k \in 1..len |-> new(k)]
  BY DEF Written, Content
<1>3. len \in Nat
  BY <1>1
<1>4. ASSUME NEW k \in 1..len
      PROVE  new(k) \in Bytes /\ (new(k) = Hole \/ new(k)[2] = k)
  <2>1. CASE k \in h[s].pos + 1 .. n
    BY <2>1, <1>1 DEF Bytes
  <2>2. CASE k \notin h[s].pos + 1 .. n /\ k <= Len(old)
    <3>1. k \in 1..Len(old)
      BY <2>2, <1>1, <1>3
    <3>2. old[k] \in Bytes
      BY <3>1, <1>1, ElementOfSeq
    <3>3. old[k] = Hole \/ old[k][2] = k
      BY <3>1, <1>1 DEF FilesInv, BytesInPlace
    <3> QED
      BY <2>2, <3>2, <3>3
  <2>3. CASE k \notin h[s].pos + 1 .. n /\ ~(k <= Len(old))
    BY <2>3 DEF Bytes
  <2> QED
    BY <2>1, <2>2, <2>3
<1> HIDE DEF new, len
<1>5. Written(s, n) \in [1..len -> Bytes]
  BY <1>2, <1>4
<1>6. Written(s, n) \in Seq(Bytes) /\ Len(Written(s, n)) = len
  BY <1>3, <1>5, SeqDef, LenProperties
<1>7. \A k \in 1..len : Written(s, n)[k] = new(k)
  BY <1>2
<1>8. ASSUME old = Body(Upload(s), h[s].pos)
      PROVE  Written(s, n) = Body(Upload(s), n)
  <2>1. /\ Len(Body(Upload(s), h[s].pos)) = h[s].pos
        /\ \A k \in 1..h[s].pos : Body(Upload(s), h[s].pos)[k] = <<Upload(s), k>>
    BY <1>1, BodyIs
  <2>2. Len(old) = h[s].pos
    BY <1>8, <2>1
  <2>3. \A k \in 1..h[s].pos : old[k] = <<Upload(s), k>>
    BY <1>8, <2>1
  <2>4. len = n
    BY <1>1, <2>2 DEF len
  <2>5. \A k \in 1..n : new(k) = <<Upload(s), k>>
    <3> HIDE DEF old
    <3> QED
      BY <1>1, <2>2, <2>3 DEF new
  <2> QED
    BY <1>6, <1>7, <2>4, <2>5, IsBody
<1> QED
  BY <1>4, <1>6, <1>7, <1>8
-----------------------------------------------------------------------------
(* The invariant, session by session.                                      *)

Downloading(t) == h[t].pc \in {"opened", "sending"}

(* No two uploads share a file that is not overlaid.                       *)
Sole ==
    \A s, t \in Session :
        Storing(s) /\ Storing(t) /\ h[s].file = h[t].file /\ h[s].file \notin overlaid => s = t

UpData(t) ==
    Storing(t) /\ (t \notin touched \/ h[t].file \notin overlaid)
        => data[h[t].file] = Body(Upload(t), h[t].pos)

UpName(t) == Storing(t) /\ t \notin unlinked => dir[h[t].name] = h[t].file

Down(t) ==
    Downloading(t) /\ t \notin touched =>
        /\ data[h[t].file] = h[t].held
        /\ h[t].pos <= Len(h[t].held)
        /\ h[t].sent = SubSeq(h[t].held, 1, h[t].pos)
        /\ h[t].pc = "sending" => h[t].size = Len(h[t].held)

SessionOK(t) == UpData(t) /\ UpName(t) /\ Down(t)

LEMMA Parts ==
    ASSUME FilesInv
    PROVE  /\ TypeOK /\ BytesInPlace /\ FilesArePure /\ Sole
           /\ \A t \in Session : SessionOK(t)
BY DEF FilesInv, UploadInv, DownloadInv, Sole, SessionOK, UpData, UpName, Down, Downloading

LEMMA Whole ==
    ASSUME TypeOK', BytesInPlace', FilesArePure', Sole', \A t \in Session : SessionOK(t)'
    PROVE  FilesInv'
BY DEF FilesInv, UploadInv, DownloadInv, Sole, SessionOK, UpData, UpName, Down, Downloading

(* A session is as well off as before if its handler did nothing, its file *)
(* is the same or it counts as touched, and its name leads where it led or *)
(* it counts as unlinked.                                                  *)
LEMMA Frame ==
    ASSUME FilesInv, NEW t \in Session,
           h'[t] = h[t], uploads'[t] = uploads[t],
           \/ ~Busy(t)
           \/ /\ data'[h[t].file] = data[h[t].file]
              /\ t \in touched => t \in touched'
              /\ h[t].file \in overlaid => h[t].file \in overlaid'
           \/ t \in touched' /\ (Storing(t) => h[t].file \in overlaid'),
           \/ ~Storing(t)
           \/ t \in unlinked'
           \/ dir'[h[t].name] = dir[h[t].name] /\ t \notin unlinked
    PROVE  SessionOK(t)'
<1>1. UpData(t) /\ UpName(t) /\ Down(t)
  BY Parts DEF SessionOK
<1>2. Upload(t)' = Upload(t)
  BY DEF Upload
<1>3. UpData(t)'
  BY <1>1, <1>2 DEF UpData, Storing, Busy
<1>4. UpName(t)'
  BY <1>1 DEF UpName, Storing
<1>5. Down(t)'
  BY <1>1 DEF Down, Downloading, Busy
<1> QED
  BY <1>3, <1>4, <1>5 DEF SessionOK

(* A session without a command has nothing to keep.                        *)
LEMMA IdleIsOK ==
    ASSUME NEW t \in Session, h'[t].pc = "idle"
    PROVE  SessionOK(t)'
BY DEF SessionOK, UpData, UpName, Down, Downloading, Storing

-----------------------------------------------------------------------------
(* The types after each action.                                            *)

(* What TypeOK asks of one session.                                        *)
Cursors(t) ==
    /\ Busy(t) <=> h[t].file # None
    /\ Busy(t) <=> h[t].name # None
    /\ h[t].pc = "storing" => h[t].pos <= h[t].recvd /\ h[t].recvd <= h[t].size

(* A step changes the handler of one session; whoever is touched or        *)
(* unlinked has a file open.                                               *)
LEMMA TypeOfStep ==
    ASSUME TypeOK, NEW s \in Session, NEW r \in Handler,
           h' = [h EXCEPT ![s] = r],
           dir' \in [Name -> Inode \union {None}], data' \in [Inode -> Seq(Bytes)],
           uploads' \in [Session -> Nat], commands' \in [Session -> Nat], crashed' = crashed,
           r.pc # "idle" <=> r.file # None, r.pc # "idle" <=> r.name # None,
           r.pc = "storing" => r.pos <= r.recvd /\ r.recvd <= r.size,
           \A t \in touched' \union unlinked' : t \in Session /\ (t = s => r.pc # "idle")
                                                              /\ (t # s => Busy(t)),
           overlaid' \subseteq Inode
    PROVE  TypeOK'
<1>1. h' \in [Session -> Handler] /\ h'[s] = r /\ \A t \in Session \ {s} : h'[t] = h[t]
  BY DEF TypeOK
<1>2. ASSUME NEW t \in Session
      PROVE  Cursors(t)'
  <2>1. CASE t = s
    BY <1>1, <2>1 DEF Cursors, Busy
  <2>2. CASE t # s
    <3>1. Cursors(t)
      BY DEF TypeOK, Cursors
    <3> QED
      BY <1>1, <2>2, <3>1 DEF Cursors, Busy
  <2> QED
    BY <2>1, <2>2
<1>3. touched' \union unlinked' \subseteq {t \in Session : Busy(t)'}
  BY <1>1 DEF Busy
<1>4. crashed' \in BOOLEAN
  BY DEF TypeOK
<1> QED
  BY <1>1, <1>2, <1>3, <1>4 DEF TypeOK, Cursors

(* What a session that opens a file has on its stack.                      *)
LEMMA OpenedType ==
    ASSUME TypeOK, NEW phase \in Phase, NEW f \in Name, NEW i \in Inode, NEW n \in Nat
    PROVE  LET r == Opened(phase, f, i, n)
           IN  /\ r \in Handler /\ r.pc = phase /\ r.name = f /\ r.file = i /\ r.size = n
               /\ r.pos = 0 /\ r.recvd = 0 /\ r.sent = <<>> /\ r.held = data[i]
<1>1. data[i] \in Seq(Bytes)
  BY DEF TypeOK
<1> QED
  BY <1>1, IdleType DEF Opened, Idle, Handler

LEMMA NoneIsNothing == None \notin Inode /\ None \notin Name
BY FileServerAssumption

LEMMA ReturnType ==
    ASSUME FilesInv, NEW s \in Session, Return(s), data' \in [Inode -> Seq(Bytes)],
           \A t \in touched' : t \in Session \ {s} /\ Busy(t)
    PROVE  TypeOK'
<1>1. TypeOK
  BY DEF FilesInv
<1>2. h' = [h EXCEPT ![s] = Idle] /\ unlinked' = unlinked \ {s}
      /\ UNCHANGED <<dir, uploads, commands, crashed, overlaid>>
  BY DEF Return
<1>3. \A t \in touched' \union unlinked' : t \in Session \ {s} /\ Busy(t)
  BY <1>1, <1>2 DEF TypeOK
<1>4. /\ dir' \in [Name -> Inode \union {None}]
      /\ uploads' \in [Session -> Nat] /\ commands' \in [Session -> Nat]
      /\ overlaid' \subseteq Inode
  BY <1>1, <1>2 DEF TypeOK
<1> HIDE DEF Return
<1> QED
  BY <1>1, <1>2, <1>3, <1>4, IdleType, TypeOfStep

LEMMA TypeOfDele ==
    ASSUME FilesInv, NEW s \in Session, NEW f \in Name, Dele(s, f)
    PROVE  TypeOK'
<1>1. TypeOK /\ None \notin Name
  BY NoneIsNothing DEF FilesInv
<1>2. /\ dir' = [dir EXCEPT ![f] = None] /\ commands' = [commands EXCEPT ![s] = @ + 1]
      /\ unlinked' = unlinked \union {t \in Session : h[t].name = f}
      /\ UNCHANGED <<data, h, uploads, crashed, touched, overlaid>>
  BY DEF Dele, Begin
<1>3. \A t \in Session : h[t].name = f => Busy(t)
  BY <1>1 DEF TypeOK
<1>4. touched' \union unlinked' \subseteq {t \in Session : Busy(t)'}
  BY <1>1, <1>2, <1>3 DEF TypeOK, Busy
<1>5. dir' \in [Name -> Inode \union {None}] /\ commands' \in [Session -> Nat]
  BY <1>1, <1>2 DEF TypeOK
<1> QED
  BY <1>1, <1>2, <1>4, <1>5 DEF TypeOK, Busy

LEMMA TypeOfRetr ==
    ASSUME FilesInv, NEW s \in Session,
           \/ \E f \in Name : RetrOpen(s, f)
           \/ RetrMeasure(s) \/ RetrRead(s) \/ RetrDone(s) \/ RetrAbort(s)
    PROVE  TypeOK'
<1>1. TypeOK /\ None \notin Inode /\ None \notin Name
  BY NoneIsNothing DEF FilesInv
<1>2. /\ \A t \in touched \union unlinked : t \in Session /\ Busy(t)
      /\ dir \in [Name -> Inode \union {None}] /\ data \in [Inode -> Seq(Bytes)]
      /\ uploads \in [Session -> Nat] /\ commands \in [Session -> Nat]
      /\ overlaid \subseteq Inode
  BY <1>1 DEF TypeOK
<1>3. ASSUME NEW f \in Name, RetrOpen(s, f)
      PROVE  TypeOK'
  <2> DEFINE r == Opened("opened", f, dir[f], 0)
  <2>1. /\ dir[f] \in Inode /\ h' = [h EXCEPT ![s] = r]
        /\ commands' \in [Session -> Nat]
        /\ UNCHANGED <<dir, data, uploads, crashed, touched, unlinked, overlaid>>
    BY <1>1, <1>2, <1>3 DEF RetrOpen, Begin, histories
  <2>2. /\ r \in Handler /\ r.pc = "opened" /\ r.name = f /\ r.file = dir[f]
    BY <1>1, <2>1, OpenedType DEF Phase
  <2> HIDE DEF r
  <2>3. \A t \in touched' \union unlinked' : t \in Session /\ (t = s => r.pc # "idle")
                                                          /\ (t # s => Busy(t))
    BY <1>2, <2>1, <2>2
  <2>4. /\ r.pc # "idle" <=> r.file # None
        /\ r.pc # "idle" <=> r.name # None
        /\ r.pc # "storing"
    BY <1>1, <2>1, <2>2
  <2> QED
    BY <1>1, <1>2, <2>1, <2>2, <2>3, <2>4, TypeOfStep
<1>4. ASSUME RetrMeasure(s) \/ RetrRead(s)
      PROVE  TypeOK'
  <2>1. /\ h[s].pc \in {"opened", "sending"} /\ Busy(s)
        /\ UNCHANGED <<dir, data, uploads, commands, crashed, touched, unlinked, overlaid>>
    BY <1>4 DEF RetrMeasure, RetrRead, histories, Busy
  <2>2. /\ h[s] \in Handler /\ h[s].pos \in Nat /\ h[s].sent \in Seq(Bytes)
        /\ h[s].file \in Inode /\ h[s].name \in Name
        /\ Content(s) \in Seq(Bytes) /\ Len(Content(s)) \in Nat
    BY <1>1, <2>1, Fields DEF Content
  <2>3. PICK r \in Handler : /\ h' = [h EXCEPT ![s] = r]
                             /\ r.pc = "sending" /\ r.file = h[s].file /\ r.name = h[s].name
    <3>1. CASE RetrMeasure(s)
      <4> DEFINE r == [h[s] EXCEPT !.size = Len(data[h[s].file]), !.pc = "sending"]
      <4>1. h' = [h EXCEPT ![s] = r]
        BY <3>1 DEF RetrMeasure
      <4>2. /\ r \in Handler /\ r.pc = "sending" /\ r.file = h[s].file /\ r.name = h[s].name
        BY <2>2 DEF Handler, Content, Phase
      <4> QED
        BY <4>1, <4>2
    <3>2. CASE RetrRead(s)
      <4> DEFINE left == Len(Content(s)) - h[s].pos
                 n    == IF left < ReadAhead THEN left ELSE ReadAhead
                 more == SubSeq(Content(s), h[s].pos + 1, h[s].pos + n)
                 r    == [h[s] EXCEPT !.sent = @ \o more, !.pos = @ + n]
      <4>1. h' = [h EXCEPT ![s] = r] /\ left > 0 /\ h[s].pc = "sending"
        BY <3>2 DEF RetrRead
      <4>2. n \in Nat /\ h[s].pos + 1 \in Nat /\ h[s].pos + n \in Nat /\ h[s].pos + n <= Len(Content(s))
        <5>1. ReadAhead \in Nat
          BY FileServerAssumption
        <5>2. left \in Nat
          BY <2>2, <4>1
        <5> HIDE DEF left
        <5>3. n \in Nat /\ n <= left
          BY <5>1, <5>2
        <5> HIDE DEF n
        <5> QED
          BY <2>2, <5>2, <5>3 DEF left
      <4> HIDE DEF n, left
      <4>3. more \in Seq(Bytes)
        <5>1. \A k \in h[s].pos + 1 .. h[s].pos + n : Content(s)[k] \in Bytes
          <6> TAKE k \in h[s].pos + 1 .. h[s].pos + n
          <6>1. k \in 1..Len(Content(s))
            BY <2>2, <4>2
          <6> QED
            BY <2>2, <6>1, ElementOfSeq
        <5> QED
          BY <2>2, <4>2, <5>1, SubSeqProperties
      <4> HIDE DEF more
      <4>4. h[s].sent \o more \in Seq(Bytes)
        BY <2>2, <4>3, ConcatProperties
      <4>5. h[s].pos + n \in Nat
        BY <4>2
      <4>6. /\ r \in Handler /\ r.pc = "sending" /\ r.file = h[s].file /\ r.name = h[s].name
        BY <2>2, <4>1, <4>4, <4>5 DEF Handler
      <4> QED
        BY <4>1, <4>6
    <3> QED
      BY <1>4, <3>1, <3>2
  <2>4. \A t \in touched' \union unlinked' : t \in Session /\ (t = s => r.pc # "idle")
                                                          /\ (t # s => Busy(t))
    BY <1>2, <2>1, <2>3
  <2>5. /\ r.pc # "idle" <=> r.file # None
        /\ r.pc # "idle" <=> r.name # None
        /\ r.pc # "storing"
    BY <1>1, <2>2, <2>3
  <2> QED
    BY <1>1, <1>2, <2>1, <2>3, <2>4, <2>5, TypeOfStep
<1>5. ASSUME RetrDone(s) \/ RetrAbort(s)
      PROVE  TypeOK'
  <2>1. Return(s) /\ touched' = touched \ {s} /\ data' = data
    BY <1>5 DEF RetrDone, RetrAbort
  <2>2. \A t \in touched' : t \in Session \ {s} /\ Busy(t)
    BY <1>2, <2>1
  <2>3. data' \in [Inode -> Seq(Bytes)]
    BY <1>2, <2>1
  <2> HIDE DEF Return, Busy
  <2> QED
    BY <2>1, <2>2, <2>3, ReturnType
<1> QED
  BY <1>3, <1>4, <1>5

(* Where an upload is opened: the file its name leads to, or one that      *)
(* nothing leads to and nobody has open.                                   *)
LEMMA StorOpenIs ==
    ASSUME FilesInv, NEW s \in Session, NEW f \in Name, NEW n \in Nat, StorOpen(s, f, n)
    PROVE  \E i \in Inode :
             /\ dir[f] # None => i = dir[f]
             /\ dir[f] = None => i \in Unused
             /\ h[s].pc = "idle" /\ commands' \in [Session -> Nat]
             /\ uploads' = [uploads EXCEPT ![s] = @ + 1] /\ uploads' \in [Session -> Nat]
             /\ data' = Truncate(i) /\ dir' = [dir EXCEPT ![f] = i]
             /\ h' = [h EXCEPT ![s] = Opened("storing", f, i, n)]
             /\ touched' = touched \union Sharers(s, i)
             /\ overlaid' = IF \E t \in Sharers(s, i) : h[t].pc = "storing"
                             THEN overlaid \union {i} ELSE overlaid \ {i}
             /\ UNCHANGED <<crashed, unlinked>>
<1>1. /\ dir \in [Name -> Inode \union {None}] /\ uploads \in [Session -> Nat]
      /\ commands \in [Session -> Nat]
  BY DEF FilesInv, TypeOK
<1>2. PICK i \in IF dir[f] # None THEN {dir[f]} ELSE Unused :
             /\ data' = Truncate(i) /\ dir' = [dir EXCEPT ![f] = i]
             /\ h' = [h EXCEPT ![s] = Opened("storing", f, i, n)]
             /\ touched' = touched \union Sharers(s, i)
             /\ overlaid' = IF \E t \in Sharers(s, i) : h[t].pc = "storing"
                             THEN overlaid \union {i} ELSE overlaid \ {i}
  BY DEF StorOpen
<1>3. /\ i \in Inode
      /\ dir[f] # None => i = dir[f]
      /\ dir[f] = None => i \in Unused
  BY <1>1, <1>2 DEF Unused
<1>4. /\ h[s].pc = "idle" /\ commands' = [commands EXCEPT ![s] = @ + 1]
      /\ uploads' = [uploads EXCEPT ![s] = @ + 1]
      /\ UNCHANGED <<crashed, unlinked>>
  BY DEF StorOpen, Begin
<1>5. commands' \in [Session -> Nat] /\ uploads' \in [Session -> Nat]
  BY <1>1, <1>4
<1> HIDE DEF Truncate, Opened, Sharers, Unused
<1> QED
  BY <1>2, <1>3, <1>4, <1>5

LEMMA TypeOfStorOpen ==
    ASSUME FilesInv, NEW s \in Session, NEW f \in Name, NEW n \in Nat, StorOpen(s, f, n)
    PROVE  TypeOK'
<1>1. TypeOK /\ None \notin Inode /\ None \notin Name
  BY NoneIsNothing DEF FilesInv
<1>2. PICK i \in Inode :
             /\ h[s].pc = "idle" /\ commands' \in [Session -> Nat]
             /\ uploads' \in [Session -> Nat]
             /\ data' = Truncate(i) /\ dir' = [dir EXCEPT ![f] = i]
             /\ h' = [h EXCEPT ![s] = Opened("storing", f, i, n)]
             /\ touched' = touched \union Sharers(s, i)
             /\ overlaid' \in {overlaid \union {i}, overlaid \ {i}}
             /\ UNCHANGED <<crashed, unlinked>>
  BY StorOpenIs
<1> DEFINE r == Opened("storing", f, i, n)
<1>3. /\ r \in Handler /\ r.pc = "storing" /\ r.name = f /\ r.file = i /\ r.size = n
      /\ r.pos = 0 /\ r.recvd = 0
  BY <1>1, OpenedType DEF Phase
<1> HIDE DEF r
<1>4. data' \in [Inode -> Seq(Bytes)]
  <2>1. <<>> \in Seq(Bytes)
    BY EmptySeq
  <2> QED
    BY <1>1, <1>2, <2>1 DEF Truncate, TypeOK
<1>5. dir' \in [Name -> Inode \union {None}] /\ overlaid' \subseteq Inode
  BY <1>1, <1>2 DEF TypeOK
<1>6. \A t \in touched' \union unlinked' : t \in Session /\ (t = s => r.pc # "idle")
                                                        /\ (t # s => Busy(t))
  <2> TAKE t \in touched' \union unlinked'
  <2>1. t \in touched \union unlinked => t \in Session /\ Busy(t)
    BY <1>1 DEF TypeOK
  <2>2. t \in Sharers(s, i) => t \in Session /\ Busy(t)
    BY <1>1 DEF TypeOK, Sharers
  <2> QED
    BY <1>2, <1>3, <2>1, <2>2
<1>7. h' = [h EXCEPT ![s] = r]
  BY <1>2 DEF r
<1>8. /\ r.pc # "idle" <=> r.file # None
      /\ r.pc # "idle" <=> r.name # None
      /\ r.pc = "storing" => r.pos <= r.recvd /\ r.recvd <= r.size
  BY <1>1, <1>3
<1> QED
  BY <1>1, <1>2, <1>3, <1>4, <1>5, <1>6, <1>7, <1>8, TypeOfStep

(* What receiving a fragment may do.                                       *)
LEMMA StorChunkIs ==
    ASSUME FilesInv, NEW s \in Session, StorChunk(s)
    PROVE  /\ Storing(s)
           /\ UNCHANGED <<dir, uploads, commands, crashed, unlinked, overlaid>>
           /\ \E recvd \in Nat :
                /\ h[s].pos <= recvd /\ recvd <= h[s].size
                /\ \/ /\ h' = [h EXCEPT ![s] = [@ EXCEPT !.recvd = recvd]]
                      /\ UNCHANGED <<data, touched>>
                   \/ /\ h' = [h EXCEPT ![s] = [@ EXCEPT !.recvd = recvd, !.pos = recvd]]
                      /\ data' = [data EXCEPT ![h[s].file] = Written(s, recvd)]
                      /\ touched' = touched \union Sharers(s, h[s].file)
<1>1. Storing(s)
  BY DEF StorChunk, Storing
<1>2. /\ h[s].recvd \in Nat /\ h[s].pos \in Nat /\ h[s].size \in Nat /\ h[s].pos <= h[s].recvd
  BY <1>1, Fields DEF FilesInv, TypeOK, Storing
<1>3. PICK n \in Fragments(s) :
         \/ /\ h' = [h EXCEPT ![s].recvd = h[s].recvd + n]
            /\ UNCHANGED <<data, touched>>
         \/ /\ h' = [h EXCEPT ![s].recvd = h[s].recvd + n, ![s].pos = h[s].recvd + n]
            /\ data' = [data EXCEPT ![h[s].file] = Written(s, h[s].recvd + n)]
            /\ touched' = touched \union Sharers(s, h[s].file)
  BY DEF StorChunk
<1>4. n \in Nat /\ h[s].recvd + n \in Nat /\ h[s].pos <= h[s].recvd + n
      /\ h[s].recvd + n <= h[s].size
  BY <1>2, FileServerAssumption DEF Fragments
<1> HIDE DEF Written, Sharers, Storing
<1>5. UNCHANGED <<dir, uploads, commands, crashed, unlinked, overlaid>>
  BY DEF StorChunk
<1> QED
  BY <1>1, <1>3, <1>4, <1>5

(* What a write does to the files: only the one that s has open changes.   *)
LEMMA WriteType ==
    ASSUME FilesInv, NEW s \in Session, Storing(s), NEW n \in Nat, h[s].pos <= n,
           data' = [data EXCEPT ![h[s].file] = Written(s, n)]
    PROVE  /\ h[s].file \in Inode /\ data' \in [Inode -> Seq(Bytes)]
           /\ data'[h[s].file] = Written(s, n)
           /\ \A i \in Inode \ {h[s].file} : data'[i] = data[i]
<1>1. h[s].file \in Inode
  BY Fields DEF FilesInv, Storing, Busy
<1>2. Written(s, n) \in Seq(Bytes)
  BY WrittenIs
<1>3. data \in [Inode -> Seq(Bytes)]
  BY DEF FilesInv, TypeOK
<1> QED
  BY <1>1, <1>2, <1>3

LEMMA SharersAreBusy ==
    ASSUME TypeOK, NEW s \in Session, NEW i \in Inode
    PROVE  \A t \in Sharers(s, i) : t \in Session \ {s} /\ Busy(t)
BY NoneIsNothing DEF Sharers, TypeOK

LEMMA TypeOfStorChunk ==
    ASSUME FilesInv, NEW s \in Session, StorChunk(s)
    PROVE  TypeOK'
<1>1. TypeOK /\ None \notin Inode /\ None \notin Name
  BY NoneIsNothing DEF FilesInv
<1>2. Storing(s) /\ UNCHANGED <<dir, uploads, commands, crashed, unlinked, overlaid>>
  BY StorChunkIs
<1>3. /\ h[s] \in Handler /\ h[s].pos \in Nat /\ h[s].recvd \in Nat /\ h[s].size \in Nat
      /\ h[s].file \in Inode /\ h[s].name \in Name /\ h[s].pc = "storing"
      /\ h[s].pos <= h[s].recvd /\ h[s].recvd <= h[s].size
  BY <1>1, <1>2, Fields DEF Storing, Busy, TypeOK
<1>4. PICK recvd \in Nat :
                /\ h[s].pos <= recvd /\ recvd <= h[s].size
                /\ \/ /\ h' = [h EXCEPT ![s] = [@ EXCEPT !.recvd = recvd]]
                      /\ UNCHANGED <<data, touched>>
                   \/ /\ h' = [h EXCEPT ![s] = [@ EXCEPT !.recvd = recvd, !.pos = recvd]]
                      /\ data' = [data EXCEPT ![h[s].file] = Written(s, recvd)]
                      /\ touched' = touched \union Sharers(s, h[s].file)
  BY StorChunkIs
<1>5. PICK r \in Handler :
        /\ h' = [h EXCEPT ![s] = r] /\ r.pc = "storing"
        /\ r.file = h[s].file /\ r.name = h[s].name
        /\ r.pos <= r.recvd /\ r.recvd <= r.size
  <2>1. CASE h' = [h EXCEPT ![s] = [@ EXCEPT !.recvd = recvd]]
    <3> DEFINE r == [h[s] EXCEPT !.recvd = recvd]
    <3>1. r \in Handler /\ r.recvd = recvd /\ r.pos = h[s].pos /\ r.size = h[s].size
          /\ r.pc = "storing" /\ r.file = h[s].file /\ r.name = h[s].name
      BY <1>3 DEF Handler
    <3> QED
      BY <1>4, <2>1, <3>1
  <2>2. CASE h' = [h EXCEPT ![s] = [@ EXCEPT !.recvd = recvd, !.pos = recvd]]
    <3> DEFINE r == [h[s] EXCEPT !.recvd = recvd, !.pos = recvd]
    <3>1. r \in Handler /\ r.recvd = recvd /\ r.pos = recvd /\ r.size = h[s].size
          /\ r.pc = "storing" /\ r.file = h[s].file /\ r.name = h[s].name
      BY <1>3 DEF Handler
    <3>2. h' = [h EXCEPT ![s] = r]
      BY <2>2
    <3>3. r.pos <= r.recvd /\ r.recvd <= r.size
      BY <1>4, <3>1
    <3> HIDE DEF r
    <3> QED
      BY <3>1, <3>2, <3>3
  <2> QED
    BY <1>4, <2>1, <2>2
<1>6. data' \in [Inode -> Seq(Bytes)]
  <2>1. CASE data' = data
    BY <1>1, <2>1 DEF TypeOK
  <2>2. CASE data' = [data EXCEPT ![h[s].file] = Written(s, recvd)]
    BY <1>2, <1>4, <2>2, WriteType
  <2> QED
    BY <1>4, <2>1, <2>2
<1>7. \A t \in touched' \union unlinked' : t \in Session /\ (t = s => r.pc # "idle")
                                                        /\ (t # s => Busy(t))
  <2> TAKE t \in touched' \union unlinked'
  <2>1. t \in touched \union unlinked => t \in Session /\ Busy(t)
    BY <1>1 DEF TypeOK
  <2>2. t \in Sharers(s, h[s].file) => t \in Session /\ Busy(t)
    BY <1>1, <1>3, SharersAreBusy
  <2>3. touched' \subseteq touched \union Sharers(s, h[s].file)
    BY <1>4
  <2> QED
    BY <1>2, <1>5, <2>1, <2>2, <2>3
<1>8. /\ r.pc # "idle" <=> r.file # None
      /\ r.pc # "idle" <=> r.name # None
  BY <1>1, <1>3, <1>5
<1>9. /\ dir' \in [Name -> Inode \union {None}] /\ overlaid' \subseteq Inode
      /\ uploads' \in [Session -> Nat] /\ commands' \in [Session -> Nat]
  BY <1>1, <1>2 DEF TypeOK
<1> QED
  BY <1>1, <1>2, <1>5, <1>6, <1>7, <1>8, <1>9, TypeOfStep

LEMMA TypeOfStorClose ==
    ASSUME FilesInv, NEW s \in Session, StorClose(s)
    PROVE  TypeOK'
<1>1. TypeOK /\ Storing(s) /\ Return(s)
  BY DEF FilesInv, StorClose, Storing
<1>2. h[s].file \in Inode /\ h[s].recvd \in Nat /\ h[s].pos \in Nat
  BY <1>1, Fields DEF Storing, Busy
<1>3. data' \in [Inode -> Seq(Bytes)]
  <2>1. CASE data' = data
    BY <1>1, <2>1 DEF TypeOK
  <2>2. CASE h[s].recvd > h[s].pos /\ data' = [data EXCEPT ![h[s].file] = Written(s, h[s].recvd)]
    <3>1. h[s].pos <= h[s].recvd
      BY <1>2, <2>2
    <3> HIDE DEF Written
    <3> QED
      BY <1>1, <1>2, <2>2, <3>1, WriteType
  <2> QED
    BY <2>1, <2>2 DEF StorClose
<1>4. \A t \in touched' : t \in Session \ {s} /\ Busy(t)
  <2> TAKE t \in touched'
  <2>1. t # s /\ t \in touched \union Sharers(s, h[s].file)
    BY DEF StorClose
  <2>2. t \in touched => t \in Session /\ Busy(t)
    BY <1>1 DEF TypeOK
  <2>3. t \in Sharers(s, h[s].file) => t \in Session /\ Busy(t)
    BY <1>1, <1>2, SharersAreBusy
  <2> QED
    BY <2>1, <2>2, <2>3
<1> QED
  BY <1>1, <1>3, <1>4, ReturnType

LEMMA TypeOfCrash ==
    ASSUME FilesInv, Crash
    PROVE  TypeOK'
BY IdleType, NoneIsNothing DEF FilesInv, TypeOK, Crash, Busy

-----------------------------------------------------------------------------
(* The rest of the invariant after each action.                            *)

(* Reading on: what was read and the piece after it are what is read now.  *)
LEMMA ReadOn ==
    ASSUME NEW S, NEW q \in Seq(S), NEW m \in Nat, NEW n \in Nat, m + n <= Len(q)
    PROVE  SubSeq(q, 1, m) \o SubSeq(q, m + 1, m + n) = SubSeq(q, 1, m + n)
<1> DEFINE a == SubSeq(q, 1, m)
           b == SubSeq(q, m + 1, m + n)
           c == SubSeq(q, 1, m + n)
<1>1. Len(q) \in Nat /\ \A k \in 1..Len(q) : q[k] \in S
  BY LenProperties, ElementOfSeq
<1>2. a \in Seq(S) /\ Len(a) = m /\ \A k \in 1..m : a[k] = q[k]
  <2>1. \A k \in 1..m : q[k] \in S
    BY <1>1
  <2>2. /\ a \in Seq(S)
        /\ Len(a) = IF 1 <= m THEN m - 1 + 1 ELSE 0
        /\ \A k \in 1 .. m - 1 + 1 : a[k] = q[1 + k - 1]
    BY <2>1, SubSeqProperties
  <2> QED
    BY <2>2
<1>3. b \in Seq(S) /\ Len(b) = n /\ \A k \in 1..n : b[k] = q[m + k]
  <2>1. \A k \in m + 1 .. m + n : q[k] \in S
    BY <1>1
  <2>2. /\ b \in Seq(S)
        /\ Len(b) = IF m + 1 <= m + n THEN m + n - (m + 1) + 1 ELSE 0
        /\ \A k \in 1 .. m + n - (m + 1) + 1 : b[k] = q[m + 1 + k - 1]
    <3>1. m + 1 \in Int /\ m + n \in Int
      OBVIOUS
    <3> QED
      BY <2>1, <3>1, SubSeqProperties
  <2>3. Len(b) = n
    BY <2>2
  <2> HIDE DEF b
  <2>4. ASSUME NEW k \in 1..n
        PROVE  b[k] = q[m + k]
    <3>1. k \in 1 .. m + n - (m + 1) + 1 /\ m + 1 + k - 1 = m + k
      OBVIOUS
    <3> QED
      BY <2>2, <3>1
  <2> QED
    BY <2>2, <2>3, <2>4
<1>4. c \in Seq(S) /\ Len(c) = m + n /\ \A k \in 1 .. m + n : c[k] = q[k]
  <2>1. \A k \in 1 .. m + n : q[k] \in S
    BY <1>1
  <2>2. /\ c \in Seq(S)
        /\ Len(c) = IF 1 <= m + n THEN m + n - 1 + 1 ELSE 0
        /\ \A k \in 1 .. m + n - 1 + 1 : c[k] = q[1 + k - 1]
    BY <2>1, SubSeqProperties
  <2> QED
    BY <2>2
<1> HIDE DEF a, b, c
<1>5. /\ a \o b \in Seq(S) /\ Len(a \o b) = m + n
      /\ \A k \in 1 .. m + n : (a \o b)[k] = IF k <= m THEN a[k] ELSE b[k - m]
  BY <1>2, <1>3, ConcatProperties
<1>6. ASSUME NEW k \in 1 .. m + n
      PROVE  (a \o b)[k] = c[k]
  <2>1. CASE k <= m
    BY <1>2, <1>4, <1>5, <2>1
  <2>2. CASE ~(k <= m)
    <3>1. k - m \in 1..n /\ m + (k - m) = k
      BY <2>2
    <3> QED
      BY <1>3, <1>4, <1>5, <2>2, <3>1
  <2> QED
    BY <2>1, <2>2
<1>7. a \o b = c
  BY <1>4, <1>5, <1>6, SeqEqual
<1> QED
  BY <1>7 DEF a, b, c

(* A session that is not storing, or goes on with the file it has, does    *)
(* not come to share one.                                                  *)
LEMMA SoleFrame ==
    ASSUME Sole, NEW s \in Session, overlaid' = overlaid,
           \A t \in Session \ {s} : h'[t] = h[t],
           h'[s].pc = "storing" => Storing(s) /\ h'[s].file = h[s].file
    PROVE  Sole'
BY DEF Sole, Storing

LEMMA FilesFrame ==
    ASSUME FilesInv, UNCHANGED <<dir, data, overlaid>>
    PROVE  BytesInPlace' /\ FilesArePure'
BY DEF FilesInv, BytesInPlace, FilesArePure

LEMMA DeleKeeps ==
    ASSUME FilesInv, NEW s \in Session, NEW f \in Name, Dele(s, f)
    PROVE  FilesInv'
<1>1. TypeOK' /\ TypeOK /\ BytesInPlace /\ FilesArePure /\ Sole
  BY TypeOfDele, Parts
<1>2. /\ dir' = [dir EXCEPT ![f] = None]
      /\ unlinked' = unlinked \union {t \in Session : h[t].name = f}
      /\ UNCHANGED <<data, h, uploads, crashed, touched, overlaid>>
  BY DEF Dele
<1>3. dir \in [Name -> Inode \union {None}]
  BY <1>1 DEF TypeOK
<1>4. BytesInPlace'
  BY <1>1, <1>2 DEF BytesInPlace
<1>5. FilesArePure'
  <2>1. \A g, k \in Name : dir'[g] = dir'[k] /\ dir'[g] # None => g = k
    BY <1>1, <1>2, <1>3 DEF FilesArePure
  <2> QED
    BY <1>1, <1>2, <2>1 DEF FilesArePure
<1>6. Sole'
  BY <1>1, <1>2 DEF Sole, Storing
<1>7. ASSUME NEW t \in Session
      PROVE  SessionOK(t)'
  <2>1. CASE ~Storing(t) \/ t \in unlinked'
    BY <1>2, <2>1, Frame
  <2>2. CASE Storing(t) /\ t \notin unlinked'
    <3>1. h[t].name \in Name /\ h[t].name # f /\ t \notin unlinked
      BY <1>1, <1>2, <2>2, Fields DEF Storing, Busy
    <3>2. dir'[h[t].name] = dir[h[t].name]
      BY <1>2, <1>3, <3>1
    <3> QED
      BY <1>2, <3>1, <3>2, Frame
  <2> QED
    BY <2>1, <2>2
<1> QED
  BY <1>1, <1>4, <1>5, <1>6, <1>7, Whole

(* Whatever a session does that changes no file and no name, the others    *)
(* are as they were.                                                       *)
LEMMA OthersKeep ==
    ASSUME FilesInv, TypeOK', NEW s \in Session,
           UNCHANGED <<dir, data, uploads, overlaid>>,
           \A t \in Session \ {s} :
             h'[t] = h[t] /\ (t \in touched' <=> t \in touched) /\ (t \in unlinked' <=> t \in unlinked),
           h'[s].pc = "storing" => Storing(s) /\ h'[s].file = h[s].file,
           SessionOK(s)'
    PROVE  FilesInv'
<1>1. BytesInPlace' /\ FilesArePure' /\ Sole'
  BY Parts, FilesFrame, SoleFrame
<1>2. ASSUME NEW t \in Session \ {s}
      PROVE  SessionOK(t)'
  BY Frame
<1> QED
  BY <1>1, <1>2, Whole

LEMMA RetrKeeps ==
    ASSUME FilesInv, NEW s \in Session,
           \/ \E f \in Name : RetrOpen(s, f)
           \/ RetrMeasure(s) \/ RetrRead(s) \/ RetrDone(s) \/ RetrAbort(s)
    PROVE  FilesInv'
<1>1. TypeOK' /\ TypeOK /\ Down(s) /\ h \in [Session -> Handler]
  BY TypeOfRetr, Parts DEF SessionOK, TypeOK
<1>2. ASSUME NEW f \in Name, RetrOpen(s, f)
      PROVE  FilesInv'
  <2> DEFINE r == Opened("opened", f, dir[f], 0)
  <2>1. dir[f] \in Inode /\ h' = [h EXCEPT ![s] = r]
        /\ UNCHANGED <<dir, data, uploads, touched, unlinked, overlaid>>
    BY <1>1, <1>2 DEF RetrOpen, histories, TypeOK
  <2>2. /\ r.pc = "opened" /\ r.file = dir[f] /\ r.pos = 0
        /\ r.sent = <<>> /\ r.held = data[dir[f]] /\ r.held \in Seq(Bytes)
    BY <1>1, <2>1, OpenedType DEF Phase, TypeOK
  <2> HIDE DEF r
  <2>3. h'[s] = r /\ \A t \in Session \ {s} : h'[t] = h[t]
    BY <1>1, <2>1
  <2>4. SubSeq(r.held, 1, 0) = <<>> /\ 0 <= Len(r.held)
    BY <2>2, SubSeqEmpty, LenProperties
  <2>5. SessionOK(s)'
    BY <2>1, <2>2, <2>3, <2>4 DEF SessionOK, UpData, UpName, Down, Downloading, Storing
  <2> QED
    BY <1>1, <2>1, <2>2, <2>3, <2>5, OthersKeep
<1>3. ASSUME RetrMeasure(s)
      PROVE  FilesInv'
  <2>1. /\ h[s].pc = "opened"
        /\ h' = [h EXCEPT ![s] = [h[s] EXCEPT !.size = Len(data[h[s].file]), !.pc = "sending"]]
        /\ UNCHANGED <<dir, data, uploads, touched, unlinked, overlaid>>
    BY <1>3 DEF RetrMeasure, histories
  <2>2. /\ h'[s].pc = "sending" /\ h'[s].size = Len(data[h[s].file]) /\ h'[s].file = h[s].file
        /\ h'[s].held = h[s].held /\ h'[s].pos = h[s].pos /\ h'[s].sent = h[s].sent
    <3>1. h[s] \in Handler
      BY <1>1
    <3> QED
      BY <1>1, <2>1, <3>1 DEF Handler
  <2>3. \A t \in Session \ {s} : h'[t] = h[t]
    BY <1>1, <2>1
  <2>4. SessionOK(s)'
    BY <1>1, <2>1, <2>2 DEF SessionOK, UpData, UpName, Down, Downloading, Storing
  <2> QED
    BY <1>1, <2>1, <2>2, <2>3, <2>4, OthersKeep
<1>4. ASSUME RetrRead(s)
      PROVE  FilesInv'
  <2> DEFINE left == Len(Content(s)) - h[s].pos
             n    == IF left < ReadAhead THEN left ELSE ReadAhead
             more == SubSeq(Content(s), h[s].pos + 1, h[s].pos + n)
  <2>1. /\ h[s].pc = "sending" /\ left > 0
        /\ h' = [h EXCEPT ![s] = [h[s] EXCEPT !.sent = h[s].sent \o more, !.pos = h[s].pos + n]]
        /\ UNCHANGED <<dir, data, uploads, touched, unlinked, overlaid>>
    BY <1>4 DEF RetrRead, histories
  <2>2. /\ h[s] \in Handler /\ h[s].pos \in Nat
        /\ Content(s) = data[h[s].file] /\ Content(s) \in Seq(Bytes) /\ Len(Content(s)) \in Nat
    BY <1>1, <2>1, Fields DEF Content, Busy
  <2>3. n \in Nat /\ h[s].pos + n <= Len(Content(s))
    BY <2>1, <2>2, FileServerAssumption
  <2> HIDE DEF left, n
  <2>4. SubSeq(Content(s), 1, h[s].pos) \o more = SubSeq(Content(s), 1, h[s].pos + n)
    BY <2>2, <2>3, ReadOn
  <2> HIDE DEF more
  <2>5. /\ h'[s].pc = "sending" /\ h'[s].file = h[s].file /\ h'[s].size = h[s].size
        /\ h'[s].held = h[s].held /\ h'[s].pos = h[s].pos + n /\ h'[s].sent = h[s].sent \o more
    BY <1>1, <2>1, <2>2 DEF Handler
  <2>6. \A t \in Session \ {s} : h'[t] = h[t]
    BY <1>1, <2>1
  <2>7. SessionOK(s)'
    <3>1. CASE s \in touched
      BY <2>1, <2>5, <3>1 DEF SessionOK, UpData, UpName, Down, Downloading, Storing
    <3>2. CASE s \notin touched
      <4>1. /\ Content(s) = h[s].held /\ h[s].sent = SubSeq(h[s].held, 1, h[s].pos)
            /\ h[s].size = Len(h[s].held)
        BY <1>1, <2>1, <2>2, <3>2 DEF Down, Downloading
      <4>2. h'[s].sent = SubSeq(h'[s].held, 1, h'[s].pos) /\ h'[s].pos <= Len(h'[s].held)
        BY <2>3, <2>4, <2>5, <4>1
      <4>3. data'[h'[s].file] = h'[s].held /\ h'[s].size = Len(h'[s].held)
        BY <2>1, <2>2, <2>5, <4>1
      <4> QED
        BY <2>5, <4>2, <4>3 DEF SessionOK, UpData, UpName, Down, Downloading, Storing
    <3> QED
      BY <3>1, <3>2
  <2> QED
    BY <1>1, <2>1, <2>5, <2>6, <2>7, OthersKeep
<1>5. ASSUME RetrDone(s) \/ RetrAbort(s)
      PROVE  FilesInv'
  <2>1. /\ h' = [h EXCEPT ![s] = Idle]
        /\ touched' = touched \ {s} /\ unlinked' = unlinked \ {s}
        /\ UNCHANGED <<dir, data, uploads, overlaid>>
    BY <1>5 DEF RetrDone, RetrAbort, Return
  <2>2. h'[s].pc = "idle" /\ \A t \in Session \ {s} : h'[t] = h[t]
    BY <1>1, <2>1, IdleType
  <2>3. SessionOK(s)'
    BY <2>2, IdleIsOK
  <2> QED
    BY <1>1, <2>1, <2>2, <2>3, OthersKeep
<1> QED
  BY <1>2, <1>3, <1>4, <1>5

LEMMA StorOpenKeeps ==
    ASSUME FilesInv, NEW s \in Session, NEW f \in Name, NEW n \in Nat, StorOpen(s, f, n)
    PROVE  FilesInv'
<1>1. /\ TypeOK' /\ TypeOK /\ BytesInPlace /\ FilesArePure /\ Sole /\ None \notin Inode
      /\ h \in [Session -> Handler] /\ data \in [Inode -> Seq(Bytes)]
      /\ dir \in [Name -> Inode \union {None}]
  BY TypeOfStorOpen, Parts, NoneIsNothing DEF TypeOK
<1>2. PICK i \in Inode :
             /\ dir[f] # None => i = dir[f]
             /\ dir[f] = None => i \in Unused
             /\ h[s].pc = "idle"
             /\ uploads' = [uploads EXCEPT ![s] = @ + 1] /\ uploads' \in [Session -> Nat]
             /\ data' = Truncate(i) /\ dir' = [dir EXCEPT ![f] = i]
             /\ h' = [h EXCEPT ![s] = Opened("storing", f, i, n)]
             /\ touched' = touched \union Sharers(s, i)
             /\ overlaid' = IF \E t \in Sharers(s, i) : h[t].pc = "storing"
                             THEN overlaid \union {i} ELSE overlaid \ {i}
             /\ UNCHANGED unlinked
  BY StorOpenIs
<1> DEFINE r == Opened("storing", f, i, n)
<1>3. /\ r.pc = "storing" /\ r.name = f /\ r.file = i /\ r.pos = 0
      /\ h'[s] = r /\ \A t \in Session \ {s} : h'[t] = h[t]
  BY <1>1, <1>2, OpenedType DEF Phase
<1> HIDE DEF r
<1>4. data'[i] = <<>> /\ \A j \in Inode \ {i} : data'[j] = data[j]
  BY <1>1, <1>2 DEF Truncate
<1>5. dir'[f] = i /\ \A g \in Name \ {f} : dir'[g] = dir[g]
  BY <1>1, <1>2
<1>6. \A j \in Inode \ {i} : j \in overlaid' <=> j \in overlaid
  BY <1>2
<1>7. BytesInPlace'
  <2> SUFFICES ASSUME NEW j \in Inode, NEW k \in 1..Len(data'[j])
               PROVE  data'[j][k] = Hole \/ data'[j][k][2] = k
    BY DEF BytesInPlace, Hole
  <2>1. CASE j = i
    BY <1>4, <2>1, EmptySeq
  <2>2. CASE j # i
    BY <1>1, <1>4, <2>2 DEF BytesInPlace
  <2> QED
    BY <2>1, <2>2
<1>8. FilesArePure'
  <2>1. \A g \in Name \ {f} : dir[g] # i
    BY <1>1, <1>2 DEF FilesArePure, Unused
  <2>2. ASSUME NEW g \in Name, NEW k \in Name, dir'[g] = dir'[k], dir'[g] # None
        PROVE  g = k
    BY <1>1, <1>5, <2>1, <2>2 DEF FilesArePure
  <2>3. ASSUME NEW j \in Inode \ overlaid'
        PROVE  data'[j] = <<>> \/ data'[j] = Body(data'[j][1][1], Len(data'[j]))
    BY <1>1, <1>4, <1>6, <2>3 DEF FilesArePure
  <2> QED
    BY <2>2, <2>3 DEF FilesArePure
<1>9. Sole'
  <2> SUFFICES ASSUME NEW t \in Session, NEW u \in Session,
                      Storing(t)', Storing(u)', h'[t].file = h'[u].file,
                      h'[t].file \notin overlaid', t # u
               PROVE  FALSE
    BY DEF Sole
  <2>1. ASSUME NEW v \in Session \ {s}, Storing(v)', h'[v].file = i
        PROVE  i \in overlaid'
    BY <1>2, <1>3, <2>1 DEF Sharers, Storing
  <2>2. CASE h'[t].file = i
    BY <1>3, <2>1, <2>2
  <2>3. CASE h'[t].file # i
    <3>1. t \in Session \ {s} /\ u \in Session \ {s}
      BY <1>3, <2>3
    <3>2. Storing(t) /\ Storing(u) /\ h[t].file = h[u].file /\ h[t].file # i
      BY <1>3, <2>3, <3>1 DEF Storing
    <3>3. h[t].file \in Inode
      BY <1>1, <3>2, Fields DEF Storing, Busy
    <3>4. h[t].file \notin overlaid
      BY <1>3, <1>6, <3>1, <3>2, <3>3
    <3> QED
      BY <1>1, <3>2, <3>4 DEF Sole
  <2> QED
    BY <2>2, <2>3
<1>10. ASSUME NEW t \in Session \ {s}
       PROVE  SessionOK(t)'
  <2>1. h'[t] = h[t] /\ uploads'[t] = uploads[t]
    BY <1>1, <1>2, <1>3 DEF TypeOK
  <2>2. \/ ~Busy(t)
        \/ /\ data'[h[t].file] = data[h[t].file]
           /\ t \in touched => t \in touched'
           /\ h[t].file \in overlaid => h[t].file \in overlaid'
        \/ t \in touched' /\ (Storing(t) => h[t].file \in overlaid')
    <3>1. CASE h[t].file = i
      BY <1>2, <3>1 DEF Sharers, Storing
    <3>2. CASE h[t].file # i /\ Busy(t)
      <4>1. h[t].file \in Inode
        BY <1>1, <3>2, Fields
      <4> QED
        BY <1>2, <1>4, <1>6, <3>2, <4>1
    <3> QED
      BY <3>1, <3>2
  <2>3. \/ ~Storing(t)
        \/ t \in unlinked'
        \/ dir'[h[t].name] = dir[h[t].name] /\ t \notin unlinked
    <3>1. CASE Storing(t) /\ t \notin unlinked
      <4>1. h[t].name \in Name /\ h[t].file \in Inode /\ dir[h[t].name] = h[t].file
        BY <1>1, <3>1, Fields, Parts DEF Storing, Busy, SessionOK, UpName
      <4> QED
        BY <1>1, <1>2, <1>5, <3>1, <4>1
    <3> QED
      BY <1>2, <3>1
  <2> QED
    BY <2>1, <2>2, <2>3, Frame
<1>11. SessionOK(s)'
  <2>1. UpData(s)'
    BY <1>3, <1>4, EmptyBody DEF UpData
  <2>2. UpName(s)'
    BY <1>3, <1>5 DEF UpName
  <2>3. Down(s)'
    BY <1>3 DEF Down, Downloading
  <2> QED
    BY <2>1, <2>2, <2>3 DEF SessionOK
<1> QED
  BY <1>1, <1>7, <1>8, <1>9, <1>10, <1>11, Whole

(* A write, in the middle of an upload or at its end.                      *)
LEMMA WriteKeeps ==
    ASSUME FilesInv, TypeOK', NEW s \in Session, Storing(s),
           NEW n \in Nat, h[s].pos <= n,
           data' = [data EXCEPT ![h[s].file] = Written(s, n)],
           UNCHANGED <<dir, uploads, overlaid>>,
           \A t \in Session \ {s} :
             /\ h'[t] = h[t] /\ (t \in unlinked' <=> t \in unlinked)
             /\ t \in touched' <=> t \in touched \union Sharers(s, h[s].file),
           h'[s].pc = "storing" => h'[s].file = h[s].file,
           SessionOK(s)'
    PROVE  FilesInv'
<1>1. TypeOK /\ BytesInPlace /\ FilesArePure /\ Sole /\ UpData(s)
  BY Parts DEF SessionOK
<1>2. /\ h[s].file \in Inode
      /\ data'[h[s].file] = Written(s, n)
      /\ \A i \in Inode \ {h[s].file} : data'[i] = data[i]
  BY WriteType
<1>3. /\ \A k \in 1..Len(Written(s, n)) :
           Written(s, n)[k] = Hole \/ Written(s, n)[k][2] = k
      /\ data[h[s].file] = Body(Upload(s), h[s].pos)
           => Written(s, n) = Body(Upload(s), n)
  BY WrittenIs
<1>4. BytesInPlace'
  <2> SUFFICES ASSUME NEW j \in Inode, NEW k \in 1..Len(data'[j])
               PROVE  data'[j][k] = Hole \/ data'[j][k][2] = k
    BY DEF BytesInPlace, Hole
  <2>1. CASE j = h[s].file
    BY <1>2, <1>3, <2>1
  <2>2. CASE j # h[s].file
    BY <1>1, <1>2, <2>2 DEF BytesInPlace
  <2> QED
    BY <2>1, <2>2
<1>5. FilesArePure'
  <2>1. ASSUME NEW j \in Inode \ overlaid
        PROVE  Pure(data'[j])
    <3>1. CASE j = h[s].file
      <4>1. data'[j] = Body(Upload(s), n)
        BY <1>1, <1>2, <1>3, <3>1 DEF UpData
      <4> QED
        BY <4>1, BodyIsPure
    <3>2. CASE j # h[s].file
      BY <1>1, <1>2, <3>2 DEF FilesArePure, Pure
    <3> QED
      BY <3>1, <3>2
  <2> QED
    BY <1>1, <2>1 DEF FilesArePure, Pure
<1>6. Sole'
  BY <1>1, SoleFrame
<1>7. ASSUME NEW t \in Session \ {s}
      PROVE  SessionOK(t)'
  <2>1. CASE h[t].file = h[s].file
    <3>1. t \in touched'
      BY <2>1 DEF Sharers
    <3>2. Storing(t) => h[t].file \in overlaid'
      BY <1>1, <2>1 DEF Sole
    <3> QED
      BY <3>1, <3>2, Frame
  <2>2. CASE h[t].file # h[s].file
    <3>1. ~Busy(t) \/ data'[h[t].file] = data[h[t].file]
      BY <1>1, <1>2, <2>2, Fields
    <3> QED
      BY <3>1, Frame
  <2> QED
    BY <2>1, <2>2
<1> QED
  BY <1>4, <1>5, <1>6, <1>7, Whole

LEMMA StorChunkKeeps ==
    ASSUME FilesInv, NEW s \in Session, StorChunk(s)
    PROVE  FilesInv'
<1>1. /\ TypeOK' /\ TypeOK /\ UpData(s) /\ UpName(s)
      /\ h \in [Session -> Handler] /\ data \in [Inode -> Seq(Bytes)]
  BY TypeOfStorChunk, Parts DEF SessionOK, TypeOK
<1>2. /\ Storing(s)
      /\ UNCHANGED <<dir, uploads, commands, crashed, unlinked, overlaid>>
  BY StorChunkIs
<1>3. PICK recvd \in Nat :
        /\ h[s].pos <= recvd /\ recvd <= h[s].size
        /\ \/ /\ h' = [h EXCEPT ![s] = [@ EXCEPT !.recvd = recvd]]
              /\ UNCHANGED <<data, touched>>
           \/ /\ h' = [h EXCEPT ![s] = [@ EXCEPT !.recvd = recvd, !.pos = recvd]]
              /\ data' = [data EXCEPT ![h[s].file] = Written(s, recvd)]
              /\ touched' = touched \union Sharers(s, h[s].file)
  BY StorChunkIs
<1>4. h[s] \in Handler /\ h[s].pc = "storing" /\ Upload(s)' = Upload(s)
  BY <1>1, <1>2 DEF Storing, Upload
<1>5. CASE /\ h' = [h EXCEPT ![s] = [@ EXCEPT !.recvd = recvd]]
           /\ UNCHANGED <<data, touched>>
  <2>1. /\ h'[s].pc = "storing" /\ h'[s].file = h[s].file /\ h'[s].name = h[s].name
        /\ h'[s].pos = h[s].pos
        /\ \A t \in Session \ {s} : h'[t] = h[t]
    BY <1>1, <1>4, <1>5 DEF Handler
  <2>2. SessionOK(s)'
    BY <1>1, <1>2, <1>4, <1>5, <2>1 DEF SessionOK, UpData, UpName, Down, Downloading, Storing
  <2> QED
    BY <1>1, <1>2, <1>5, <2>1, <2>2, OthersKeep
<1>6. CASE /\ h' = [h EXCEPT ![s] = [@ EXCEPT !.recvd = recvd, !.pos = recvd]]
           /\ data' = [data EXCEPT ![h[s].file] = Written(s, recvd)]
           /\ touched' = touched \union Sharers(s, h[s].file)
  <2>1. /\ h'[s].pc = "storing" /\ h'[s].file = h[s].file /\ h'[s].name = h[s].name
        /\ h'[s].pos = recvd
        /\ \A t \in Session \ {s} : h'[t] = h[t]
    BY <1>1, <1>4, <1>6 DEF Handler
  <2>2. UpData(s)'
    <3>1. data'[h[s].file] = Written(s, recvd)
      BY <1>2, <1>3, <1>6, WriteType
    <3>2. data[h[s].file] = Body(Upload(s), h[s].pos) => Written(s, recvd) = Body(Upload(s), recvd)
      BY <1>2, <1>3, WrittenIs
    <3>3. s \notin touched' => s \notin touched
      BY <1>6
    <3> QED
      BY <1>1, <1>2, <1>4, <2>1, <3>1, <3>2, <3>3 DEF UpData, Storing
  <2>3. UpName(s)' /\ Down(s)'
    BY <1>1, <1>2, <1>4, <2>1 DEF UpName, Down, Downloading, Storing
  <2>4. SessionOK(s)'
    BY <2>2, <2>3 DEF SessionOK
  <2> QED
    BY <1>1, <1>2, <1>3, <1>6, <2>1, <2>4, WriteKeeps
<1> QED
  BY <1>3, <1>5, <1>6

LEMMA StorCloseKeeps ==
    ASSUME FilesInv, NEW s \in Session, StorClose(s)
    PROVE  FilesInv'
<1>1. TypeOK' /\ TypeOK /\ Storing(s) /\ h \in [Session -> Handler]
  BY TypeOfStorClose DEF FilesInv, TypeOK, StorClose, Storing
<1>2. /\ h' = [h EXCEPT ![s] = Idle] /\ unlinked' = unlinked \ {s}
      /\ UNCHANGED <<dir, uploads, overlaid>>
  BY DEF StorClose, Return
<1>3. h'[s].pc = "idle" /\ \A t \in Session \ {s} : h'[t] = h[t]
  BY <1>1, <1>2, IdleType
<1>4. SessionOK(s)'
  BY <1>3, IdleIsOK
<1>5. CASE data' = data /\ touched' = touched \ {s}
  BY <1>1, <1>2, <1>3, <1>4, <1>5, OthersKeep
<1>6. CASE /\ h[s].recvd > h[s].pos
           /\ data' = [data EXCEPT ![h[s].file] = Written(s, h[s].recvd)]
           /\ touched' = (touched \union Sharers(s, h[s].file)) \ {s}
  <2>1. h[s].recvd \in Nat /\ h[s].pos \in Nat /\ h[s].pos <= h[s].recvd
    BY <1>1, <1>6, Fields
  <2> QED
    BY <1>1, <1>2, <1>3, <1>4, <1>6, <2>1, WriteKeeps
<1> QED
  BY <1>5, <1>6 DEF StorClose

LEMMA CrashKeeps ==
    ASSUME FilesInv, Crash
    PROVE  FilesInv'
<1>1. TypeOK'
  BY TypeOfCrash
<1>2. h' = [s \in Session |-> Idle] /\ UNCHANGED <<dir, data, overlaid>>
  BY DEF Crash
<1>3. \A t \in Session : h'[t].pc = "idle"
  BY <1>2, IdleType
<1>4. BytesInPlace' /\ FilesArePure'
  BY <1>2, FilesFrame
<1>5. Sole'
  BY <1>3 DEF Sole, Storing
<1>6. \A t \in Session : SessionOK(t)'
  BY <1>3, IdleIsOK
<1> QED
  BY <1>1, <1>4, <1>5, <1>6, Whole

LEMMA InitFiles == Init => FilesInv
<1> SUFFICES ASSUME Init PROVE FilesInv
  OBVIOUS
<1>1. /\ h = [s \in Session |-> Idle] /\ overlaid = {} /\ touched = {} /\ unlinked = {}
      /\ data = [i \in Inode |->
                  IF \E f \in Name : dir[f] = i THEN Body(Old, OldSize) ELSE <<>>]
      /\ \A f, g \in Name : f # g /\ dir[f] # None => dir[f] # dir[g]
      /\ dir \in [Name -> Inode \union {None}]
  BY DEF Init
<1>2. /\ Body(Old, OldSize) \in Seq({Old} \X Nat) /\ Len(Body(Old, OldSize)) = OldSize
      /\ \A k \in 1..OldSize : Body(Old, OldSize)[k] = <<Old, k>>
  BY BodyIs, FileServerAssumption
<1>3. Body(Old, OldSize) \in Seq(Bytes) /\ <<>> \in Seq(Bytes)
  <2>1. {Old} \X Nat \subseteq Bytes
    BY DEF Bytes
  <2>2. Body(Old, OldSize) \in Seq(Bytes)
    BY <1>2, <2>1, SeqMonotonic
  <2> QED
    BY <2>2, EmptySeq
<1>4. data \in [Inode -> Seq(Bytes)]
  BY <1>1, <1>3
<1>5. h \in [Session -> Handler] /\ \A s \in Session : h[s] = Idle
  BY <1>1, IdleType
<1>6. TypeOK
  <2>1. \A s \in Session : Cursors(s)
    BY <1>5, IdleType DEF Cursors, Busy
  <2> QED
    BY <1>1, <1>4, <1>5, <2>1 DEF TypeOK, Init, Cursors
<1>7. BytesInPlace
  <2> SUFFICES ASSUME NEW i \in Inode, NEW k \in 1..Len(data[i])
               PROVE  data[i][k] = Hole \/ data[i][k][2] = k
    BY DEF BytesInPlace
  <2>1. CASE data[i] = <<>>
    BY <2>1, EmptySeq
  <2>2. CASE data[i] = Body(Old, OldSize)
    BY <1>2, <2>2
  <2> QED
    BY <1>1, <2>1, <2>2
<1>8. FilesArePure
  <2>1. Pure(Body(Old, OldSize)) /\ Pure(<<>>)
    BY BodyIsPure, FileServerAssumption DEF Pure
  <2>2. \A i \in Inode : Pure(data[i])
    BY <1>1, <2>1
  <2> QED
    BY <1>1, <2>2 DEF FilesArePure, Pure
<1>9. UploadInv /\ DownloadInv
  BY <1>5, IdleType DEF UploadInv, DownloadInv, Storing
<1> QED
  BY <1>6, <1>7, <1>8, <1>9 DEF FilesInv

LEMMA StutterFiles ==
    ASSUME FilesInv, UNCHANGED vars
    PROVE  FilesInv'
BY DEF FilesInv, TypeOK, BytesInPlace, FilesArePure, UploadInv, DownloadInv, vars, histories,
       Busy, Storing, Upload

-----------------------------------------------------------------------------
(* The theorems.                                                           *)

(* The invariant of root/: whatever the sessions do to its files at a time,*)
(* every file and every session that has one open is as FilesInv says.     *)
THEOREM FilesInvariant == Spec => []FilesInv
<1>1. FilesInv /\ [Next]_vars => FilesInv'
  <2> SUFFICES ASSUME FilesInv, [Next]_vars PROVE FilesInv'
    OBVIOUS
  <2>1. ASSUME NEW s \in Session, NEW f \in Name, Dele(s, f) PROVE FilesInv'
    BY <2>1, DeleKeeps
  <2>2. ASSUME NEW s \in Session,
               \/ \E f \in Name : RetrOpen(s, f)
               \/ RetrMeasure(s) \/ RetrRead(s) \/ RetrDone(s) \/ RetrAbort(s)
        PROVE  FilesInv'
    BY <2>2, RetrKeeps
  <2>3. ASSUME NEW s \in Session, NEW f \in Name, NEW n \in 0..MaxSize, StorOpen(s, f, n)
        PROVE  FilesInv'
    <3>1. n \in Nat
      OBVIOUS
    <3> QED
      BY <2>3, <3>1, StorOpenKeeps
  <2>4. ASSUME NEW s \in Session, StorChunk(s) PROVE FilesInv'
    BY <2>4, StorChunkKeeps
  <2>5. ASSUME NEW s \in Session, StorClose(s) PROVE FilesInv'
    BY <2>5, StorCloseKeeps
  <2>6. CASE Crash
    BY <2>6, CrashKeeps
  <2>7. CASE UNCHANGED vars
    BY <2>7, StutterFiles
  <2>8. Done => UNCHANGED vars
    BY DEF Done
  <2> QED
    BY <2>1, <2>2, <2>3, <2>4, <2>5, <2>6, <2>7, <2>8 DEF Next, Step
<1> QED
  BY InitFiles, <1>1, PTL DEF Spec

(* The variables keep their types, and the cursors of an upload stay in    *)
(* their order.                                                            *)
THEOREM FilesTypeCorrect == Spec => []TypeOK
<1>1. FilesInv => TypeOK
  BY DEF FilesInv
<1> QED
  BY FilesInvariant, <1>1, PTL

(* However many sessions truncate and write a file at a time, and whenever *)
(* the process dies, a byte of an upload is at its own place in it.        *)
THEOREM BytesStayInPlace == Spec => []BytesInPlace
<1>1. FilesInv => BytesInPlace
  BY DEF FilesInv
<1> QED
  BY FilesInvariant, <1>1, PTL

(* Two names never lead to one file, and a file that no two uploads had    *)
(* open at a time holds the beginning of one upload and nothing else.      *)
THEOREM FilesStayPure == Spec => []FilesArePure
<1>1. FilesInv => FilesArePure
  BY DEF FilesInv
<1> QED
  BY FilesInvariant, <1>1, PTL

(* A download that nobody disturbs sends the file as it was when it was    *)
(* opened, in as many bytes as its reply announced.                        *)
THEOREM DownloadsAreWhole == Spec => UndisturbedDownload
<1>1. ASSUME FilesInv, NEW s \in Session, RetrDone(s), s \notin touched
      PROVE  h[s].sent = h[s].held /\ Len(h[s].sent) = h[s].size
  <2>1. /\ h[s].pc = "sending" /\ h[s].pos >= Len(data[h[s].file])
        /\ TypeOK /\ Down(s)
    BY <1>1, Parts DEF RetrDone, Content, SessionOK
  <2>2. /\ data[h[s].file] = h[s].held /\ h[s].pos <= Len(h[s].held)
        /\ h[s].sent = SubSeq(h[s].held, 1, h[s].pos) /\ h[s].size = Len(h[s].held)
    BY <1>1, <2>1 DEF Down, Downloading
  <2>3. h[s].held \in Seq(Bytes) /\ h[s].pos \in Nat /\ Len(h[s].held) \in Nat
    BY <2>1, Fields, LenProperties
  <2>4. h[s].pos = Len(h[s].held)
    BY <2>1, <2>2, <2>3
  <2>5. SubSeq(h[s].held, 1, Len(h[s].held)) = h[s].held
    BY <2>3, SubSeqFull
  <2> QED
    BY <2>2, <2>4, <2>5
<1>2. FilesInv => \A s \in Session : RetrDone(s) /\ s \notin touched
                     => h[s].sent = h[s].held /\ Len(h[s].sent) = h[s].size
  BY <1>1
<1> HIDE DEF FilesInv
<1> QED
  BY FilesInvariant, <1>2, PTL DEF UndisturbedDownload

(* An upload received whole that nobody disturbed is what its name leads   *)
(* to when cmd_stor is done.                                               *)
THEOREM UploadsAreWhole == Spec => UndisturbedUpload
<1>1. ASSUME FilesInv, [Next]_vars, NEW s \in Session,
             h[s].pc = "storing", ~Busy(s)', crashed' = crashed,
             h[s].recvd = h[s].size, s \notin touched \union unlinked
      PROVE  dir'[h[s].name] = h[s].file /\ data'[h[s].file] = Body(Upload(s), h[s].size)
  <2>1. TypeOK /\ Storing(s) /\ h \in [Session -> Handler] /\ UpData(s) /\ UpName(s)
    BY <1>1, Parts DEF Storing, SessionOK, TypeOK
  <2>2. /\ h[s] \in Handler /\ h[s].recvd \in Nat /\ h[s].pos \in Nat
        /\ h[s].file \in Inode /\ h[s].pos <= h[s].recvd
    BY <1>1, <2>1, Fields DEF Busy, TypeOK
  <2>3. h'[s] # h[s]
    BY <1>1 DEF Busy
  <2>4. ASSUME NEW t \in Session, Step(t)
        PROVE  t = s /\ StorClose(s)
    <3>1. \E r : h' = [h EXCEPT ![t] = r]
      <4> USE <2>4
      <4>1. CASE \E f \in Name : Dele(t, f)
        BY <4>1, <2>1 DEF Dele
      <4>2. CASE \E f \in Name : RetrOpen(t, f)
        BY <4>2 DEF RetrOpen
      <4>3. CASE \E f \in Name : \E n \in 0..MaxSize : StorOpen(t, f, n)
        BY <4>3 DEF StorOpen
      <4>4. CASE RetrMeasure(t) \/ RetrRead(t)
        BY <4>4 DEF RetrMeasure, RetrRead
      <4>5. CASE RetrDone(t) \/ RetrAbort(t) \/ StorClose(t)
        BY <4>5 DEF RetrDone, RetrAbort, StorClose, Return
      <4>6. CASE StorChunk(t)
        BY <1>1, <4>6, StorChunkIs
      <4> QED
        BY <4>1, <4>2, <4>3, <4>4, <4>5, <4>6 DEF Step
    <3>2. t = s
      BY <2>1, <2>3, <3>1
    <3>3. ~StorChunk(s)
      <4> SUFFICES ASSUME StorChunk(s) PROVE FALSE
        OBVIOUS
      <4>1. \E recvd \in Nat : \/ h' = [h EXCEPT ![s] = [@ EXCEPT !.recvd = recvd]]
                               \/ h' = [h EXCEPT ![s] = [@ EXCEPT !.recvd = recvd, !.pos = recvd]]
        BY <1>1, StorChunkIs
      <4>2. h'[s].pc = "storing"
        BY <1>1, <2>1, <2>2, <4>1 DEF Handler
      <4> QED
        BY <1>1, <4>2 DEF Busy
    <3> QED
      BY <1>1, <2>3, <2>4, <3>2, <3>3
         DEF Step, Dele, RetrOpen, StorOpen, Begin, RetrMeasure, RetrRead, RetrDone, RetrAbort
  <2>5. StorClose(s)
    BY <1>1, <2>3, <2>4 DEF Next, Crash, Done, vars
  <2>6. data[h[s].file] = Body(Upload(s), h[s].pos) /\ dir[h[s].name] = h[s].file
    BY <1>1, <2>1 DEF UpData, UpName
  <2>7. dir' = dir
    BY <2>5 DEF StorClose, Return
  <2>8. CASE h[s].recvd = h[s].pos /\ data' = data
    BY <1>1, <2>6, <2>7, <2>8
  <2>9. CASE data' = [data EXCEPT ![h[s].file] = Written(s, h[s].recvd)]
    <3>1. data'[h[s].file] = Written(s, h[s].recvd)
      BY <1>1, <2>1, <2>2, <2>9, WriteType
    <3>2. Written(s, h[s].recvd) = Body(Upload(s), h[s].recvd)
      BY <1>1, <2>1, <2>2, <2>6, WrittenIs
    <3> QED
      BY <1>1, <2>6, <2>7, <3>1, <3>2
  <2> QED
    BY <2>5, <2>8, <2>9 DEF StorClose
<1>2. FilesInv /\ [Next]_vars =>
        \A s \in Session :
          /\ h[s].pc = "storing" /\ ~Busy(s)' /\ crashed' = crashed
          /\ h[s].recvd = h[s].size /\ s \notin touched \union unlinked
          => dir'[h[s].name] = h[s].file /\ data'[h[s].file] = Body(Upload(s), h[s].size)
  BY <1>1
<1> QED
  BY FilesInvariant, <1>2, PTL DEF Spec, UndisturbedUpload
=============================================================================
