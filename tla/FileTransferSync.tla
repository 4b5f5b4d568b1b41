-------------------------- MODULE FileTransferSync --------------------------
(***************************************************************************)
(* Proofs about FileTransfer in a session where nothing goes wrong but the *)
(* connection: the two programs are in step, and what they transfer is     *)
(* exact, for every set of names and contents, every buffer and line       *)
(* length, and any number of commands.                                     *)
(***************************************************************************)
EXTENDS FileTransferProofs

-----------------------------------------------------------------------------
(* Lemmas about the elements of streams.                                   *)

LEMMA StreamIs ==
    ASSUME NEW T, NEW s, IsStream(s, T)
    PROVE  s \in Seq(T \X BOOLEAN) /\ Len(s) \in Nat /\ (s = <<>> <=> Len(s) = 0)
<1>1. s \in Seq(T \X BOOLEAN)
  BY DEF IsStream
<1> QED
  BY <1>1, LenProperties, EmptySeq

LEMMA DropElements ==
    ASSUME NEW T, NEW s, IsStream(s, T), NEW n \in Nat, n <= Len(s)
    PROVE  /\ Len(Drop(s, n)) = Len(s) - n
           /\ \A k \in 1 .. Len(s) - n : Drop(s, n)[k] = s[n + k]
<1>1. s \in Seq(T \X BOOLEAN) /\ Len(s) \in Nat
  BY StreamIs
<1> QED
  BY <1>1, Piece DEF Drop

(* A stream after a payload has been added.                                *)
LEMMA SentElements ==
    ASSUME NEW T, NEW s, IsStream(s, T), NEW t \in Seq(T)
    PROVE  /\ Len(t) \in Nat /\ Len(s \o Payload(t)) = Len(s) + Len(t)
           /\ \A i \in 1 .. Len(s) : (s \o Payload(t))[i] = s[i]
           /\ \A j \in 1 .. Len(t) : (s \o Payload(t))[Len(s) + j][1] = t[j]
<1>1. s \in Seq(T \X BOOLEAN) /\ Len(s) \in Nat /\ Len(t) \in Nat
  BY StreamIs, LenProperties
<1>2. Payload(t) \in Seq(T \X BOOLEAN) /\ Len(Payload(t)) = Len(t)
  BY PayloadIs DEF IsStream
<1>3. \A j \in 1 .. Len(t) : Payload(t)[j][1] = t[j]
  BY DEF Payload
<1>4. /\ Len(s \o Payload(t)) = Len(s) + Len(t)
      /\ \A i \in 1 .. Len(s) + Len(t) :
           (s \o Payload(t))[i] = IF i <= Len(s) THEN s[i] ELSE Payload(t)[i - Len(s)]
  <2> DEFINE p == Payload(t)
  <2> HIDE DEF p
  <2>1. /\ Len(s \o p) = Len(s) + Len(p)
        /\ \A i \in 1 .. Len(s) + Len(p) : (s \o p)[i] = IF i <= Len(s) THEN s[i] ELSE p[i - Len(s)]
    BY <1>1, <1>2, ConcatProperties DEF p
  <2>2. Len(p) = Len(t)
    BY <1>2 DEF p
  <2>3. /\ Len(s \o p) = Len(s) + Len(t)
        /\ \A i \in 1 .. Len(s) + Len(t) : (s \o p)[i] = IF i <= Len(s) THEN s[i] ELSE p[i - Len(s)]
    BY <2>1, <2>2
  <2> QED
    BY <2>3, Zenon DEF p
<1>5. \A i \in 1 .. Len(s) : (s \o Payload(t))[i] = s[i]
  BY <1>1, <1>4
<1>6. ASSUME NEW j \in 1 .. Len(t)
      PROVE  (s \o Payload(t))[Len(s) + j][1] = t[j]
  <2>1. Len(s) + j \in 1 .. Len(s) + Len(t) /\ ~(Len(s) + j <= Len(s)) /\ Len(s) + j - Len(s) = j
    BY <1>1
  <2> QED
    BY <1>3, <1>4, <2>1
<1> QED
  BY <1>1, <1>4, <1>5, <1>6

LEMMA CutElements ==
    ASSUME NEW T, NEW s, IsStream(s, T), NEW i \in {0} \union PayloadEnds(s)
    PROVE  /\ Len(SubSeq(s, 1, i)) \in Nat /\ Len(SubSeq(s, 1, i)) <= Len(s)
           /\ \A k \in 1 .. Len(SubSeq(s, 1, i)) : SubSeq(s, 1, i)[k] = s[k]
<1>1. s \in Seq(T \X BOOLEAN) /\ Len(s) \in Nat
  BY StreamIs
<1>2. i \in Nat /\ i <= Len(s)
  BY <1>1 DEF PayloadEnds
<1>3. /\ Len(SubSeq(s, 0 + 1, i)) = i - 0
      /\ \A k \in 1 .. i - 0 : SubSeq(s, 0 + 1, i)[k] = s[0 + k]
  BY <1>1, <1>2, Piece
<1>4. Len(SubSeq(s, 1, i)) = i /\ \A k \in 1..i : SubSeq(s, 1, i)[k] = s[k]
  BY <1>2, <1>3
<1> QED
  BY <1>2, <1>4

(* The first n tokens of a stream, without their marks.                    *)
LEMMA PieceElements ==
    ASSUME NEW T, NEW s, IsStream(s, T), NEW n \in Nat, n <= Len(s)
    PROVE  /\ Tokens(SubSeq(s, 1, n)) \in Seq(T) /\ Len(Tokens(SubSeq(s, 1, n))) = n
           /\ \A k \in 1..n : Tokens(SubSeq(s, 1, n))[k] = s[k][1]
<1>1. s \in Seq(T \X BOOLEAN)
  BY StreamIs
<1>2. /\ SubSeq(s, 0 + 1, n) \in Seq(T \X BOOLEAN) /\ Len(SubSeq(s, 0 + 1, n)) = n - 0
      /\ \A k \in 1 .. n - 0 : SubSeq(s, 0 + 1, n)[k] = s[0 + k]
  BY <1>1, Piece
<1>3. /\ SubSeq(s, 1, n) \in Seq(T \X BOOLEAN) /\ Len(SubSeq(s, 1, n)) = n
      /\ \A k \in 1..n : SubSeq(s, 1, n)[k] = s[k]
  BY <1>2
<1>4. Tokens(SubSeq(s, 1, n)) \in Seq(T) /\ Len(Tokens(SubSeq(s, 1, n))) = n
  BY <1>3, TokensIs
<1> QED
  BY <1>3, <1>4 DEF Tokens

-----------------------------------------------------------------------------
(* Lemmas about lines.                                                     *)

(* The first place where a line can end is where it ends.                  *)
LEMMA LineEndsThere ==
    ASSUME NEW T, NEW s, IsStream(s, T), NEW n \in LineEnds(s),
           \A i \in LineEnds(s) : n <= i
    PROVE  HasLine(s) /\ LineLength(s) = n
<1>1. Len(s) \in Nat
  BY StreamIs
<1>2. LineEnds(s) \in SUBSET Nat /\ LineEnds(s) # {} /\ n \in Nat
  BY <1>1 DEF LineEnds
<1> DEFINE E == LineEnds(s)
<1> HIDE DEF E
<1>3. Min(E) \in E /\ \A k \in E : Min(E) <= k
  BY <1>2, MinIs DEF E
<1>4. n <= Min(E) /\ Min(E) <= n
  BY <1>3 DEF E
<1>5. Min(E) = n
  BY <1>2, <1>3, <1>4 DEF E
<1> QED
  BY <1>2, <1>5 DEF HasLine, LineLength, E

(* The first token of a line that is no line feed is its first word.       *)
LEMMA WordIsThere ==
    ASSUME NEW s, LineLength(s) \in Nat, NEW n \in 1..LineLength(s), s[n][1] # NL,
           \A i \in 1..LineLength(s) : i < n => s[i][1] = NL
    PROVE  FirstWord(s) = s[n][1]
<1> DEFINE W == {i \in 1..LineLength(s) : s[i][1] # NL}
<1>1. W \in SUBSET Nat /\ W # {} /\ n \in W
  OBVIOUS
<1>2. Min(W) \in W /\ Min(W) <= n
  BY <1>1, MinIs
<1>3. ~(Min(W) < n)
  BY <1>2
<1>4. Min(W) = n
  BY <1>1, <1>2, <1>3
<1> QED
  BY <1>1, <1>4 DEF FirstWord

LEMMA NoWordThere ==
    ASSUME NEW s, \A i \in 1..LineLength(s) : s[i][1] = NL
    PROVE  FirstWord(s) = NL
BY DEF FirstWord

(* The heads of lines, their rests and line feeds are all different.       *)
LEMMA HeadsDiffer ==
    /\ Rest # NL /\ NL \in Plain /\ Rest \in Plain
    /\ \A request \in Requests : request # NL /\ request \notin Plain
    /\ \A reply \in Replies : reply # NL /\ reply \notin Plain
BY FileTransferAssumption DEF Plain

LEMMA RequestLineTokens ==
    ASSUME NEW request \in Requests
    PROVE  /\ Len(RequestLine(request)) = Extra(request) + 4
           /\ RequestLine(request)[1] = request
           /\ \A i \in 2 .. Extra(request) + 2 : RequestLine(request)[i] = Rest
           /\ RequestLine(request)[Extra(request) + 3] = NL
           /\ RequestLine(request)[Extra(request) + 4] = NL
<1> DEFINE e == Extra(request)
           rest == [i \in 1..1 + e |-> Rest]
           front == <<request>> \o rest
<1>1. e \in Nat
  BY ExtraIs
<1> HIDE DEF e
<1>2. rest \in Seq({Rest}) /\ Len(rest) = 1 + e /\ \A i \in 1..1 + e : rest[i] = Rest
  <2>1. rest \in [1..1 + e -> {Rest}] /\ 1 + e \in Nat
    BY <1>1
  <2>2. rest \in Seq({Rest})
    BY <2>1, SeqDef
  <2> QED
    BY <2>1, <2>2, LenProperties
<1> HIDE DEF rest
<1> DEFINE U == {request, Rest, NL}
<1>3. rest \in Seq(U) /\ <<request>> \in Seq(U) /\ <<NL, NL>> \in Seq(U)
  <2>1. rest \in Seq(U)
    BY <1>2, SeqMonotonic
  <2> QED
    BY <2>1
<1> HIDE DEF U
<1>4. front \in Seq(U)
  BY <1>3, ConcatProperties, Zenon
<1>5. /\ Len(front) = Len(<<request>>) + Len(rest)
      /\ \A i \in 1 .. Len(<<request>>) + Len(rest) :
           front[i] = IF i <= Len(<<request>>) THEN <<request>>[i] ELSE rest[i - Len(<<request>>)]
  BY <1>3, ConcatProperties
<1>6. Len(<<request>>) = 1 /\ <<request>>[1] = request
  OBVIOUS
<1>7. Len(front) = e + 2 /\ front[1] = request
  BY <1>1, <1>2, <1>5, <1>6
<1>8. ASSUME NEW i \in 2 .. e + 2
      PROVE  front[i] = Rest
  <2>1. i \in 1 .. 1 + (1 + e) /\ ~(i <= 1) /\ i - 1 \in 1 .. 1 + e
    BY <1>1
  <2>2. front[i] = rest[i - 1]
    BY <1>2, <1>5, <1>6, <2>1
  <2> QED
    BY <1>2, <2>1, <2>2
<1> HIDE DEF front
<1>9. /\ Len(front \o <<NL, NL>>) = Len(front) + Len(<<NL, NL>>)
      /\ \A i \in 1 .. Len(front) + Len(<<NL, NL>>) :
           (front \o <<NL, NL>>)[i] = IF i <= Len(front) THEN front[i] ELSE <<NL, NL>>[i - Len(front)]
  BY <1>3, <1>4, ConcatProperties
<1>10. Len(<<NL, NL>>) = 2 /\ <<NL, NL>>[1] = NL /\ <<NL, NL>>[2] = NL
  OBVIOUS
<1>11. Len(front \o <<NL, NL>>) = e + 4
  BY <1>1, <1>7, <1>9, <1>10
<1>12. /\ (front \o <<NL, NL>>)[1] = request
       /\ \A i \in 2 .. e + 2 : (front \o <<NL, NL>>)[i] = Rest
  BY <1>1, <1>7, <1>8, <1>9, <1>10
<1>13. (front \o <<NL, NL>>)[e + 3] = NL /\ (front \o <<NL, NL>>)[e + 4] = NL
  <2>1. /\ e + 3 \in 1 .. e + 2 + 2 /\ ~(e + 3 <= e + 2) /\ e + 3 - (e + 2) = 1
        /\ e + 4 \in 1 .. e + 2 + 2 /\ ~(e + 4 <= e + 2) /\ e + 4 - (e + 2) = 2
    BY <1>1
  <2> QED
    BY <1>7, <1>9, <1>10, <2>1
<1>14. RequestLine(request) = front \o <<NL, NL>>
  BY DEF RequestLine, front, rest, e
<1> QED
  BY <1>11, <1>12, <1>13, <1>14 DEF e

(* What the proofs need of the types of the variables.                     *)
Typed ==
    /\ IsStream(c2s, UpTokens) /\ IsStream(s2c, DownTokens)
    /\ Len(c2s) \in Nat /\ Len(s2c) \in Nat
    /\ (c2s = <<>> <=> Len(c2s) = 0) /\ (s2c = <<>> <=> Len(s2c) = 0)
    /\ cur \in Requests /\ Extra(cur) \in Nat /\ cur.size \in Int
    /\ need \in Nat /\ (cl = "put" => need <= cur.size)
    /\ job.size \in Nat /\ count \in Nat /\ count <= job.size
    /\ conn \in {"up", "down"}
    /\ cl \in {"prompt", "await", "get", "list", "put", "closed"}
    /\ sv \in {"recv", "retr", "stor", "closed"}
    /\ LineLimit \in Nat /\ LineLimit >= 5
    /\ Sent \in Nat

LEMMA Facts == TransferInv => Typed
<1> SUFFICES ASSUME TransferInv
             PROVE  Typed
  OBVIOUS
<1>1. Streams /\ ClientOK /\ ServerOK
  BY Parts
<1>2. IsStream(c2s, UpTokens) /\ IsStream(s2c, DownTokens)
  BY <1>1 DEF Streams
<1>3. /\ Len(c2s) \in Nat /\ Len(s2c) \in Nat
      /\ (c2s = <<>> <=> Len(c2s) = 0) /\ (s2c = <<>> <=> Len(s2c) = 0)
  BY <1>2, StreamIs
<1>4. /\ cur \in Requests /\ need \in Nat /\ (cl = "put" => need <= cur.size)
      /\ cl \in {"prompt", "await", "get", "list", "put", "closed"}
  BY <1>1 DEF ClientOK
<1>5. Extra(cur) \in Nat /\ cur.size \in Int
  BY <1>4, ExtraIs, RequestIs
<1>6. job.size \in Nat /\ count \in 0..job.size /\ sv \in {"recv", "retr", "stor", "closed"}
  BY <1>1 DEF ServerOK
<1>7. count \in Nat /\ count <= job.size
  BY <1>6
<1>8. conn \in {"up", "down"}
  BY <1>1 DEF Streams
<1>9. LineLimit \in Nat /\ LineLimit >= 5
  BY FileTransferAssumption
<1>10. Sent \in Nat
  BY <1>4, <1>5, <1>6 DEF Sent
<1> QED
  BY <1>2, <1>3, <1>4, <1>5, <1>6, <1>7, <1>8, <1>9, <1>10 DEF Typed

LEMMA FactsAfter == TransferInv' => Typed'
BY Facts, PTL

(* A reply is a line, whatever follows it.                                 *)
LEMMA ReplyLine ==
    ASSUME TransferInv, NEW code \in {OK, BAD_FILE, SERVER_ERROR, COMMAND_NOT_IMPLEMENTED},
           NEW size \in Nat \union {NoSize}, NEW body, NEW n \in Nat,
           Replied(code, size, body, n), HasLine(s2c)
    PROVE  /\ LineLength(s2c) = 4 /\ 4 <= Len(s2c)
           /\ FirstWord(s2c) = Reply(code, size, cur) /\ Reply(code, size, cur) \in Replies
<1> DEFINE L == Len(s2c)
           head == Reply(code, size, cur)
<1>1. L \in Nat /\ IsStream(s2c, DownTokens) /\ LineLimit \in Nat /\ LineLimit >= 5
  BY Facts DEF Typed
<1>2. head \in Replies
  <2>1. cur \in UpTokens
    BY Facts DEF Typed, UpTokens
  <2> QED
    BY <2>1 DEF Reply, Replies
<1>3. /\ Line(head)[1] = head /\ Line(head)[2] = Rest
      /\ Line(head)[3] = NL /\ Line(head)[4] = NL
  BY DEF Line
<1>4. \A i \in 1..L : i <= 4 => s2c[i][1] = Line(head)[i]
  BY DEF Replied
<1> HIDE DEF L, head
<1>5. head # NL /\ Rest # NL
  BY <1>2, HeadsDiffer
<1>6. /\ 1 <= L => s2c[1][1] # NL
      /\ 2 <= L => s2c[2][1] # NL
      /\ 4 <= L => s2c[1][1] = head /\ s2c[3][1] = NL /\ s2c[4][1] = NL
  BY <1>1, <1>3, <1>4, <1>5
<1>7. ASSUME NEW i \in LineEnds(s2c)
      PROVE  4 <= i /\ i \in 1..L
  <2>1. i \in 1..L /\ (i = LineLimit \/ (i > 1 /\ s2c[i-1][1] = NL /\ s2c[i][1] = NL))
    BY DEF LineEnds, L
  <2>2. CASE i = LineLimit
    BY <1>1, <2>1, <2>2
  <2>3. CASE i > 1 /\ s2c[i-1][1] = NL /\ s2c[i][1] = NL
    <3>1. i \in Nat /\ i <= L
      BY <1>1, <2>1
    <3>2. i # 2 /\ i # 3
      <4>1. ASSUME i = 2 PROVE FALSE
        BY <1>1, <1>6, <2>3, <3>1, <4>1
      <4>2. ASSUME i = 3 PROVE FALSE
        <5>1. i - 1 = 2 /\ 2 <= L
          BY <1>1, <3>1, <4>2
        <5> QED
          BY <1>6, <2>3, <5>1
      <4> QED
        BY <4>1, <4>2
    <3> QED
      BY <2>1, <2>3, <3>1, <3>2
  <2> QED
    BY <2>1, <2>2, <2>3
<1>8. 4 <= L /\ 4 \in 1..L
  <2>1. PICK i \in LineEnds(s2c) : TRUE
    BY DEF HasLine
  <2> QED
    BY <1>1, <1>7, <2>1
<1>9. 4 \in LineEnds(s2c)
  BY <1>6, <1>8 DEF LineEnds, L
<1>10. LineLength(s2c) = 4
  BY <1>1, <1>7, <1>9, LineEndsThere
<1>11. FirstWord(s2c) = s2c[1][1]
  <2>1. LineLength(s2c) \in Nat /\ 1 \in 1..LineLength(s2c)
        /\ \A i \in 1..LineLength(s2c) : i < 1 => s2c[i][1] = NL
    BY <1>10
  <2>2. s2c[1][1] # NL
    BY <1>1, <1>6, <1>8
  <2> QED
    BY <2>1, <2>2, WordIsThere
<1> QED
  BY <1>2, <1>6, <1>8, <1>10, <1>11 DEF L, head

(* The stream to the server begins with two line feeds, a blank line, or   *)
(* with one at most and the request of the client, of which its line may   *)
(* leave line feeds behind.                                                *)
LEMMA NextLine ==
    ASSUME TransferInv, Extra(cur) + 3 <= LineLimit, NEW m \in 0..2, AfterThat(m),
           \A i \in 1..Len(c2s) : i <= m => c2s[i][1] = NL,
           HasLine(c2s)
    PROVE  \/ m = 2 /\ LineLength(c2s) = 2 /\ FirstWord(c2s) = NL /\ BadInput(c2s)
           \/ /\ m <= 1 /\ Asked /\ FirstWord(c2s) = cur /\ ~BadInput(c2s)
              /\ LineLength(c2s) \in 1..Len(c2s) /\ Len(c2s) - LineLength(c2s) <= 2
              /\ \A i \in LineLength(c2s) + 1 .. Len(c2s) : c2s[i][1] = NL
              /\ Extra(cur) = 0 => Len(c2s) = LineLength(c2s)
<1> DEFINE L == Len(c2s)
           e == Extra(cur)
<1>0. /\ L \in Nat /\ e \in Nat /\ IsStream(c2s, UpTokens) /\ LineLimit \in Nat /\ LineLimit >= 5
      /\ cur \in Requests /\ e + 3 <= LineLimit
  BY Facts DEF Typed
<1>1. \A i \in LineEnds(c2s) :
         i \in 1..L /\ (i = LineLimit \/ (i > 1 /\ c2s[i-1][1] = NL /\ c2s[i][1] = NL))
  BY DEF LineEnds
<1>2. \A i \in 1..L : i <= m => c2s[i][1] = NL
  OBVIOUS
<1>3. LineEnds(c2s) # {}
  BY DEF HasLine
<1>4. CASE m = 2
  <2>1. \A i \in LineEnds(c2s) : 2 <= i /\ i <= L
    BY <1>0, <1>1
  <2>2. 2 <= L
    <3>1. PICK i \in LineEnds(c2s) : TRUE
      BY <1>3
    <3>2. i \in Nat /\ 2 <= i /\ i <= L
      BY <1>0, <1>1, <2>1, <3>1
    <3> QED
      BY <1>0, <3>2
  <2>3. c2s[1][1] = NL /\ c2s[2][1] = NL
    BY <1>0, <1>2, <1>4, <2>2
  <2>4. 2 \in LineEnds(c2s)
    BY <1>0, <2>2, <2>3 DEF LineEnds
  <2>5. LineLength(c2s) = 2
    BY <1>0, <2>1, <2>4, LineEndsThere
  <2>6. \A i \in 1..LineLength(c2s) : c2s[i][1] = NL
    BY <2>3, <2>5
  <2>7. FirstWord(c2s) = NL
    BY <2>6, NoWordThere
  <2>8. BadInput(c2s)
    <3>1. \A i \in 1..LineLength(c2s) : \A j \in 1..i : j \in 1..LineLength(c2s)
      BY <2>5
    <3>2. FirstWord(c2s) \in Plain
      BY <2>7, HeadsDiffer
    <3> QED
      BY <2>6, <3>1, <3>2 DEF BadInput
  <2> QED
    BY <1>4, <2>5, <2>7, <2>8
<1>5. CASE m # 2
  <2>1. m \in Nat /\ m <= 1
    BY <1>5
  <2>2. Asked /\ L <= m + e + 4 /\ \A i \in 1..L : i > m => c2s[i][1] = RequestLine(cur)[i - m]
    <3>1. L <= m + (IF Asked THEN e + 4 ELSE 0)
          /\ \A i \in 1..L : i > m => c2s[i][1] = RequestLine(cur)[i - m]
      BY DEF AfterThat
    <3>2. PICK i \in LineEnds(c2s) : TRUE
      BY <1>3
    <3>3. i > 1 /\ i <= L
      BY <1>0, <1>1, <3>2
    <3>4. L > 1
      BY <1>0, <1>1, <3>2, <3>3
    <3>5. Asked
      BY <1>0, <2>1, <3>1, <3>4
    <3> QED
      BY <1>0, <2>1, <3>1, <3>5
  <2>3. /\ RequestLine(cur)[1] = cur
        /\ \A i \in 2 .. e + 2 : RequestLine(cur)[i] = Rest
        /\ RequestLine(cur)[e + 3] = NL /\ RequestLine(cur)[e + 4] = NL
    BY <1>0, RequestLineTokens
  <2>4. cur # NL /\ Rest # NL /\ cur \notin Plain
    BY <1>0, HeadsDiffer
  <2> HIDE DEF L, e
  <2>5. \A i \in 1..L : i > m /\ i <= m + e + 2 => c2s[i][1] # NL
    <3> SUFFICES ASSUME NEW i \in 1..L, i > m, i <= m + e + 2
                 PROVE  c2s[i][1] # NL
      OBVIOUS
    <3>1. c2s[i][1] = RequestLine(cur)[i - m]
      BY <2>2
    <3>2. i - m = 1 \/ i - m \in 2 .. e + 2
      BY <1>0, <2>1
    <3> QED
      BY <2>3, <2>4, <3>1, <3>2
  <2>6. \A i \in LineEnds(c2s) : i = LineLimit \/ (i = L /\ L = m + e + 4)
    <3> SUFFICES ASSUME NEW i \in LineEnds(c2s), i # LineLimit
                 PROVE  i = L /\ L = m + e + 4
      OBVIOUS
    <3>1. i \in 1..L /\ i > 1 /\ c2s[i-1][1] = NL /\ c2s[i][1] = NL
      BY <1>1
    <3>2. i - 1 \in 1..L
      BY <1>0, <3>1
    <3>3. ~(i > m /\ i <= m + e + 2) /\ ~(i - 1 > m /\ i - 1 <= m + e + 2)
      BY <2>5, <3>1, <3>2
    <3>4. i >= m + e + 4
      BY <1>0, <2>1, <3>1, <3>3
    <3> QED
      BY <1>0, <2>1, <2>2, <3>1, <3>4
  <2>7. LineLength(c2s) \in LineEnds(c2s)
    <3>1. LineEnds(c2s) \in SUBSET Nat
      BY <1>0, <1>1
    <3> QED
      BY <1>3, <3>1, MinIs DEF LineLength
  <2> DEFINE n == LineLength(c2s)
  <2>8. n \in 1..L /\ (n = LineLimit \/ (n = L /\ L = m + e + 4))
    BY <1>1, <2>6, <2>7
  <2> HIDE DEF n
  <2>9. n \in Nat /\ n <= L /\ n >= e + 3 /\ n >= m + 3 /\ n >= 4
    BY <1>0, <2>1, <2>8
  <2>10. FirstWord(c2s) = cur
    <3>1. c2s[m + 1][1] = cur
      <4>1. m + 1 \in 1..L /\ m + 1 > m /\ m + 1 - m = 1
        BY <1>0, <2>1, <2>9
      <4> QED
        BY <2>2, <2>3, <4>1
    <3>2. m + 1 \in 1..n /\ \A i \in 1..n : i < m + 1 => i \in 1..L /\ i <= m
      BY <1>0, <2>1, <2>9
    <3>3. \A i \in 1..n : i < m + 1 => c2s[i][1] = NL
      BY <1>2, <3>2 DEF L
    <3> QED
      BY <2>4, <2>9, <3>1, <3>2, <3>3, WordIsThere DEF n
  <2>11. ~BadInput(c2s)
    <3>1. CASE cur.name # ""
      BY <2>4, <2>10, <3>1 DEF BadInput
    <3>2. CASE cur.name = ""
      <4>1. e = 0
        BY <3>2 DEF e, Extra
      <4>2. m + 3 \in 1..n /\ m + 1 \in 1 .. m + 3 /\ m + 3 \in 1..L /\ m + 1 \in 1..L
            /\ m + 3 > m /\ m + 3 - m = e + 3 /\ m + 1 > m /\ m + 1 <= m + e + 2
        BY <1>0, <2>1, <2>9, <4>1
      <4>3. c2s[m + 3][1] = NL
        BY <2>2, <2>3, <4>2
      <4>4. c2s[m + 1][1] # NL
        BY <2>5, <4>2
      <4> QED
        BY <4>2, <4>3, <4>4 DEF BadInput, n
    <3> QED
      BY <3>1, <3>2
  <2>12. \A i \in n + 1 .. L : c2s[i][1] = NL
    <3> SUFFICES ASSUME NEW i \in n + 1 .. L
                 PROVE  c2s[i][1] = NL
      OBVIOUS
    <3>1. i \in 1..L /\ i > m /\ (i - m = e + 3 \/ i - m = e + 4)
      BY <1>0, <2>1, <2>2, <2>9
    <3> QED
      BY <2>2, <2>3, <3>1
  <2>13. L - n <= 2 /\ (e = 0 => L = n)
    BY <1>0, <2>1, <2>2, <2>8, <2>9
  <2> QED
    BY <2>1, <2>2, <2>8, <2>10, <2>11, <2>12, <2>13 DEF n, L, e
<1> QED
  BY <1>4, <1>5

-----------------------------------------------------------------------------
(* What is kept when a stream is only cut.                                 *)

(* The stream to the server is as it was, or a part of what it was if the  *)
(* connection is down.                                                     *)
UpStreamCut ==
    /\ Len(c2s') <= Len(c2s) /\ \A i \in 1..Len(c2s') : c2s'[i] = c2s[i]
    /\ Up' => Up /\ c2s' = c2s

DownStreamCut ==
    /\ Len(s2c') <= Len(s2c) /\ \A i \in 1..Len(s2c') : s2c'[i] = s2c[i]
    /\ Up' => Up /\ s2c' = s2c

(* The request of the client is as much in the stream as it was, and the   *)
(* client has sent as much of an upload; or the connection is down.        *)
AskedKept ==
    \/ (Asked' <=> Asked) /\ (sv = "stor" => Sent' = Sent)
    \/ ~Up' /\ ~Asked /\ (sv = "stor" => Sent <= Sent')

LEMMA AfterThatKept ==
    ASSUME TransferInv, TransferInv', UpStreamCut, UNCHANGED cur,
           NEW m \in Nat, NEW k \in Nat, m <= k, AfterThat(m),
           ((Asked' <=> Asked) /\ m = k) \/ (~Up' /\ ~Asked)
    PROVE  /\ Len(c2s') <= k + (IF Asked' THEN Extra(cur') + 4 ELSE 0)
           /\ Up' => Len(c2s') = k + (IF Asked' THEN Extra(cur') + 4 ELSE 0)
           /\ \A i \in 1..Len(c2s') : i > k => c2s'[i][1] = RequestLine(cur')[i - k]
<1> DEFINE all(b) == IF b THEN Extra(cur) + 4 ELSE 0
<1>1. /\ Len(c2s) \in Nat /\ Extra(cur) \in Nat /\ Len(c2s') \in Nat
      /\ cur' = cur
  BY Facts, FactsAfter DEF Typed
<1>2. /\ Len(c2s) <= m + all(Asked) /\ (Up => Len(c2s) = m + all(Asked))
      /\ \A i \in 1..Len(c2s) : i > m => c2s[i][1] = RequestLine(cur)[i - m]
  BY DEF AfterThat
<1>3. /\ Len(c2s') <= Len(c2s) /\ \A i \in 1..Len(c2s') : c2s'[i] = c2s[i]
      /\ Up' => Up /\ c2s' = c2s
  BY DEF UpStreamCut
<1>4. CASE (Asked' <=> Asked) /\ m = k
  <2>1. all(Asked') = all(Asked)
    BY <1>4
  <2>2. /\ Len(c2s') <= k + all(Asked) /\ (Up' => Len(c2s') = k + all(Asked))
        /\ \A i \in 1..Len(c2s') : i > k => c2s'[i][1] = RequestLine(cur)[i - k]
    <3> DEFINE a == all(Asked)
    <3>1. a \in Nat
      BY <1>1
    <3>2. Len(c2s) <= m + a /\ (Up => Len(c2s) = m + a)
      BY <1>2
    <3> HIDE DEF a
    <3>3. Len(c2s') <= k + a
      BY <1>1, <1>3, <1>4, <3>1, <3>2
    <3>4. Up' => Len(c2s') = k + a
      BY <1>3, <1>4, <3>2
    <3>5. \A i \in 1..Len(c2s') : i \in 1..Len(c2s)
      BY <1>1, <1>3
    <3>6. \A i \in 1..Len(c2s') : i > k => c2s'[i][1] = RequestLine(cur)[i - k]
      BY <1>2, <1>3, <1>4, <3>5
    <3> QED
      BY <3>3, <3>4, <3>6 DEF a
  <2> QED
    BY <1>1, <2>1, <2>2
<1>5. CASE ~Up' /\ ~Asked
  <2>1. Len(c2s') <= m
    BY <1>1, <1>2, <1>3, <1>5
  <2> QED
    BY <1>1, <1>5, <2>1
<1> QED
  BY <1>4, <1>5

LEMMA ServerSideKept ==
    ASSUME TransferInv, TransferInv', ServerSide, UpStreamCut, AskedKept,
           UNCHANGED <<svVars, cur, local>>
    PROVE  ServerSide'
<1>1. /\ Len(c2s) \in Nat /\ Len(c2s') \in Nat /\ Sent \in Nat /\ Sent' \in Nat
      /\ count \in Nat
  BY Facts, FactsAfter DEF Typed
<1>2. Len(c2s') <= Len(c2s) /\ \A i \in 1..Len(c2s') : c2s'[i] = c2s[i]
  BY DEF UpStreamCut
<1>3. UNCHANGED <<sv, job, count, root, cur, local>>
  BY DEF svVars
<1>4. ASSUME sv = "recv"
      PROVE  (\E m \in 0..2 : AfterThat(m) /\ \A i \in 1..Len(c2s) : i <= m => c2s[i][1] = NL)'
  <2>1. PICK m \in 0..2 : AfterThat(m) /\ \A i \in 1..Len(c2s) : i <= m => c2s[i][1] = NL
    BY <1>4 DEF ServerSide
  <2>2. m \in Nat
    OBVIOUS
  <2>3. AfterThat(m)'
    BY <2>1, <2>2, AfterThatKept DEF AskedKept, AfterThat
  <2>4. \A i \in 1..Len(c2s') : i <= m => c2s'[i][1] = NL
    BY <1>1, <1>2, <2>1
  <2> QED
    BY <2>3, <2>4
<1>5. ASSUME sv = "retr"
      PROVE  AfterThat(0)'
  <2>1. AfterThat(0)
    BY <1>5 DEF ServerSide
  <2> QED
    BY <2>1, AfterThatKept DEF AskedKept, AfterThat
<1>6. ASSUME sv = "stor"
      PROVE  (/\ local[job.name] # Absent /\ job.size = Len(local[job.name])
              /\ count <= Sent /\ AfterThat(Sent - count)
              /\ \A i \in 1..count : root[job.name][i] = local[job.name][i]
              /\ \A i \in 1..Len(c2s) : i <= Sent - count => c2s[i][1] = local[job.name][count + i])'
  <2> DEFINE before == Sent
             after == Sent'
  <2>1. /\ local[job.name] # Absent /\ job.size = Len(local[job.name])
        /\ count <= before /\ AfterThat(before - count)
        /\ \A i \in 1..count : root[job.name][i] = local[job.name][i]
        /\ \A i \in 1..Len(c2s) : i <= before - count => c2s[i][1] = local[job.name][count + i]
    BY <1>6 DEF ServerSide
  <2>2. \/ (Asked' <=> Asked) /\ before = after
        \/ ~Up' /\ ~Asked /\ before <= after
    BY <1>6, Zenon DEF AskedKept
  <2>3. before \in Nat /\ after \in Nat
    BY <1>1
  <2> HIDE DEF before, after
  <2>4. before <= after /\ count <= before /\ count <= after
    <3>1. before <= after
      BY <2>2, <2>3
    <3>2. count <= before
      BY <2>1
    <3> QED
      BY <1>1, <2>3, <3>1, <3>2
  <2>5. before - count \in Nat /\ after - count \in Nat /\ before - count <= after - count
    BY <1>1, <2>3, <2>4
  <2>6. AfterThat(Sent - count)'
    <3> DEFINE m == before - count
               k == after - count
    <3>1. m \in Nat /\ k \in Nat /\ m <= k /\ AfterThat(m)
          /\ (((Asked' <=> Asked) /\ m = k) \/ (~Up' /\ ~Asked))
      BY <2>1, <2>2, <2>5
    <3> HIDE DEF m, k
    <3>2. /\ Len(c2s') <= k + (IF Asked' THEN Extra(cur') + 4 ELSE 0)
          /\ Up' => Len(c2s') = k + (IF Asked' THEN Extra(cur') + 4 ELSE 0)
          /\ \A i \in 1..Len(c2s') : i > k => c2s'[i][1] = RequestLine(cur')[i - k]
      BY <3>1, AfterThatKept
    <3>3. k = Sent' - count'
      BY <1>3 DEF k, after
    <3> QED
      BY <3>2, <3>3 DEF AfterThat
  <2>7. \A i \in 1..Len(c2s') : i <= after - count => c2s'[i][1] = local[job.name][count + i]
    <3> SUFFICES ASSUME NEW i \in 1..Len(c2s'), i <= after - count
                 PROVE  c2s'[i][1] = local[job.name][count + i]
      OBVIOUS
    <3>1. i \in 1..Len(c2s) /\ c2s'[i] = c2s[i]
      BY <1>1, <1>2
    <3>2. i <= before - count
      <4>1. CASE before = after
        BY <4>1
      <4>2. CASE ~Asked
        <5>1. Len(c2s) <= before - count
          BY <2>1, <2>5, <4>2 DEF AfterThat
        <5> QED
          BY <1>1, <2>5, <3>1, <5>1
      <4> QED
        BY <2>2, <4>1, <4>2
    <3> QED
      BY <2>1, <3>1, <3>2
  <2>8. /\ (local[job.name] # Absent /\ job.size = Len(local[job.name]))'
        /\ (\A i \in 1..count : root[job.name][i] = local[job.name][i])'
    BY <1>3, <2>1
  <2>9. (count <= Sent)'
    BY <1>3, <2>4 DEF after
  <2>10. (\A i \in 1..Len(c2s) : i <= Sent - count => c2s[i][1] = local[job.name][count + i])'
    BY <1>3, <2>7 DEF after
  <2> QED
    BY <2>6, <2>8, <2>9, <2>10
<1> QED
  BY <1>3, <1>4, <1>5, <1>6 DEF ServerSide

LEMMA ListingKept == UNCHANGED root => UNCHANGED Listing
BY DEF Listing

LEMMA RepliedKept ==
    ASSUME TransferInv, TransferInv', DownStreamCut, UNCHANGED cur,
           NEW code, NEW size, NEW body, NEW n \in Nat, Replied(code, size, body, n)
    PROVE  Replied(code, size, body, n)'
<1>1. Len(s2c) \in Nat /\ Len(s2c') \in Nat
  BY Facts, FactsAfter DEF Typed
<1>2. /\ Len(s2c') <= Len(s2c) /\ \A i \in 1..Len(s2c') : s2c'[i] = s2c[i]
      /\ Up' => Up /\ s2c' = s2c
  BY DEF DownStreamCut
<1>3. /\ Len(s2c) <= n + 4 /\ (Up => Len(s2c) = n + 4)
      /\ \A i \in 1..Len(s2c) :
           s2c[i][1] = IF i <= 4 THEN Line(Reply(code, size, cur))[i] ELSE body[i - 4]
  BY DEF Replied
<1>4. Len(s2c') <= n + 4 /\ (Up' => Len(s2c') = n + 4)
  BY <1>1, <1>2, <1>3
<1>5. \A i \in 1..Len(s2c') : i \in 1..Len(s2c)
  BY <1>1, <1>2
<1>6. \A i \in 1..Len(s2c') :
         s2c'[i][1] = IF i <= 4 THEN Line(Reply(code, size, cur))[i] ELSE body[i - 4]
  BY <1>2, <1>3, <1>5
<1> QED
  BY <1>4, <1>6 DEF Replied

LEMMA AnsweredKept ==
    ASSUME TransferInv, TransferInv', DownStreamCut, UNCHANGED <<cur, job, count, root>>,
           sv' = sv \/ (sv' = "closed" /\ ~Up'), Answered
    PROVE  Answered'
<1>1. Len(Listing) \in Nat /\ count \in Nat /\ UNCHANGED Listing
  BY ListingIs, ListingKept, LenProperties, Facts DEF Typed
<1>2. CASE Refused
  BY <1>2, RepliedKept DEF Refused, Answered
<1>3. CASE Removed
  BY <1>3, RepliedKept DEF Removed, Answered
<1>4. CASE Released
  BY <1>4, RepliedKept DEF Released, Answered
<1>8. CASE Opened
  <2>1. PICK size \in SeekEnds : Replied(OK, size, <<>>, 0)
    BY <1>8 DEF Opened
  <2>2. Replied(OK, size, <<>>, 0)'
    BY <2>1, RepliedKept
  <2> QED
    BY <1>8, <2>2 DEF Opened, Answered
<1>5. CASE Enumerated
  BY <1>1, <1>5, RepliedKept DEF Enumerated, Answered
<1>6. CASE Offered
  BY <1>1, <1>6, RepliedKept DEF Offered, Announced, Answered
<1>7. CASE Accepted
  BY <1>7, RepliedKept DEF Accepted, Answered, DownStreamCut
<1> QED
  BY <1>2, <1>3, <1>4, <1>5, <1>6, <1>7, <1>8 DEF Answered

LEMMA RestsKept ==
    ASSUME TransferInv, TransferInv', DownStreamCut,
           NEW body, NEW from \in Nat, NEW to \in Nat, Rests(body, from, to)
    PROVE  Rests(body, from, to)'
<1>1. Len(s2c) \in Nat /\ Len(s2c') \in Nat
  BY Facts, FactsAfter DEF Typed
<1>2. /\ Len(s2c') <= Len(s2c) /\ \A i \in 1..Len(s2c') : s2c'[i] = s2c[i]
      /\ Up' => Up /\ s2c' = s2c
  BY DEF DownStreamCut
<1>3. /\ Len(s2c) <= to - from /\ (Up => Len(s2c) = to - from)
      /\ \A i \in 1..Len(s2c) : s2c[i][1] = body[from + i]
  BY DEF Rests
<1>4. Len(s2c') <= to - from /\ (Up' => Len(s2c') = to - from)
  BY <1>1, <1>2, <1>3
<1>5. \A i \in 1..Len(s2c') : i \in 1..Len(s2c)
  BY <1>1, <1>2
<1>6. \A i \in 1..Len(s2c') : s2c'[i][1] = body[from + i]
  BY <1>2, <1>3, <1>5
<1> QED
  BY <1>4, <1>6 DEF Rests

(* The copy of the client and the file of the server are sequences.        *)
LEMMA CopyIs ==
    ASSUME TransferInv, cl = "get"
    PROVE  /\ downloads[cur.name] \in Seq(DownTokens) /\ Len(downloads[cur.name]) \in Nat
           /\ cur.name \in Name
<1>1. ClientOK
  BY Parts
<1>2. downloads[cur.name] \in Seq(DownTokens) /\ cur.name \in Name
  BY <1>1 DEF ClientOK
<1> QED
  BY <1>2, LenProperties

LEMMA ClientSideKept ==
    ASSUME TransferInv, TransferInv', ClientSide, DownStreamCut,
           UNCHANGED <<clVars, job, count, root, local>>,
           sv' = sv \/ (sv' = "closed" /\ ~Up')
    PROVE  ClientSide'
<1>1. UNCHANGED <<cl, cur, need, upload, downloads, oversize, job, count, root, local>>
  BY DEF clVars
<1>2. /\ s2c = <<>> => s2c' = <<>>
      /\ Up' => Up /\ s2c' = s2c
  <2>1. Len(s2c) \in Nat /\ Len(s2c') \in Nat /\ Len(s2c') <= Len(s2c)
        /\ (s2c = <<>> <=> Len(s2c) = 0) /\ (s2c' = <<>> <=> Len(s2c') = 0)
    BY Facts, FactsAfter DEF Typed, DownStreamCut
  <2>2. s2c = <<>> => s2c' = <<>>
    BY <2>1
  <2> QED
    BY <2>2 DEF DownStreamCut
<1>3. (cl = "prompt" => s2c = <<>>)'
  BY <1>1, <1>2 DEF ClientSide
<1>4. (cl = "await" /\ ~Asked => Answered)'
  <2>1. cl' = "await" /\ ~Asked' => cl = "await" /\ ~Asked
    BY <1>1, <1>2 DEF Asked
  <2> QED
    BY <1>1, <2>1, AnsweredKept DEF ClientSide
<1>5. ASSUME cl = "get"
      PROVE  Getting'
  <2> DEFINE copy == downloads[cur.name]
             file == root[job.name]
  <2>1. copy \in Seq(DownTokens) /\ Len(copy) \in Nat /\ count \in Nat
    BY <1>5, CopyIs, Facts DEF Typed
  <2>2. /\ Announced /\ Len(copy) + need = job.size /\ Len(copy) <= count
        /\ \A i \in 1..Len(copy) : copy[i] = file[i]
        /\ Rests(file, Len(copy), count)
    BY <1>5 DEF ClientSide, Getting
  <2>3. Rests(file, Len(copy), count)'
    BY <1>1, <2>1, <2>2, RestsKept
  <2>4. Announced'
    BY <1>1, <2>2 DEF Announced
  <2> QED
    BY <1>1, <2>2, <2>3, <2>4 DEF Getting
<1>6. ASSUME cl = "list"
      PROVE  Listed'
  <2>1. Len(Listing) \in Nat /\ need \in Nat /\ UNCHANGED Listing
    BY <1>1, ListingIs, ListingKept, LenProperties, Facts DEF Typed
  <2>2. /\ cur.cmd = "LIST" /\ sv \in {"recv", "closed"} /\ need <= Len(Listing)
        /\ Rests(Listing, Len(Listing) - need, Len(Listing))
    BY <1>6 DEF ClientSide, Listed
  <2>3. Len(Listing) - need \in Nat
    BY <2>1, <2>2
  <2>4. Rests(Listing, Len(Listing) - need, Len(Listing))'
    BY <1>1, <2>1, <2>2, <2>3, RestsKept
  <2> QED
    BY <1>1, <2>1, <2>2, <2>4 DEF Listed
<1>7. ASSUME cl = "put"
      PROVE  Putting'
  BY <1>1, <1>2, <1>7 DEF ClientSide, Putting
<1>8. (Up => Together)'
  <2> SUFFICES ASSUME Up'
               PROVE  Together'
    OBVIOUS
  <2>1. Together /\ sv' = sv /\ (Asked' <=> Asked)
    BY <1>1, <1>2 DEF ClientSide, Asked
  <2> QED
    BY <1>1, <2>1 DEF Together
<1>9. (/\ cur.cmd = "STOR" => local[cur.name] # Absent /\ cur.size = Len(local[cur.name])
       /\ Fits(cur) /\ ~oversize)'
  BY <1>1 DEF ClientSide
<1> QED
  BY <1>1, <1>3, <1>4, <1>5, <1>6, <1>7, <1>8, <1>9 DEF ClientSide

InStep == ServerSide /\ ClientSide /\ WholeFiles

LEMMA WholeFilesKept ==
    ASSUME WholeFiles, UNCHANGED <<root, root0, local, job, faults>>,
           sv = "stor" => sv' = "stor" \/ (sv' = "closed" /\ conn' = "down"),
           sv = "closed" /\ conn = "down" => sv' = "closed" /\ conn' = "down"
    PROVE  WholeFiles'
BY DEF WholeFiles, Calm

-----------------------------------------------------------------------------
(* The connection, and the end of the server.                              *)

LEMMA ConnectionSync ==
    ASSUME TransferInv, TransferInv', InStep, Close \/ Break
    PROVE  InStep'
<1>1. /\ conn' = "down" /\ ~Up' /\ UNCHANGED <<clVars, svVars, local, root0, faults>>
      /\ UNCHANGED <<sv, job, count, root, cl, cur, need>>
  BY DEF Close, Break, fixed, svVars, clVars, Up
<1>2. UpStreamCut /\ DownStreamCut
  <2>1. CASE Close
    BY <1>1, <2>1 DEF Close, UpStreamCut, DownStreamCut
  <2>2. CASE Break
    <3>1. IsStream(c2s, UpTokens) /\ IsStream(s2c, DownTokens)
      BY Facts DEF Typed
    <3>2. PICK i \in {0} \union PayloadEnds(c2s) : c2s' = SubSeq(c2s, 1, i)
      BY <2>2 DEF Break
    <3>3. PICK j \in {0} \union PayloadEnds(s2c) : s2c' = SubSeq(s2c, 1, j)
      BY <2>2 DEF Break
    <3>4. Len(c2s') <= Len(c2s) /\ \A k \in 1..Len(c2s') : c2s'[k] = c2s[k]
      BY <3>1, <3>2, CutElements
    <3>5. Len(s2c') <= Len(s2c) /\ \A k \in 1..Len(s2c') : s2c'[k] = s2c[k]
      BY <3>1, <3>3, CutElements
    <3> QED
      BY <1>1, <3>4, <3>5 DEF UpStreamCut, DownStreamCut
  <2> QED
    BY <2>1, <2>2
<1>3. AskedKept
  <2>1. CASE Asked' <=> Asked
    BY <1>1, <2>1 DEF AskedKept, Sent
  <2>2. CASE ~(Asked' <=> Asked)
    <3>1. s2c = <<>> => s2c' = <<>>
      <4>1. Len(s2c) \in Nat /\ Len(s2c') \in Nat /\ Len(s2c') <= Len(s2c)
            /\ (s2c = <<>> <=> Len(s2c) = 0) /\ (s2c' = <<>> <=> Len(s2c') = 0)
        BY <1>2, Facts, FactsAfter DEF Typed, DownStreamCut
      <4> QED
        BY <4>1
    <3>2. ~Asked
      BY <1>1, <2>2, <3>1 DEF Asked
    <3>3. Sent <= Sent'
      <4>1. job.size \in Nat /\ Sent \in Nat /\ Sent' \in Nat
        BY Facts, FactsAfter DEF Typed
      <4>2. Sent' = Sent \/ Sent = 0
        BY <1>1, <3>2 DEF Sent
      <4> DEFINE before == Sent
                 after == Sent'
      <4>3. before \in Nat /\ after \in Nat /\ (after = before \/ before = 0)
        BY <4>1, <4>2
      <4> HIDE DEF before, after
      <4>4. before <= after
        BY <4>3
      <4> QED
        BY <4>4 DEF before, after
    <3> QED
      BY <1>1, <3>2, <3>3 DEF AskedKept
  <2> QED
    BY <2>1, <2>2
<1>4. ServerSide'
  BY <1>1, <1>2, <1>3, ServerSideKept DEF InStep
<1>5. ClientSide'
  BY <1>1, <1>2, ClientSideKept DEF InStep
<1>6. WholeFiles'
  BY <1>1, WholeFilesKept DEF InStep
<1> QED
  BY <1>4, <1>5, <1>6 DEF InStep

(* The streams are as they were.                                           *)
LEMMA StreamsSame ==
    ASSUME TransferInv, UNCHANGED <<c2s, s2c, conn>>
    PROVE  UpStreamCut /\ DownStreamCut /\ (Up' <=> Up)
BY Facts DEF Typed, UpStreamCut, DownStreamCut, Up

LEMMA ServerRecvFailsSync ==
    ASSUME TransferInv, TransferInv', InStep, ServerRecvFails
    PROVE  InStep'
<1>0. ~oversize
  BY DEF InStep, ClientSide
<1>1. /\ conn = "down" /\ sv' = "closed" /\ ~Up'
      /\ UNCHANGED <<c2s, s2c, conn, clVars, job, count, root, local, root0, faults>>
  BY <1>0 DEF ServerRecvFails, fixed, Up
<1>2. ServerSide'
  BY <1>1 DEF ServerSide
<1>3. ClientSide'
  BY <1>1, StreamsSame, ClientSideKept DEF InStep
<1>4. WholeFiles'
  BY <1>1, WholeFilesKept DEF InStep
<1> QED
  BY <1>2, <1>3, <1>4 DEF InStep

LEMMA NothingSync ==
    ASSUME TransferInv, TransferInv', InStep, UNCHANGED vars
    PROVE  InStep'
<1>1. UNCHANGED <<c2s, s2c, conn, clVars, svVars, local, root0, faults>>
      /\ UNCHANGED <<sv, job, count, root, cl, cur, need>>
  BY DEF vars, clVars, svVars
<1>2. AskedKept
  BY <1>1 DEF AskedKept, Asked, Sent
<1>3. ServerSide'
  BY <1>1, <1>2, StreamsSame, ServerSideKept DEF InStep
<1>4. ClientSide'
  BY <1>1, StreamsSame, ClientSideKept DEF InStep
<1>5. WholeFiles'
  BY <1>1, WholeFilesKept DEF InStep
<1> QED
  BY <1>3, <1>4, <1>5 DEF InStep

-----------------------------------------------------------------------------
(* The client: commands.                                                   *)

(* The request goes where the server will look for it.                     *)
LEMMA AskedThere ==
    ASSUME TransferInv, TransferInv', ClientSide, NEW request \in Requests, Ask(request),
           Fits(request), NEW m \in Nat, AfterThat(m)
    PROVE  /\ Len(c2s') <= m + (IF Asked' THEN Extra(cur') + 4 ELSE 0)
           /\ Up' => Len(c2s') = m + (IF Asked' THEN Extra(cur') + 4 ELSE 0)
           /\ \A i \in 1..Len(c2s') : i > m => c2s'[i][1] = RequestLine(cur')[i - m]
           /\ \A i \in 1..Len(c2s') : i <= m => i \in 1..Len(c2s) /\ c2s'[i] = c2s[i]
<1>1. /\ cl = "prompt" /\ cur' = request /\ ClientSends(RequestLine(request), "await")
      /\ ~oversize /\ UNCHANGED <<s2c, conn>>
  BY DEF Ask, ClientSide
<1>2. s2c = <<>> /\ ~Asked /\ Asked' /\ (Up' <=> Up)
  BY <1>1 DEF ClientSide, Asked, ClientSends, Up
<1>3. /\ Len(c2s) \in Nat /\ Len(c2s') \in Nat /\ IsStream(c2s, UpTokens) /\ conn \in {"up", "down"}
  BY Facts, FactsAfter DEF Typed
<1>4. Extra(request) \in Nat
  BY ExtraIs
<1>5. Len(c2s) <= m /\ (Up => Len(c2s) = m)
  <2>1. Len(c2s) <= m + 0 /\ (Up => Len(c2s) = m + 0)
    BY <1>2 DEF AfterThat
  <2> QED
    BY <2>1
<1>6. CASE ~Up
  <2>1. c2s' = c2s /\ ~Up'
    BY <1>1, <1>2, <1>6 DEF ClientSends, Up
  <2>2. Len(c2s') <= m + (Extra(cur') + 4)
    BY <1>1, <1>3, <1>4, <1>5, <2>1
  <2>3. \A i \in 1..Len(c2s') : ~(i > m)
    BY <1>3, <1>5, <2>1
  <2> QED
    BY <1>2, <2>1, <2>2, <2>3
<1>7. CASE Up
  <2> DEFINE line == RequestLine(request)
  <2>1. c2s' = c2s \o Payload(line)
    BY <1>1, <1>7 DEF ClientSends, Up
  <2>2. Len(line) = Extra(request) + 4 /\ line \in Seq(UpTokens)
    BY RequestLineTokens, RequestLineIs
  <2> HIDE DEF line
  <2>3. /\ Len(c2s') = Len(c2s) + Len(line)
        /\ \A i \in 1 .. Len(c2s) : c2s'[i] = c2s[i]
        /\ \A j \in 1 .. Len(line) : c2s'[Len(c2s) + j][1] = line[j]
    <3>1. /\ Len(c2s \o Payload(line)) = Len(c2s) + Len(line)
          /\ \A i \in 1 .. Len(c2s) : (c2s \o Payload(line))[i] = c2s[i]
          /\ \A j \in 1 .. Len(line) : (c2s \o Payload(line))[Len(c2s) + j][1] = line[j]
      BY <1>3, <2>2, SentElements
    <3> QED
      BY <2>1, <3>1
  <2>4. Len(c2s) = m /\ Len(c2s') = m + (Extra(cur') + 4)
    BY <1>1, <1>5, <1>7, <2>2, <2>3
  <2>5. ASSUME NEW i \in 1..Len(c2s'), i > m
        PROVE  c2s'[i][1] = RequestLine(cur')[i - m]
    <3>1. i - m \in 1..Len(line) /\ Len(c2s) + (i - m) = i
      BY <1>1, <1>3, <1>4, <2>2, <2>4, <2>5
    <3>2. c2s'[i][1] = line[i - m]
      BY <2>3, <3>1
    <3> QED
      BY <1>1, <3>2 DEF line
  <2>6. \A i \in 1..Len(c2s') : i <= m => i \in 1..Len(c2s)
    BY <1>3, <2>4
  <2>7. Len(c2s') <= m + (Extra(cur') + 4)
    BY <1>3, <2>4
  <2> QED
    BY <1>2, <2>3, <2>4, <2>5, <2>6, <2>7
<1> QED
  BY <1>6, <1>7

LEMMA AskSync ==
    ASSUME TransferInv, TransferInv', InStep, NEW request \in Requests, Ask(request),
           request.cmd = "STOR" =>
             local[request.name] # Absent /\ request.size = Len(local[request.name]),
           Fits(request)
    PROVE  InStep'
<1>0. ServerSide /\ ClientSide /\ WholeFiles
  BY DEF InStep
<1>1. /\ cl = "prompt" /\ cur' = request /\ cl' \in {"await", "closed"}
      /\ UNCHANGED <<s2c, conn, sv, job, count, root, local, root0, faults, oversize>>
      /\ Up => cl' = "await"
  BY DEF Ask, ClientSends, svVars, fixed, Up
<1>2. s2c' = <<>> /\ ~Asked /\ Asked' /\ (Up' <=> Up)
  BY <1>0, <1>1 DEF ClientSide, Asked, Up
<1>3. Sent = job.size /\ Sent' = job.size
  BY <1>1, <1>2 DEF Sent
<1>4. ASSUME sv = "recv"
      PROVE  (\E m \in 0..2 : AfterThat(m) /\ \A i \in 1..Len(c2s) : i <= m => c2s[i][1] = NL)'
  <2>1. PICK m \in 0..2 : AfterThat(m) /\ \A i \in 1..Len(c2s) : i <= m => c2s[i][1] = NL
    BY <1>0, <1>4 DEF ServerSide
  <2>2. m \in Nat
    OBVIOUS
  <2>3. AfterThat(m)'
    BY <1>0, <2>1, <2>2, AskedThere DEF AfterThat
  <2>4. \A i \in 1..Len(c2s') : i <= m => c2s'[i][1] = NL
    BY <1>0, <2>1, <2>2, AskedThere
  <2> QED
    BY <2>3, <2>4
<1>5. ASSUME sv = "retr"
      PROVE  AfterThat(0)'
  <2>1. AfterThat(0)
    BY <1>0, <1>5 DEF ServerSide
  <2> QED
    BY <1>0, <2>1, AskedThere DEF AfterThat
<1>6. ASSUME sv = "stor"
      PROVE  (/\ local[job.name] # Absent /\ job.size = Len(local[job.name])
              /\ count <= Sent /\ AfterThat(Sent - count)
              /\ \A i \in 1..count : root[job.name][i] = local[job.name][i]
              /\ \A i \in 1..Len(c2s) : i <= Sent - count => c2s[i][1] = local[job.name][count + i])'
  <2> DEFINE k == job.size - count
  <2>1. /\ local[job.name] # Absent /\ job.size = Len(local[job.name])
        /\ count <= job.size /\ AfterThat(k)
        /\ \A i \in 1..count : root[job.name][i] = local[job.name][i]
        /\ \A i \in 1..Len(c2s) : i <= k => c2s[i][1] = local[job.name][count + i]
    BY <1>0, <1>3, <1>6 DEF ServerSide
  <2>2. k \in Nat
    BY Facts DEF Typed
  <2> HIDE DEF k
  <2>3. /\ Len(c2s') <= k + (IF Asked' THEN Extra(cur') + 4 ELSE 0)
        /\ Up' => Len(c2s') = k + (IF Asked' THEN Extra(cur') + 4 ELSE 0)
        /\ \A i \in 1..Len(c2s') : i > k => c2s'[i][1] = RequestLine(cur')[i - k]
        /\ \A i \in 1..Len(c2s') : i <= k => i \in 1..Len(c2s) /\ c2s'[i] = c2s[i]
    BY <1>0, <2>1, <2>2, AskedThere
  <2>4. k = Sent' - count'
    BY <1>1, <1>3 DEF k
  <2>5. AfterThat(Sent - count)'
    BY <2>3, <2>4 DEF AfterThat
  <2>6. (\A i \in 1..Len(c2s) : i <= Sent - count => c2s[i][1] = local[job.name][count + i])'
    BY <1>1, <2>1, <2>3, <2>4
  <2>7. (count <= Sent)'
    BY <1>1, <1>3, <2>1
  <2> QED
    BY <1>1, <2>1, <2>5, <2>6, <2>7
<1>7. ServerSide'
  BY <1>1, <1>4, <1>5, <1>6 DEF ServerSide
<1>8. ClientSide'
  <2>1. (Up => Together)'
    BY <1>0, <1>1, <1>2 DEF ClientSide, Together
  <2>2. (cur.cmd = "STOR" => local[cur.name] # Absent /\ cur.size = Len(local[cur.name]))'
        /\ (Fits(cur) /\ ~oversize)'
    BY <1>0, <1>1 DEF ClientSide
  <2> QED
    BY <1>1, <1>2, <2>1, <2>2 DEF ClientSide
<1>9. WholeFiles'
  BY <1>0, <1>1, WholeFilesKept
<1> QED
  BY <1>7, <1>8, <1>9 DEF InStep

LEMMA TypeSync ==
    ASSUME TransferInv, TransferInv', Calm, ShortNames, InStep, Type
    PROVE  InStep'
<1>1. CASE cmd_remote_list \/ cmd_quit
  <2>1. PICK cmd \in {"LIST", "QUIT"} : Ask(Request(cmd, "", NoSize))
    BY <1>1 DEF cmd_remote_list, cmd_quit
  <2>2. Request(cmd, "", NoSize) \in Requests /\ Request(cmd, "", NoSize).cmd # "STOR"
    BY RequestMade DEF Request
  <2>3. Fits(Request(cmd, "", NoSize))
    BY ShortFits DEF Extra, Request
  <2> QED
    BY <2>1, <2>2, <2>3, AskSync
<1>2. ASSUME NEW f \in Name, cmd_retr(f) \/ cmd_dele(f)
      PROVE  InStep'
  <2>1. PICK cmd \in {"RETR", "DELE"} : Ask(Request(cmd, f, NoSize))
    BY <1>2 DEF cmd_retr, cmd_dele
  <2>2. Request(cmd, f, NoSize) \in Requests /\ Request(cmd, f, NoSize).cmd # "STOR"
    BY RequestMade DEF Request
  <2>3. Fits(Request("RETR", f, NoSize))
    BY <1>2 DEF cmd_retr, cmd_dele, Typeable, Calm
  <2>4. Fits(Request(cmd, f, NoSize))
    BY <2>3 DEF Fits, Extra, Request
  <2> QED
    BY <2>1, <2>2, <2>4, AskSync
<1>3. ASSUME NEW f \in Name, cmd_stor(f)
      PROVE  InStep'
  <2> DEFINE request == Request("STOR", f, Len(local[f]))
  <2>1. local[f] # Absent /\ Len(local[f]) <= MaxFileSize /\ Ask(request)
    BY <1>3 DEF cmd_stor
  <2>2. request.name = f /\ request.size = Len(local[f])
    BY DEF Request
  <2>3. request \in Requests
    <3>1. ClientOK
      BY Parts
    <3>2. local[f] \in Seq(Data)
      BY <2>1, <3>1, FileTransferAssumption DEF ClientOK
    <3>3. Len(local[f]) \in 0..MaxFileSize
      BY <2>1, <3>2, LenProperties, FileTransferAssumption
    <3> QED
      BY <3>3, RequestMade
  <2>4. Fits(request)
    BY <2>1, <2>2, ShortFits DEF Extra, ShortNames
  <2> HIDE DEF request
  <2> QED
    BY <2>1, <2>2, <2>3, <2>4, AskSync
<1> QED
  BY <1>1, <1>2, <1>3 DEF Type

-----------------------------------------------------------------------------
(* The client: replies.                                                    *)

(* What is read of a reply, and what is left of the stream.                *)
LEMMA ReplyRead ==
    ASSUME TransferInv, TransferInv', TakeReply,
           NEW code \in {OK, BAD_FILE, SERVER_ERROR, COMMAND_NOT_IMPLEMENTED},
           NEW size \in Nat \union {NoSize}, NEW body, NEW n \in Nat,
           Replied(code, size, body, n)
    PROVE  /\ IsOK(FirstWord(s2c)) <=> code = OK
           /\ HasBody(FirstWord(s2c)) <=> code = OK /\ size >= 0
           /\ FirstWord(s2c).size = size
           /\ Len(s2c') \in Nat /\ Len(s2c') <= n /\ (Up => Len(s2c') = n)
           /\ \A i \in 1..Len(s2c') : s2c'[i][1] = body[i]
<1>1. HasLine(s2c) /\ s2c' = Drop(s2c, LineLength(s2c))
  BY DEF TakeReply
<1>2. /\ LineLength(s2c) = 4 /\ 4 <= Len(s2c)
      /\ FirstWord(s2c) = Reply(code, size, cur) /\ Reply(code, size, cur) \in Replies
  BY <1>1, ReplyLine
<1>3. Reply(code, size, cur).code = code /\ Reply(code, size, cur).size = size
  BY DEF Reply
<1>4. /\ IsOK(FirstWord(s2c)) <=> code = OK
      /\ HasBody(FirstWord(s2c)) <=> code = OK /\ size >= 0
      /\ FirstWord(s2c).size = size
  BY <1>2, <1>3 DEF IsOK, HasBody
<1>5. IsStream(s2c, DownTokens) /\ Len(s2c) \in Nat /\ Len(s2c') \in Nat
  BY Facts, FactsAfter DEF Typed
<1>6. Len(s2c') = Len(s2c) - 4 /\ \A k \in 1 .. Len(s2c) - 4 : s2c'[k] = s2c[4 + k]
  <2>1. /\ Len(Drop(s2c, 4)) = Len(s2c) - 4
        /\ \A k \in 1 .. Len(s2c) - 4 : Drop(s2c, 4)[k] = s2c[4 + k]
    BY <1>2, <1>5, DropElements
  <2>2. s2c' = Drop(s2c, 4)
    BY <1>1, <1>2
  <2> QED
    BY <2>1, <2>2
<1>7. /\ Len(s2c) <= n + 4 /\ (Up => Len(s2c) = n + 4)
      /\ \A i \in 1..Len(s2c) : ~(i <= 4) => s2c[i][1] = body[i - 4]
  BY DEF Replied
<1>8. ASSUME NEW i \in 1..Len(s2c')
      PROVE  s2c'[i][1] = body[i]
  <2>1. /\ i \in 1 .. Len(s2c) - 4 /\ 4 + i \in 1..Len(s2c) /\ ~(4 + i <= 4) /\ 4 + i - 4 = i
    BY <1>5, <1>6
  <2> QED
    BY <1>6, <1>7, <2>1
<1>9. Len(s2c') <= n /\ (Up => Len(s2c') = n)
  BY <1>5, <1>6, <1>7
<1> QED
  BY <1>4, <1>5, <1>8, <1>9

(* There is a reply to be read.                                            *)
LEMMA ReplyThere ==
    ASSUME TransferInv, ClientSide, TakeReply
    PROVE  cl = "await" /\ ~Asked /\ Answered
<1>1. cl = "await" /\ HasLine(s2c)
  BY DEF TakeReply
<1>2. s2c # <<>>
  <2>1. PICK i \in 1..Len(s2c) : TRUE
    BY <1>1 DEF HasLine, LineEnds
  <2> QED
    BY <2>1
<1> QED
  BY <1>1, <1>2 DEF Asked, ClientSide

LEMMA CodesAre ==
    /\ OK \in {OK, BAD_FILE, SERVER_ERROR, COMMAND_NOT_IMPLEMENTED}
    /\ \A code \in {BAD_FILE, SERVER_ERROR, COMMAND_NOT_IMPLEMENTED} :
         code # OK /\ code \in {OK, BAD_FILE, SERVER_ERROR, COMMAND_NOT_IMPLEMENTED}
    /\ NoSize \in Nat \union {NoSize} /\ ~(NoSize >= 0)
BY DEF OK, BAD_FILE, SERVER_ERROR, COMMAND_NOT_IMPLEMENTED, NoSize

(* A reply without a body is all there was in the stream.                  *)
LEMMA RefusedRead ==
    ASSUME TransferInv, TransferInv', TakeReply, Refused
    PROVE  ~IsOK(FirstWord(s2c)) /\ ~HasBody(FirstWord(s2c)) /\ s2c' = <<>>
<1>1. PICK code \in {BAD_FILE, SERVER_ERROR, COMMAND_NOT_IMPLEMENTED} :
              Replied(code, NoSize, <<>>, 0)
  BY DEF Refused
<1>2. /\ code # OK /\ code \in {OK, BAD_FILE, SERVER_ERROR, COMMAND_NOT_IMPLEMENTED}
      /\ NoSize \in Nat \union {NoSize}
  BY CodesAre
<1>3. ~IsOK(FirstWord(s2c)) /\ ~HasBody(FirstWord(s2c)) /\ Len(s2c') \in Nat /\ Len(s2c') <= 0
  BY <1>1, <1>2, ReplyRead
<1> QED
  BY <1>3, FactsAfter DEF Typed

LEMMA AcceptedRead ==
    ASSUME TransferInv, TransferInv', TakeReply, Replied(OK, NoSize, <<>>, 0)
    PROVE  IsOK(FirstWord(s2c)) /\ s2c' = <<>>
<1>1. IsOK(FirstWord(s2c)) /\ Len(s2c') \in Nat /\ Len(s2c') <= 0
  BY CodesAre, ReplyRead
<1> QED
  BY <1>1, FactsAfter DEF Typed

(* What a reply that has been read must leave behind.                      *)
LEMMA AfterReply ==
    ASSUME TransferInv, TransferInv', InStep, TakeReply, cur.cmd # "QUIT",
           cl' \in {"prompt", "get", "list", "put"},
           sv = "stor" => cl' = "put" /\ need' = cur.size,
           sv = "retr" /\ count # job.size => cl' = "get",
           cl' = "prompt" => s2c' = <<>>,
           cl' = "get" => Getting', cl' = "list" => Listed', cl' = "put" => Putting'
    PROVE  InStep'
<1>0. ServerSide /\ ClientSide /\ WholeFiles
  BY DEF InStep
<1>1. UNCHANGED <<c2s, conn, cur, oversize, svVars, sv, job, count, root, local, root0, faults>>
  BY DEF TakeReply, fixed, svVars
<1>2. cl = "await" /\ ~Asked /\ ~Asked' /\ (Up' <=> Up)
  BY <1>0, <1>1, ReplyThere DEF Asked, Up
<1>3. UpStreamCut
  BY <1>1, <1>2, Facts DEF Typed, UpStreamCut
<1>4. AskedKept
  <2>1. sv = "stor" => Sent = 0 /\ Sent' = 0
    <3>1. cur.size \in Int
      BY Facts DEF Typed
    <3> QED
      BY <1>1, <1>2, <3>1 DEF Sent
  <2> QED
    BY <1>2, <2>1 DEF AskedKept
<1>5. ServerSide'
  BY <1>0, <1>1, <1>3, <1>4, ServerSideKept
<1>6. (Up => Together)'
  BY <1>0, <1>1, <1>2 DEF ClientSide, Together
<1>7. ClientSide'
  BY <1>0, <1>1, <1>2, <1>6 DEF ClientSide
<1>8. WholeFiles'
  BY <1>0, <1>1, WholeFilesKept
<1> QED
  BY <1>5, <1>7, <1>8 DEF InStep

LEMMA ReplyToListSync ==
    ASSUME TransferInv, TransferInv', InStep, ReplyToList
    PROVE  InStep'
<1> DEFINE w == FirstWord(s2c)
<1>0. ClientSide
  BY DEF InStep
<1>1. /\ TakeReply /\ cur.cmd = "LIST"
      /\ HasBody(w) => cl' = "list" /\ need' = w.size
      /\ ~HasBody(w) => cl' = "prompt"
  BY DEF ReplyToList
<1>2. UNCHANGED <<conn, cur, sv, job, count, root>>
  BY <1>1 DEF TakeReply, svVars
<1>3. Refused \/ Enumerated
  BY <1>0, <1>1, ReplyThere DEF Answered, Removed, Opened, Released, Offered, Announced, Accepted
<1>4. sv \in {"recv", "closed"}
  BY <1>3 DEF Refused, Enumerated
<1>5. CASE Refused
  <2>1. cl' = "prompt" /\ s2c' = <<>>
    BY <1>1, <1>5, RefusedRead
  <2> QED
    BY <1>1, <1>4, <2>1, AfterReply
<1>6. CASE Enumerated
  <2> DEFINE n == Len(Listing)
  <2>1. n \in Nat /\ n >= 0 /\ UNCHANGED Listing /\ Len(Listing) = n
    BY <1>2, ListingIs, ListingKept, LenProperties
  <2>2. Replied(OK, n, Listing, n)
    BY <1>6 DEF Enumerated
  <2> HIDE DEF n, w
  <2>3. /\ HasBody(w) /\ w.size = n
        /\ Len(s2c') \in Nat /\ Len(s2c') <= n /\ (Up => Len(s2c') = n)
        /\ \A i \in 1..Len(s2c') : s2c'[i][1] = Listing[i]
    BY <1>1, <2>1, <2>2, CodesAre, ReplyRead DEF w
  <2>4. cl' = "list" /\ need' = n
    BY <1>1, <2>3
  <2>5. Listed'
    <3>1. need' <= n /\ n - need' = 0 /\ n - (n - need') = n
      BY <2>1, <2>4
    <3>2. \A i \in 1..Len(s2c') : 0 + i = i
      BY <2>3
    <3>3. Rests(Listing, Len(Listing) - need, Len(Listing))'
      BY <1>2, <2>1, <2>3, <3>1, <3>2 DEF Rests, Up
    <3> QED
      BY <1>1, <1>2, <1>4, <2>1, <3>1, <3>3 DEF Listed
  <2> QED
    BY <1>1, <1>4, <2>4, <2>5, AfterReply
<1> QED
  BY <1>3, <1>5, <1>6

(* A directory is no file of root/.                                        *)
LEMMA NoDirectory ==
    ASSUME TransferInv, NEW f, f \in Directories
    PROVE  root[f] = Absent
<1>1. f \in Name /\ f \notin Parola
  BY FileTransferAssumption
<1>2. root0[f] = Absent
  BY FileTransferAssumption DEF TransferInv
<1> QED
  BY <1>1, <1>2 DEF TransferInv

LEMMA ReplyToRetrSync ==
    ASSUME TransferInv, TransferInv', Calm, InStep, ReplyToRetr
    PROVE  InStep'
<1> DEFINE w == FirstWord(s2c)
<1>0. ClientSide
  BY DEF InStep
<1>1. /\ TakeReply /\ cur.cmd = "RETR"
      /\ HasBody(w) /\ cur.name \notin Directories =>
           /\ cl' = "get" /\ need' = w.size
           /\ downloads' = [downloads EXCEPT ![cur.name] = <<>>]
      /\ ~HasBody(w) \/ cur.name \in Directories => cl' = "prompt"
  BY DEF ReplyToRetr, Calm
<1>2. UNCHANGED <<conn, cur, sv, job, count, root>>
  BY <1>1 DEF TakeReply, svVars
<1>3. Refused \/ Opened \/ Offered
  BY <1>0, <1>1, ReplyThere DEF Answered, Removed, Released, Enumerated, Accepted
<1>4. CASE Refused
  <2>1. cl' = "prompt" /\ s2c' = <<>>
    BY <1>1, <1>4, RefusedRead
  <2>2. sv \in {"recv", "closed"}
    BY <1>4 DEF Refused
  <2> QED
    BY <1>1, <2>1, <2>2, AfterReply
<1>6. CASE Opened
  <2>1. PICK size \in SeekEnds : Replied(OK, size, <<>>, 0)
    BY <1>6 DEF Opened
  <2>2. size \in Nat \union {NoSize}
    BY FileTransferAssumption
  <2>3. Len(s2c') \in Nat /\ Len(s2c') <= 0
    BY <1>1, <2>1, <2>2, CodesAre, ReplyRead
  <2>4. s2c' = <<>>
    BY <2>3, FactsAfter DEF Typed
  <2>5. cl' = "prompt" /\ sv \in {"recv", "closed"}
    BY <1>1, <1>6 DEF Opened
  <2> QED
    BY <1>1, <2>4, <2>5, AfterReply
<1>5. CASE Offered
  <2> DEFINE file == root[job.name]
  <2>1. Announced /\ Replied(OK, job.size, file, count)
    BY <1>5 DEF Offered
  <2>2. job.size \in Nat /\ count \in Nat /\ cur \in Requests
    BY Facts DEF Typed
  <2>3. job.size >= 0
    BY <2>2
  <2> HIDE DEF file, w
  <2>4. /\ HasBody(w) /\ w.size = job.size
        /\ Len(s2c') \in Nat /\ Len(s2c') <= count /\ (Up => Len(s2c') = count)
        /\ \A i \in 1..Len(s2c') : s2c'[i][1] = file[i]
    BY <1>1, <2>1, <2>2, <2>3, CodesAre, ReplyRead DEF w
  <2>5. /\ cl' = "get" /\ need' = job.size
        /\ downloads' = [downloads EXCEPT ![cur.name] = <<>>]
    <3>1. cur.name \notin Directories
      BY <2>1, NoDirectory DEF Announced
    <3> QED
      BY <1>1, <2>4, <3>1
  <2>6. downloads'[cur.name] = <<>>
    <3>1. cur.name \in Name
      BY <1>1, <2>2, RequestIs
    <3>2. ClientOK
      BY Parts
    <3>3. downloads \in [Name -> Seq(DownTokens) \union {Absent}]
      BY <3>2 DEF ClientOK
    <3> QED
      BY <2>5, <3>1, <3>3
  <2>7. Getting'
    <3>1. Len(downloads'[cur.name]) = 0
      BY <2>6
    <3>2. \A i \in 1..Len(s2c') : 0 + i = i
      BY <2>4
    <3>3. Len(s2c') <= count - 0 /\ (Up => Len(s2c') = count - 0)
      BY <2>2, <2>4
    <3>4. /\ Len(s2c') <= count - Len(downloads'[cur.name])
          /\ (Up' => Len(s2c') = count - Len(downloads'[cur.name]))
          /\ \A i \in 1..Len(s2c') : s2c'[i][1] = file[Len(downloads'[cur.name]) + i]
      BY <1>2, <2>4, <3>1, <3>2, <3>3 DEF Up
    <3>5. Rests(root[job.name], Len(downloads[cur.name]), count)'
      BY <1>2, <3>4 DEF Rests, file
    <3>6. Announced'
      BY <1>2, <2>1 DEF Announced
    <3>7. Len(downloads'[cur.name]) + need' = job.size /\ Len(downloads'[cur.name]) <= count
      BY <2>2, <2>5, <3>1
    <3>8. \A i \in 1..Len(downloads'[cur.name]) : FALSE
      BY <3>1
    <3> QED
      BY <1>2, <3>5, <3>6, <3>7, <3>8 DEF Getting
  <2>8. sv # "stor"
    BY <2>1 DEF Announced
  <2> QED
    BY <1>1, <2>5, <2>7, <2>8, AfterReply
<1> QED
  BY <1>3, <1>4, <1>5, <1>6

LEMMA ReplyToStorSync ==
    ASSUME TransferInv, TransferInv', Calm, InStep, ReplyToStor
    PROVE  InStep'
<1>0. ClientSide
  BY DEF InStep
<1>1. TakeReply /\ cur.cmd = "STOR"
  BY DEF ReplyToStor
<1>2. UNCHANGED <<conn, cur, sv, job, count, root, local>>
  BY <1>1 DEF TakeReply, svVars, fixed
<1>3. local[cur.name] # Absent
  BY <1>0, <1>1 DEF ClientSide
<1>4. /\ IsOK(FirstWord(s2c)) => cl' = "put" /\ need' = cur.size /\ upload' = local[cur.name]
      /\ ~IsOK(FirstWord(s2c)) => cl' = "prompt"
  <2>1. Reopened(cur.name) = {local[cur.name]}
    BY DEF Reopened, Calm
  <2> QED
    BY <1>3, <2>1 DEF ReplyToStor
<1>5. Refused \/ Accepted
  BY <1>0, <1>1, ReplyThere DEF Answered, Removed, Opened, Released, Enumerated, Offered, Announced
<1>6. CASE Refused
  <2>1. cl' = "prompt" /\ s2c' = <<>>
    BY <1>1, <1>4, <1>6, RefusedRead
  <2>2. sv \in {"recv", "closed"}
    BY <1>6 DEF Refused
  <2> QED
    BY <1>1, <2>1, <2>2, AfterReply
<1>7. CASE Accepted
  <2>1. /\ cl' = "put" /\ need' = cur.size /\ upload' = local[cur.name] /\ s2c' = <<>>
    BY <1>1, <1>4, <1>7, AcceptedRead DEF Accepted
  <2>2. Putting'
    BY <1>1, <1>2, <1>7, <2>1 DEF Accepted, Putting, Up
  <2>3. sv # "retr"
    BY <1>7 DEF Accepted
  <2> QED
    BY <1>1, <2>1, <2>2, <2>3, AfterReply
<1> QED
  BY <1>5, <1>6, <1>7

LEMMA ReplyToDeleSync ==
    ASSUME TransferInv, TransferInv', InStep, ReplyToDele
    PROVE  InStep'
<1>0. ClientSide
  BY DEF InStep
<1>1. TakeReply /\ cur.cmd = "DELE" /\ cl' = "prompt"
  BY DEF ReplyToDele
<1>2. Refused \/ Removed
  BY <1>0, <1>1, ReplyThere DEF Answered, Opened, Released, Enumerated, Offered, Announced, Accepted
<1>3. s2c' = <<>> /\ sv \in {"recv", "closed"}
  BY <1>1, <1>2, RefusedRead, AcceptedRead DEF Refused, Removed
<1> QED
  BY <1>1, <1>3, AfterReply

LEMMA ReplyToQuitSync ==
    ASSUME TransferInv, TransferInv', InStep, ReplyToQuit
    PROVE  InStep'
<1>0. ServerSide /\ ClientSide /\ WholeFiles
  BY DEF InStep
<1>1. TakeReply /\ cur.cmd = "QUIT" /\ cl' = "closed"
  BY DEF ReplyToQuit
<1>2. UNCHANGED <<c2s, conn, cur, oversize, svVars, sv, job, count, root, local, root0, faults>>
  BY <1>1 DEF TakeReply, fixed, svVars
<1>3. Released
  BY <1>0, <1>1, ReplyThere DEF Answered, Refused, Removed, Opened, Enumerated, Offered, Announced, Accepted
<1>4. ServerSide'
  BY <1>2, <1>3 DEF Released, ServerSide
<1>5. ClientSide'
  BY <1>0, <1>1, <1>2, <1>3 DEF ClientSide, Together, Released
<1>6. WholeFiles'
  BY <1>0, <1>2, WholeFilesKept
<1> QED
  BY <1>4, <1>5, <1>6 DEF InStep

-----------------------------------------------------------------------------
(* The client: bodies.                                                     *)

(* The stream to the client once n tokens of it have been read.           *)
LEMMA DropDown ==
    ASSUME TransferInv, NEW n \in Nat, n <= Len(s2c), s2c' = Drop(s2c, n)
    PROVE  Len(s2c') = Len(s2c) - n /\ \A k \in 1 .. Len(s2c) - n : s2c'[k] = s2c[n + k]
<1>1. IsStream(s2c, DownTokens)
  BY Facts DEF Typed
<1>2. /\ Len(Drop(s2c, n)) = Len(s2c) - n
      /\ \A k \in 1 .. Len(s2c) - n : Drop(s2c, n)[k] = s2c[n + k]
  BY <1>1, DropElements
<1> QED
  BY <1>2

(* The rest of a body once n more tokens of it have been read.             *)
LEMMA RestsRead ==
    ASSUME TransferInv, NEW n \in Nat, n <= Len(s2c), s2c' = Drop(s2c, n), UNCHANGED conn,
           NEW body, NEW from \in Nat, NEW to \in Nat,
           Len(s2c) <= to - from, Up => Len(s2c) = to - from,
           \A i \in 1..Len(s2c) : s2c[i][1] = body[from + i]
    PROVE  /\ from + n <= to
           /\ Len(s2c') <= to - (from + n) /\ (Up' => Len(s2c') = to - (from + n))
           /\ \A i \in 1..Len(s2c') : s2c'[i][1] = body[from + n + i]
           /\ \A k \in 1..n : s2c[k][1] = body[from + k]
<1>1. IsStream(s2c, DownTokens) /\ Len(s2c) \in Nat
  BY Facts DEF Typed
<1>2. Len(s2c') = Len(s2c) - n /\ \A k \in 1 .. Len(s2c) - n : s2c'[k] = s2c[n + k]
  BY DropDown
<1>3. /\ Len(s2c) <= to - from /\ (Up => Len(s2c) = to - from)
      /\ \A i \in 1..Len(s2c) : s2c[i][1] = body[from + i]
  OBVIOUS
<1>4. from + n <= to /\ Len(s2c') <= to - (from + n)
  BY <1>1, <1>2, <1>3
<1>5. Up' => Len(s2c') = to - (from + n)
  BY <1>1, <1>2, <1>3 DEF Up
<1>6. ASSUME NEW i \in 1..Len(s2c')
      PROVE  s2c'[i][1] = body[from + n + i]
  <2>1. i \in 1 .. Len(s2c) - n /\ n + i \in 1..Len(s2c) /\ from + (n + i) = from + n + i
    BY <1>1, <1>2
  <2> QED
    BY <1>2, <1>3, <2>1
<1>7. \A k \in 1..n : s2c[k][1] = body[from + k]
  BY <1>1, <1>3
<1> QED
  BY <1>4, <1>5, <1>6, <1>7

LEMMA ClientReadsSync ==
    ASSUME TransferInv, TransferInv', InStep, ClientReads
    PROVE  InStep'
<1> DEFINE size == Smaller(need, BufferSize)
           n == Received(s2c, size)
           piece == Tokens(SubSeq(s2c, 1, n))
<1>0. ServerSide /\ ClientSide /\ WholeFiles /\ BufferSize \in Nat \ {0}
  BY FileTransferAssumption DEF InStep
<1>1. /\ cl \in {"get", "list"} /\ need > 0 /\ s2c # <<>> /\ RecvFragment(n)
      /\ s2c' = Drop(s2c, n) /\ need' = need - n
      /\ UNCHANGED <<c2s, conn, cl, cur, oversize, svVars, sv, job, count, root, local, root0,
                     faults>>
  BY DEF ClientReads, fixed, svVars
<1>2. /\ IsStream(s2c, DownTokens) /\ Len(s2c) \in Nat /\ need \in Nat /\ count \in Nat
      /\ job.size \in Nat
  BY Facts DEF Typed
<1>3. size \in Nat \ {0} /\ size <= need
  <2>1. need \in Nat /\ BufferSize \in Nat
    BY <1>0, <1>2
  <2>2. size \in Nat /\ size <= need /\ size \in {need, BufferSize}
    BY <2>1, SmallerIs, Zenon
  <2> QED
    BY <1>0, <1>1, <2>1, <2>2
<1> HIDE DEF size
<1>4. n \in 1..size /\ n <= Len(s2c)
  BY <1>1, <1>2, <1>3, ReceivedIs
<1> HIDE DEF n
<1>5. n \in Nat /\ n <= need
  BY <1>2, <1>3, <1>4
<1>6. /\ piece \in Seq(DownTokens) /\ Len(piece) = n
      /\ \A k \in 1..n : piece[k] = s2c[k][1]
  BY <1>2, <1>4, <1>5, PieceElements
<1>7. cl = "get" => downloads' = [downloads EXCEPT ![cur.name] = downloads[cur.name] \o piece]
  BY <1>1 DEF RecvFragment
<1> HIDE DEF piece
<1>8. ServerSide'
  <2>1. UpStreamCut
    BY <1>1, <1>2, Facts DEF Typed, UpStreamCut, Up
  <2>2. AskedKept
    BY <1>1 DEF AskedKept, Asked, Sent
  <2> QED
    BY <1>0, <1>1, <2>1, <2>2, ServerSideKept
<1>9. ASSUME cl = "get"
      PROVE  Getting'
  <2> DEFINE copy == downloads[cur.name]
             file == root[job.name]
             l == Len(copy)
  <2>1. /\ Announced /\ l + need = job.size /\ l <= count
        /\ \A i \in 1..l : copy[i] = file[i]
        /\ Rests(file, l, count)
    BY <1>0, <1>9 DEF ClientSide, Getting
  <2>2. copy \in Seq(DownTokens) /\ l \in Nat /\ cur.name \in Name
    BY <1>9, CopyIs
  <2>3. downloads'[cur.name] = copy \o piece
    <3>1. ClientOK
      BY Parts
    <3>2. downloads \in [Name -> Seq(DownTokens) \union {Absent}]
      BY <3>1 DEF ClientOK
    <3> QED
      BY <1>7, <1>9, <2>2, <3>2
  <2> HIDE DEF copy, file
  <2>4. /\ Len(copy \o piece) = l + n
        /\ \A i \in 1 .. l + n : (copy \o piece)[i] = IF i <= l THEN copy[i] ELSE piece[i - l]
    <3>1. /\ Len(copy \o piece) = Len(copy) + Len(piece)
          /\ \A i \in 1 .. Len(copy) + Len(piece) :
               (copy \o piece)[i] = IF i <= Len(copy) THEN copy[i] ELSE piece[i - Len(copy)]
      BY <1>6, <2>2, ConcatProperties
    <3> QED
      BY <1>6, <3>1
  <2> HIDE DEF l
  <2>5. /\ l + n <= count
        /\ Len(s2c') <= count - (l + n) /\ (Up' => Len(s2c') = count - (l + n))
        /\ \A i \in 1..Len(s2c') : s2c'[i][1] = file[l + n + i]
        /\ \A k \in 1..n : s2c[k][1] = file[l + k]
    <3>1. /\ n \in Nat /\ n <= Len(s2c) /\ s2c' = Drop(s2c, n) /\ UNCHANGED conn
          /\ l \in Nat /\ count \in Nat
          /\ Len(s2c) <= count - l /\ (Up => Len(s2c) = count - l)
          /\ \A i \in 1..Len(s2c) : s2c[i][1] = file[l + i]
      BY <1>1, <1>2, <1>4, <1>5, <2>1, <2>2 DEF Rests
    <3> QED
      BY <3>1, RestsRead
  <2>6. ASSUME NEW i \in 1 .. l + n
        PROVE  (copy \o piece)[i] = file[i]
    <3>1. CASE i <= l
      <4>1. i \in 1..l
        BY <2>2, <3>1
      <4> QED
        BY <2>1, <2>4, <3>1, <4>1
    <3>2. CASE ~(i <= l)
      <4>1. i - l \in 1..n /\ l + (i - l) = i
        BY <1>5, <2>2, <3>2
      <4> QED
        BY <1>6, <2>4, <2>5, <3>2, <4>1
    <3> QED
      BY <3>1, <3>2
  <2>7. Rests(root[job.name], Len(downloads[cur.name]), count)'
    BY <1>1, <2>3, <2>4, <2>5 DEF Rests, file
  <2>8. Announced'
    BY <1>1, <2>1 DEF Announced
  <2>9. l + n + need' = job.size
    BY <1>1, <1>2, <1>5, <2>1, <2>2
  <2>10. /\ Len(downloads'[cur.name]) = l + n
         /\ \A i \in 1 .. l + n : downloads'[cur.name][i] = file[i]
    BY <2>3, <2>4, <2>6
  <2> QED
    BY <1>1, <2>5, <2>7, <2>8, <2>9, <2>10 DEF Getting, file
<1>10. ASSUME cl = "list"
       PROVE  Listed'
  <2> DEFINE l == Len(Listing)
             done == l - need
  <2>1. l \in Nat /\ UNCHANGED Listing
    BY <1>1, ListingIs, ListingKept, LenProperties
  <2>2. /\ cur.cmd = "LIST" /\ sv \in {"recv", "closed"} /\ need <= l
        /\ Rests(Listing, done, l)
    BY <1>0, <1>10 DEF ClientSide, Listed
  <2>3. done \in Nat /\ done + n = l - need' /\ l' = l /\ need' <= l
    BY <1>1, <1>2, <1>5, <2>1, <2>2
  <2> HIDE DEF l, done
  <2>4. /\ Len(s2c') <= l - (done + n) /\ (Up' => Len(s2c') = l - (done + n))
        /\ \A i \in 1..Len(s2c') : s2c'[i][1] = Listing[done + n + i]
    <3>1. /\ Len(s2c) <= l - done /\ (Up => Len(s2c) = l - done)
          /\ \A i \in 1..Len(s2c) : s2c[i][1] = Listing[done + i]
      BY <2>2 DEF Rests
    <3>2. Len(s2c') = Len(s2c) - n /\ \A k \in 1 .. Len(s2c) - n : s2c'[k] = s2c[n + k]
      BY <1>1, <1>4, <1>5, DropDown
    <3>3. Len(s2c') <= l - (done + n)
      BY <1>2, <1>5, <2>1, <2>3, <3>1, <3>2
    <3>4. Up' => Len(s2c') = l - (done + n)
      BY <1>1, <1>2, <1>5, <2>1, <2>3, <3>1, <3>2 DEF Up
    <3>5. ASSUME NEW i \in 1..Len(s2c')
          PROVE  s2c'[i][1] = Listing[done + n + i]
      <4>1. /\ i \in 1 .. Len(s2c) - n /\ n + i \in 1..Len(s2c)
            /\ done + (n + i) = done + n + i
        BY <1>2, <1>5, <2>3, <3>2
      <4> QED
        BY <3>1, <3>2, <4>1
    <3> QED
      BY <3>3, <3>4, <3>5
  <2>5. Rests(Listing, Len(Listing) - need, Len(Listing))'
    BY <2>1, <2>3, <2>4 DEF Rests, l
  <2> QED
    BY <1>1, <2>1, <2>2, <2>3, <2>5 DEF Listed, l
<1>11. (Up => Together)'
  BY <1>0, <1>1 DEF ClientSide, Together, Up
<1>12. ClientSide'
  BY <1>0, <1>1, <1>9, <1>10, <1>11 DEF ClientSide
<1>13. WholeFiles'
  BY <1>0, <1>1, WholeFilesKept
<1> QED
  BY <1>8, <1>12, <1>13 DEF InStep

(* What is left when a body is complete.                                   *)
LEMMA BodyIsWhole ==
    ASSUME TransferInv, ClientSide, cl \in {"get", "list", "put"}, need = 0
    PROVE  /\ s2c = <<>>
           /\ cl = "get" => /\ count = job.size /\ Len(downloads[cur.name]) = job.size
                            /\ Announced
                            /\ \A i \in 1..job.size : downloads[cur.name][i] = root[job.name][i]
<1>1. /\ Len(s2c) \in Nat /\ (s2c = <<>> <=> Len(s2c) = 0)
      /\ count \in Nat /\ job.size \in Nat /\ count <= job.size
  BY Facts DEF Typed
<1>2. CASE cl = "get"
  <2> DEFINE l == Len(downloads[cur.name])
  <2>1. /\ Announced /\ l + need = job.size /\ l <= count /\ Len(s2c) <= count - l
        /\ \A i \in 1..l : downloads[cur.name][i] = root[job.name][i]
    BY <1>2 DEF ClientSide, Getting, Rests
  <2>2. l \in Nat
    BY <1>2, CopyIs
  <2> HIDE DEF l
  <2>3. l = job.size /\ count = job.size /\ Len(s2c) = 0
    BY <1>1, <2>1, <2>2
  <2> QED
    BY <1>1, <1>2, <2>1, <2>3 DEF l
<1>3. CASE cl = "list"
  <2> DEFINE l == Len(Listing)
  <2>1. Len(s2c) <= l - (l - need) /\ l \in Nat
    BY <1>3, ListingIs, LenProperties DEF ClientSide, Listed, Rests
  <2> HIDE DEF l
  <2>2. Len(s2c) = 0
    BY <1>1, <2>1
  <2> QED
    BY <1>1, <1>3, <2>2
<1>4. CASE cl = "put"
  BY <1>4 DEF ClientSide, Putting
<1> QED
  BY <1>2, <1>3, <1>4

LEMMA BodyDoneSync ==
    ASSUME TransferInv, TransferInv', InStep, BodyDone
    PROVE  InStep'
<1>0. ServerSide /\ ClientSide /\ WholeFiles
  BY DEF InStep
<1>1. /\ cl \in {"get", "list", "put"} /\ need = 0 /\ cl' = "prompt"
      /\ UNCHANGED <<c2s, s2c, conn, cur, oversize, svVars, sv, job, count, root, local, root0,
                     faults>>
  BY DEF BodyDone, fixed, svVars
<1>2. s2c' = <<>> /\ (cl = "get" => count = job.size)
  BY <1>0, <1>1, BodyIsWhole
<1>3. AskedKept
  <2>1. Asked' <=> Asked
    BY <1>1 DEF Asked
  <2>2. sv = "stor" => Sent = job.size /\ Sent' = job.size
    <3>1. CASE cl = "put" /\ sv = "stor"
      <4>1. job.size = cur.size
        BY <1>0, <3>1 DEF ClientSide, Putting
      <4>2. Sent = cur.size - 0 /\ Sent' = job.size /\ cur.size \in Int
        BY <1>1, <3>1, Facts DEF Sent, Typed
      <4> QED
        BY <4>1, <4>2
    <3>2. CASE cl # "put"
      BY <1>1, <3>2 DEF Sent
    <3> QED
      BY <3>1, <3>2
  <2> QED
    BY <2>1, <2>2 DEF AskedKept
<1>4. ServerSide'
  BY <1>0, <1>1, <1>3, StreamsSame, ServerSideKept
<1>5. ClientSide'
  <2>1. (Up => Together)'
    BY <1>0, <1>1, <1>2 DEF ClientSide, Together, Up
  <2> QED
    BY <1>0, <1>1, <1>2, <2>1 DEF ClientSide
<1>6. WholeFiles'
  BY <1>0, <1>1, WholeFilesKept
<1> QED
  BY <1>4, <1>5, <1>6 DEF InStep

LEMMA ClientRecvFailsSync ==
    ASSUME TransferInv, TransferInv', InStep, ClientRecvFails
    PROVE  InStep'
<1>0. ServerSide /\ ClientSide /\ WholeFiles
  BY DEF InStep
<1>1. /\ cl \in {"await", "get", "list"} /\ cl' = "closed" /\ ~Up'
      /\ UNCHANGED <<c2s, s2c, conn, cur, oversize, svVars, sv, job, count, root, local, root0,
                     faults>>
  BY DEF ClientRecvFails, fixed, svVars, Up
<1>2. AskedKept
  <2>1. CASE Asked
    BY <1>1, <2>1 DEF AskedKept, Asked, Sent
  <2>2. CASE ~Asked
    <3>1. Sent' = job.size /\ (Sent = job.size \/ Sent = 0) /\ job.size \in Nat
      BY <1>1, <2>2, Facts DEF Sent, Typed
    <3> DEFINE before == Sent
               after == Sent'
    <3>2. after = job.size /\ (before = job.size \/ before = 0)
      BY <3>1
    <3> HIDE DEF before, after
    <3>3. before <= after
      BY <3>1, <3>2
    <3> QED
      BY <1>1, <2>2, <3>3 DEF AskedKept, before, after
  <2> QED
    BY <2>1, <2>2
<1>3. ServerSide'
  BY <1>0, <1>1, <1>2, StreamsSame, ServerSideKept
<1>4. ClientSide'
  BY <1>0, <1>1 DEF ClientSide
<1>5. WholeFiles'
  BY <1>0, <1>1, WholeFilesKept
<1> QED
  BY <1>3, <1>4, <1>5 DEF InStep

LEMMA SendFragmentSync ==
    ASSUME TransferInv, TransferInv', InStep, send_fragment
    PROVE  InStep'
<1> DEFINE off == cur.size - need
           n == Smaller(need, BufferSize)
           piece == [i \in 1..n |-> IF off + i <= Len(upload) THEN upload[off + i] ELSE Stale]
           file == local[cur.name]
<1>0. ServerSide /\ ClientSide /\ WholeFiles /\ BufferSize \in Nat \ {0}
  BY FileTransferAssumption DEF InStep
<1>1. /\ cl = "put" /\ need > 0 /\ ClientSends(piece, "put") /\ need' = need - n
      /\ UNCHANGED <<s2c, conn, cur, upload, oversize, svVars, sv, job, count, root, local, root0,
                     faults>>
  BY Zenon DEF send_fragment, fixed, svVars
<1>13. ~oversize
  BY <1>0 DEF ClientSide
<1>2. /\ IsStream(c2s, UpTokens) /\ Len(c2s) \in Nat /\ Len(c2s') \in Nat
      /\ need \in Nat /\ cur.size \in Int /\ need <= cur.size /\ count \in Nat
      /\ conn \in {"up", "down"}
  BY <1>1, Facts, FactsAfter DEF Typed
<1>3. n \in Nat /\ n <= need
  <2>1. need \in Nat /\ BufferSize \in Nat
    BY <1>0, <1>2
  <2> QED
    BY <2>1, SmallerIs, Zenon
<1>4. off \in Nat /\ off + n <= cur.size
  BY <1>2, <1>3
<1>5. /\ cur.cmd = "STOR" /\ upload = file /\ s2c = <<>>
      /\ sv \in {"stor", "recv", "closed"}
      /\ sv = "stor" => job = [name |-> cur.name, size |-> cur.size]
      /\ Up /\ sv = "recv" => need = 0
  BY <1>0, <1>1 DEF ClientSide, Putting
<1>6. file # Absent /\ Len(file) = cur.size
  BY <1>0, <1>5 DEF ClientSide
<1> HIDE DEF n, off
<1>7. \A i \in 1..n : piece[i] = file[off + i]
  <2>1. \A i \in 1..n : off + i <= Len(upload)
    BY <1>2, <1>3, <1>4, <1>5, <1>6
  <2> QED
    BY <1>5, <2>1
<1>8. piece \in Seq(UpTokens) /\ Len(piece) = n
  <2>1. upload \in Seq(Data)
    <3>1. ClientOK
      BY Parts
    <3> QED
      BY <3>1 DEF ClientOK
  <2>2. \A i \in 1..n : off + i <= Len(upload) => off + i \in 1..Len(upload)
    BY <1>2, <1>3, <1>4, <1>5, <1>6
  <2>3. piece \in [1..n -> Data]
    <3>1. \A i \in 1..n : off + i <= Len(upload) => upload[off + i] \in Data
      BY <2>1, <2>2, ElementOfSeq
    <3>2. Stale \in Data
      BY FileTransferAssumption
    <3> QED
      BY <3>1, <3>2, Zenon
  <2>4. piece \in Seq(Data)
    BY <1>3, <2>3, SeqDef
  <2>5. piece \in Seq(UpTokens)
    BY <2>4, PlainIsUp, SeqMonotonic
  <2> HIDE DEF piece
  <2> QED
    BY <1>3, <2>3, <2>5, LenProperties
<1> HIDE DEF piece, file
<1>9. ~Asked /\ Sent = off
  BY <1>1 DEF Asked, Sent, off
<1>10. cur.size - need' = off + n
  BY <1>1, <1>2, <1>3 DEF off
<1>11. CASE ~Up
  <2>1. c2s' = c2s /\ ~Up' /\ cl' \in {"put", "closed"}
    BY <1>1, <1>11 DEF ClientSends, Up
  <2>2. UpStreamCut
    BY <1>2, <2>1 DEF UpStreamCut
  <2>3. AskedKept
    <3>1. ASSUME sv = "stor" PROVE Sent <= Sent'
      <4>1. job.size = cur.size
        BY <1>5, <3>1
      <4>2. Sent' = off + n \/ Sent' = cur.size
        BY <1>1, <1>5, <1>10, <2>1, <4>1 DEF Sent, Asked
      <4> DEFINE after == Sent'
      <4>3. after = off + n \/ after = cur.size
        BY <4>2
      <4> HIDE DEF after
      <4>4. off <= after
        BY <1>2, <1>3, <1>4, <4>3
      <4> QED
        BY <1>9, <4>4 DEF after
    <3> QED
      BY <1>9, <2>1, <3>1 DEF AskedKept
  <2>4. ServerSide'
    BY <1>0, <1>1, <2>2, <2>3, ServerSideKept
  <2>5. cl' = "put" => Putting'
    BY <1>1, <1>5, <2>1 DEF Putting, file
  <2>6. ClientSide'
    BY <1>0, <1>1, <1>5, <2>1, <2>5 DEF ClientSide, Asked
  <2>7. WholeFiles'
    BY <1>0, <1>1, WholeFilesKept
  <2> QED
    BY <2>4, <2>6, <2>7 DEF InStep
<1>12. CASE Up
  <2>1. c2s' = c2s \o Payload(piece) /\ cl' = "put" /\ Up'
    BY <1>1, <1>12, <1>13 DEF ClientSends, Up
  <2>2. sv = "stor"
    <3>1. sv # "closed"
      BY <1>0, <1>1, <1>12 DEF ClientSide, Together
    <3>2. sv # "recv"
      BY <1>1, <1>2, <1>5, <1>12
    <3> QED
      BY <1>5, <3>1, <3>2
  <2>3. job.name = cur.name /\ job.size = cur.size
    BY <1>5, <2>2
  <2>4. ~Asked' /\ Sent' = off + n
    BY <1>1, <1>10, <2>1 DEF Asked, Sent
  <2>5. /\ file # Absent /\ count <= off
        /\ Len(c2s) = off - count
        /\ \A i \in 1..count : root[job.name][i] = file[i]
        /\ \A i \in 1..Len(c2s) : i <= off - count => c2s[i][1] = file[count + i]
    <3>1. /\ local[job.name] # Absent /\ count <= Sent /\ AfterThat(Sent - count)
          /\ \A i \in 1..count : root[job.name][i] = local[job.name][i]
          /\ \A i \in 1..Len(c2s) : i <= Sent - count => c2s[i][1] = local[job.name][count + i]
      BY <1>0, <2>2 DEF ServerSide
    <3>2. Len(c2s) = (off - count) + 0
      BY <1>9, <1>12, <3>1 DEF AfterThat
    <3>3. Len(c2s) = off - count
      BY <1>2, <1>4, <3>2
    <3> QED
      BY <1>9, <2>3, <3>1, <3>3 DEF file
  <2>6. /\ Len(c2s') = Len(c2s) + n
        /\ \A i \in 1 .. Len(c2s) : c2s'[i] = c2s[i]
        /\ \A j \in 1 .. n : c2s'[Len(c2s) + j][1] = piece[j]
    <3>1. /\ Len(c2s \o Payload(piece)) = Len(c2s) + Len(piece)
          /\ \A i \in 1 .. Len(c2s) : (c2s \o Payload(piece))[i] = c2s[i]
          /\ \A j \in 1 .. Len(piece) : (c2s \o Payload(piece))[Len(c2s) + j][1] = piece[j]
      BY <1>2, <1>8, SentElements
    <3> QED
      BY <1>8, <2>1, <3>1
  <2>7. Len(c2s') = off + n - count
    BY <1>2, <1>3, <1>4, <2>5, <2>6
  <2>8. ASSUME NEW i \in 1..Len(c2s')
        PROVE  c2s'[i][1] = file[count + i]
    <3>1. CASE i <= Len(c2s)
      <4>1. i \in 1..Len(c2s) /\ i <= off - count
        BY <1>2, <1>4, <2>5, <3>1
      <4> QED
        BY <2>5, <2>6, <4>1
    <3>2. CASE ~(i <= Len(c2s))
      <4> DEFINE j == i - Len(c2s)
      <4>1. j \in 1..n /\ Len(c2s) + j = i /\ off + j = count + i
        BY <1>2, <1>3, <1>4, <2>5, <2>6, <3>2
      <4> HIDE DEF j
      <4>2. c2s'[i][1] = piece[j]
        BY <2>6, <4>1
      <4> QED
        BY <1>7, <4>1, <4>2 DEF piece
    <3> QED
      BY <3>1, <3>2
  <2>9. AfterThat(Sent - count)'
    <3> DEFINE after == Sent'
               k == after - count
    <3>0. after = off + n
      BY <2>4
    <3> HIDE DEF after
    <3>1. k \in Nat /\ Len(c2s') = k
      BY <1>2, <1>3, <1>4, <2>5, <2>7, <3>0
    <3>2. k = Sent' - count'
      BY <1>1 DEF k, after
    <3> HIDE DEF k
    <3>3. /\ Len(c2s') <= k + 0 /\ Len(c2s') = k + 0
          /\ \A i \in 1..Len(c2s') : ~(i > k)
      BY <3>1
    <3>4. /\ Len(c2s') <= k + (IF Asked' THEN Extra(cur') + 4 ELSE 0)
          /\ Up' => Len(c2s') = k + (IF Asked' THEN Extra(cur') + 4 ELSE 0)
          /\ \A i \in 1..Len(c2s') : i > k => c2s'[i][1] = RequestLine(cur')[i - k]
      BY <2>4, <3>3
    <3> QED
      BY <3>2, <3>4 DEF AfterThat
  <2>10. count <= off + n
    BY <1>2, <1>3, <1>4, <2>5
  <2>11. ServerSide'
    BY <1>1, <1>6, <2>2, <2>3, <2>4, <2>5, <2>8, <2>9, <2>10 DEF ServerSide, file
  <2>12. Putting'
    BY <1>1, <1>5, <2>2 DEF Putting, file
  <2>13. ClientSide'
    BY <1>0, <1>1, <2>1, <2>2, <2>12 DEF ClientSide, Together
  <2>14. WholeFiles'
    BY <1>0, <1>1, WholeFilesKept
  <2> QED
    BY <2>11, <2>13, <2>14 DEF InStep
<1> QED
  BY <1>11, <1>12

LEMMA ClientStepSync ==
    ASSUME TransferInv, TransferInv', Calm, InStep, ClientStep
    PROVE  InStep'
BY ReplyToListSync, ReplyToRetrSync, ReplyToStorSync, ReplyToDeleSync, ReplyToQuitSync,
   ClientReadsSync, SendFragmentSync, BodyDoneSync, ClientRecvFailsSync DEF ClientStep

-----------------------------------------------------------------------------
(* The server: commands.                                                   *)

(* The command the server reads is the one the client waits for.           *)
LEMMA CommandThere ==
    ASSUME TransferInv, TransferInv', InStep, NEW cmd, Command(cmd)
    PROVE  /\ sv = "recv" /\ Asked /\ s2c = <<>> /\ FirstWord(c2s) = cur /\ cur.cmd = cmd
           /\ cl \in {"await", "closed"} /\ (Up => cl = "await")
           /\ Len(c2s') \in 0..2 /\ \A i \in 1..Len(c2s') : c2s'[i][1] = NL
           /\ Extra(cur) = 0 => Len(c2s') = 0
           /\ UNCHANGED <<conn, cl, cur, need, upload, downloads, oversize, local, root0, faults>>
<1>0. ServerSide /\ ClientSide
  BY DEF InStep
<1>1. /\ sv = "recv" /\ HasLine(c2s) /\ ~BadInput(c2s)
      /\ FirstWord(c2s).cmd = cmd /\ c2s' = Drop(c2s, LineLength(c2s))
      /\ UNCHANGED <<conn, cl, cur, need, upload, downloads, oversize, local, root0, faults>>
  BY DEF Command, clVars, fixed
<1>2. PICK m \in 0..2 : AfterThat(m) /\ \A i \in 1..Len(c2s) : i <= m => c2s[i][1] = NL
  BY <1>0, <1>1 DEF ServerSide
<1>3. Extra(cur) + 3 <= LineLimit
  BY <1>0, Zenon DEF ClientSide, Fits
<1> DEFINE n == LineLength(c2s)
<1>4. /\ Asked /\ FirstWord(c2s) = cur
      /\ n \in 1..Len(c2s) /\ Len(c2s) - n <= 2
      /\ \A i \in n + 1 .. Len(c2s) : c2s[i][1] = NL
      /\ Extra(cur) = 0 => Len(c2s) = n
  BY <1>1, <1>2, <1>3, NextLine
<1>5. IsStream(c2s, UpTokens) /\ Len(c2s) \in Nat /\ Extra(cur) \in Nat
  BY Facts DEF Typed
<1>6. c2s' = Drop(c2s, n)
  BY <1>1
<1> HIDE DEF n
<1>7. Len(c2s') = Len(c2s) - n /\ \A k \in 1 .. Len(c2s) - n : c2s'[k] = c2s[n + k]
  <2>1. n \in Nat /\ n <= Len(c2s)
    BY <1>4, <1>5
  <2>2. /\ Len(Drop(c2s, n)) = Len(c2s) - n
        /\ \A k \in 1 .. Len(c2s) - n : Drop(c2s, n)[k] = c2s[n + k]
    <3>1. ASSUME NEW k \in Nat, k <= Len(c2s)
          PROVE  /\ Len(Drop(c2s, k)) = Len(c2s) - k
                 /\ \A i \in 1 .. Len(c2s) - k : Drop(c2s, k)[i] = c2s[k + i]
      <4>1. IsStream(c2s, UpTokens)
        BY <1>5
      <4> QED
        BY <3>1, <4>1, DropElements
    <3>2. n \in Nat /\ n <= Len(c2s)
      BY <2>1
    <3> QED
      BY <3>1, <3>2
  <2> QED
    BY <1>6, <2>2
<1>8. Len(c2s') \in 0..2 /\ (Extra(cur) = 0 => Len(c2s') = 0)
  BY <1>4, <1>5, <1>7
<1>9. ASSUME NEW i \in 1..Len(c2s')
      PROVE  c2s'[i][1] = NL
  <2>1. i \in 1 .. Len(c2s) - n /\ n + i \in n + 1 .. Len(c2s)
    BY <1>4, <1>5, <1>7
  <2> QED
    BY <1>4, <1>7, <2>1
<1>10. s2c = <<>> /\ cl \in {"await", "closed"}
  BY <1>4 DEF Asked
<1>11. Up => cl = "await"
  BY <1>0, <1>1, <1>10 DEF ClientSide, Together
<1> QED
  BY <1>1, <1>4, <1>8, <1>9, <1>10, <1>11

(* The reply goes where the client will look for it.                       *)
LEMMA AnswerThere ==
    ASSUME TransferInv, s2c = <<>>, FirstWord(c2s) = cur, UNCHANGED <<conn, cur>>,
           NEW code \in {OK, BAD_FILE, SERVER_ERROR, COMMAND_NOT_IMPLEMENTED},
           NEW size \in Nat \union {NoSize}, NEW next, Answer(code, size, next)
    PROVE  /\ Up => s2c' # <<>> /\ sv' = next /\ \A body : Replied(code, size, body, 0)'
           /\ ~Up => s2c' = <<>> /\ sv' \in {next, "closed"}
<1> DEFINE head == Reply(code, size, cur)
           line == Line(head)
<1>1. conn \in {"up", "down"} /\ cur \in UpTokens /\ IsStream(s2c, DownTokens)
  BY Facts DEF Typed, UpTokens
<1>2. ServerSends(Payload(line), next)
  BY DEF Answer
<1>3. head \in DownTokens /\ Rest \in DownTokens /\ NL \in DownTokens
  BY <1>1, HeadsDiffer DEF Reply, Replies, DownTokens, UpTokens
<1>4. /\ line \in Seq(DownTokens) /\ Len(line) = 4
  BY <1>3 DEF Line
<1>5. CASE ~Up
  BY <1>1, <1>2, <1>5 DEF ServerSends, Up
<1>6. CASE Up
  <2>1. s2c' = s2c \o Payload(line) /\ sv' = next
    BY <1>2, <1>6 DEF ServerSends, Up
  <2> HIDE DEF line
  <2>2. /\ Len(s2c \o Payload(line)) = Len(s2c) + Len(line)
        /\ \A i \in 1 .. Len(s2c) : (s2c \o Payload(line))[i] = s2c[i]
        /\ \A j \in 1 .. Len(line) : (s2c \o Payload(line))[Len(s2c) + j][1] = line[j]
    <3>1. IsStream(s2c, DownTokens) /\ line \in Seq(DownTokens)
      BY <1>1, <1>4 DEF line
    <3> QED
      BY <3>1, SentElements
  <2>3. Len(s2c) = 0
    OBVIOUS
  <2>4. Len(s2c') = 4
    BY <1>4, <2>1, <2>2, <2>3
  <2>5. \A j \in 1..4 : s2c'[j][1] = line[j]
    <3>1. \A j \in 1..4 : Len(s2c) + j = j
      BY <2>3
    <3> QED
      BY <1>4, <2>1, <2>2, <3>1
  <2>6. \A body : Replied(code, size, body, 0)'
    <3> SUFFICES ASSUME NEW body
                 PROVE  Replied(code, size, body, 0)'
      OBVIOUS
    <3>1. Len(s2c') <= 0 + 4 /\ Len(s2c') = 0 + 4 /\ \A i \in 1..Len(s2c') : i \in 1..4 /\ i <= 4
      BY <2>4
    <3>2. line = Line(Reply(code, size, cur'))
      BY DEF line
    <3> QED
      BY <2>5, <3>1, <3>2 DEF Replied
  <2> QED
    BY <1>6, <2>1, <2>4, <2>6
<1> QED
  BY <1>5, <1>6

(* What an answer must bring about.                                        *)
LEMMA AfterCommand ==
    ASSUME TransferInv, TransferInv', InStep, NEW cmd, Command(cmd),
           Up => s2c' # <<>> /\ Answered' /\ (sv' = "closed" <=> cmd = "QUIT"),
           ~Up => s2c' = <<>>,
           sv' \in {"retr", "stor"} => Extra(cur) = 0,
           sv' = "stor" => cmd = "STOR" /\ job' = [name |-> cur.name, size |-> cur.size] /\ count' = 0,
           WholeFiles'
    PROVE  InStep'
<1>0. ServerSide /\ ClientSide
  BY DEF InStep
<1>1. /\ sv = "recv" /\ Asked /\ s2c = <<>> /\ cur.cmd = cmd
      /\ cl \in {"await", "closed"} /\ (Up => cl = "await")
      /\ Len(c2s') \in 0..2 /\ \A i \in 1..Len(c2s') : c2s'[i][1] = NL
      /\ Extra(cur) = 0 => Len(c2s') = 0
      /\ UNCHANGED <<conn, cl, cur, need, upload, downloads, oversize, local, root0, faults>>
  BY CommandThere
<1>2. (Up' <=> Up) /\ (Asked' <=> ~Up)
  BY <1>1 DEF Up, Asked
<1>3. Extra(cur) \in Nat /\ job'.size \in Nat /\ count' \in Nat
  BY Facts, FactsAfter DEF Typed
<1>4. ASSUME NEW m \in 0..2, Len(c2s') = m
      PROVE  /\ Len(c2s') <= m + (IF Asked' THEN Extra(cur') + 4 ELSE 0)
             /\ Up' => Len(c2s') = m + (IF Asked' THEN Extra(cur') + 4 ELSE 0)
             /\ \A i \in 1..Len(c2s') : i > m => c2s'[i][1] = RequestLine(cur')[i - m]
  <2>1. \A i \in 1..Len(c2s') : ~(i > m)
    BY <1>4
  <2>2. m <= m + (Extra(cur') + 4) /\ m <= m + 0 /\ m = m + 0
    BY <1>1, <1>3
  <2> QED
    BY <1>2, <1>4, <2>1, <2>2
<1>5. ASSUME sv' = "recv"
      PROVE  (\E m \in 0..2 : AfterThat(m) /\ \A i \in 1..Len(c2s) : i <= m => c2s[i][1] = NL)'
  <2>1. PICK m \in 0..2 : Len(c2s') = m
    BY <1>1
  <2>2. AfterThat(m)'
    BY <1>4, <2>1 DEF AfterThat
  <2> QED
    BY <1>1, <2>2
<1>6. ASSUME sv' = "retr"
      PROVE  AfterThat(0)'
  BY <1>1, <1>4, <1>6 DEF AfterThat
<1>7. ASSUME sv' = "stor"
      PROVE  (/\ local[job.name] # Absent /\ job.size = Len(local[job.name])
              /\ count <= Sent /\ AfterThat(Sent - count)
              /\ \A i \in 1..count : root[job.name][i] = local[job.name][i]
              /\ \A i \in 1..Len(c2s) : i <= Sent - count => c2s[i][1] = local[job.name][count + i])'
  <2>1. cmd = "STOR" /\ job'.name = cur.name /\ job'.size = cur.size /\ count' = 0 /\ Len(c2s') = 0
    BY <1>1, <1>7
  <2>2. local'[job'.name] # Absent /\ job'.size = Len(local'[job'.name])
    BY <1>0, <1>1, <2>1 DEF ClientSide
  <2> DEFINE after == Sent'
             k == after - count'
  <2>3. (Up => after = 0) /\ (~Up => after = job'.size)
    BY <1>1, <1>2 DEF Sent
  <2> HIDE DEF after
  <2>4. after \in Nat
    BY <1>3, <2>3
  <2>5. k \in Nat /\ count' <= after /\ (Up => k = 0)
    BY <2>1, <2>3, <2>4
  <2>6. k = Sent' - count'
    BY DEF after
  <2> HIDE DEF k
  <2>7. \A i \in 1..Len(c2s') : FALSE
    BY <2>1
  <2>8. /\ Len(c2s') <= k + (IF Asked' THEN Extra(cur') + 4 ELSE 0)
        /\ Up' => Len(c2s') = k + (IF Asked' THEN Extra(cur') + 4 ELSE 0)
    <3>1. 0 <= k + (Extra(cur') + 4) /\ 0 <= k + 0 /\ (Up => 0 = k + 0)
      BY <1>1, <1>3, <2>5
    <3> QED
      BY <1>2, <2>1, <3>1
  <2>9. AfterThat(Sent - count)'
    BY <2>6, <2>7, <2>8 DEF AfterThat
  <2>10. \A i \in 1..count' : FALSE
    BY <2>1
  <2>11. (count <= Sent)'
    BY <2>5 DEF after
  <2> QED
    BY <2>2, <2>7, <2>9, <2>10, <2>11
<1>8. ServerSide'
  BY <1>5, <1>6, <1>7 DEF ServerSide
<1>9. (Up => Together)'
  BY <1>1, <1>2 DEF Together
<1>10. ClientSide'
  BY <1>0, <1>1, <1>2, <1>9 DEF ClientSide
<1> QED
  BY <1>8, <1>10 DEF InStep

LEMMA ListThere ==
    ASSUME TransferInv, s2c = <<>>, FirstWord(c2s) = cur, UNCHANGED <<conn, cur, root>>,
           ServerSends(Payload(Line(Reply(OK, Len(Listing), FirstWord(c2s)))) \o Payload(Listing),
                       "recv")
    PROVE  /\ Up => s2c' # <<>> /\ sv' = "recv" /\ Replied(OK, Len(Listing), Listing, Len(Listing))'
           /\ ~Up => s2c' = <<>> /\ sv' \in {"recv", "closed"}
<1> DEFINE l == Len(Listing)
           head == Reply(OK, l, cur)
           line == Line(head)
           both == Payload(line) \o Payload(Listing)
<1>1. conn \in {"up", "down"} /\ cur \in UpTokens
  BY Facts DEF Typed, UpTokens
<1>2. ServerSends(both, "recv")
  OBVIOUS
<1>3. Listing \in Seq(UpTokens) /\ l \in Nat
  BY ListingIs, LenProperties
<1>4. Listing \in Seq(DownTokens)
  BY <1>3, SeqMonotonic DEF DownTokens
<1>5. head \in DownTokens /\ Rest \in DownTokens /\ NL \in DownTokens
  BY <1>1, <1>3, HeadsDiffer DEF Reply, Replies, DownTokens, UpTokens
<1>6. /\ line \in Seq(DownTokens) /\ Len(line) = 4
  BY <1>5 DEF Line
<1> HIDE DEF l, line
<1>7. IsStream(Payload(line), DownTokens) /\ Len(Payload(line)) = 4
  BY <1>6, PayloadIs
<1>8. \A i \in 1..4 : Payload(line)[i][1] = line[i]
  BY <1>6 DEF Payload
<1> DEFINE first == Payload(line)
<1>9. CASE ~Up
  BY <1>1, <1>2, <1>9 DEF ServerSends, Up
<1>10. CASE Up
  <2>1. s2c' = s2c \o both /\ sv' = "recv"
    BY <1>2, <1>10 DEF ServerSends, Up
  <2>2. s2c' = both
    <3>1. IsStream(Payload(Listing), DownTokens)
      BY <1>4, PayloadIs
    <3>2. IsStream(both, DownTokens)
      BY <1>7, <3>1, JoinedStream
    <3>3. both \in Seq(DownTokens \X BOOLEAN)
      BY <3>2, StreamIs
    <3> HIDE DEF both
    <3> QED
      BY <2>1, <3>3, ConcatEmptySeq
  <2> HIDE DEF first
  <2>3. /\ Len(first \o Payload(Listing)) = Len(first) + Len(Listing)
        /\ \A i \in 1 .. Len(first) : (first \o Payload(Listing))[i] = first[i]
        /\ \A j \in 1 .. Len(Listing) :
             (first \o Payload(Listing))[Len(first) + j][1] = Listing[j]
    <3>1. IsStream(first, DownTokens) /\ Listing \in Seq(DownTokens)
      BY <1>4, <1>7 DEF first
    <3> QED
      BY <3>1, SentElements
  <2>4. /\ Len(s2c') = 4 + l
        /\ \A i \in 1..4 : s2c'[i][1] = line[i]
        /\ \A j \in 1..l : s2c'[4 + j][1] = Listing[j]
    <3>1. Len(first) = 4 /\ Len(Listing) = l /\ s2c' = first \o Payload(Listing)
          /\ \A i \in 1..4 : first[i][1] = line[i]
      BY <1>7, <1>8, <2>2 DEF first, l
    <3> QED
      BY <2>3, <3>1
  <2>5. Replied(OK, l, Listing, l)'
    <3>1. UNCHANGED Listing /\ l' = l
      BY ListingKept DEF l
    <3>2. Len(s2c') <= l + 4 /\ Len(s2c') = l + 4
      BY <1>3, <2>4
    <3>3. ASSUME NEW i \in 1..Len(s2c')
          PROVE  s2c'[i][1] = IF i <= 4 THEN line[i] ELSE Listing[i - 4]
      <4>1. CASE i <= 4
        <5>1. i \in 1..4
          BY <1>3, <2>4, <4>1
        <5> QED
          BY <2>4, <4>1, <5>1
      <4>2. CASE ~(i <= 4)
        <5>1. i - 4 \in 1..l /\ 4 + (i - 4) = i
          BY <1>3, <2>4, <4>2
        <5> QED
          BY <2>4, <4>2, <5>1
      <4> QED
        BY <4>1, <4>2
    <3>4. line = Line(Reply(OK, l, cur'))
      BY DEF line
    <3> QED
      BY <3>1, <3>2, <3>3, <3>4 DEF Replied
  <2>6. s2c' # <<>>
    <3>1. Len(s2c') # 0
      BY <1>3, <2>4
    <3> QED
      BY <3>1
  <2> QED
    BY <1>10, <2>1, <2>5, <2>6 DEF l
<1> QED
  BY <1>9, <1>10

(* While the server waits for a command no file is in part.                *)
LEMMA NoneInPart ==
    ASSUME WholeFiles, Calm, sv = "recv", NEW f \in Name
    PROVE  root[f] \in {root0[f], local[f], Absent}
BY DEF WholeFiles

LEMMA WholeFilesLeft ==
    ASSUME WholeFiles, Calm, sv = "recv", UNCHANGED <<root, root0, local, faults>>
    PROVE  WholeFiles'
BY NoneInPart DEF WholeFiles

LEMMA RefuseSync ==
    ASSUME TransferInv, TransferInv', Calm, InStep, NEW cmd, cmd # "QUIT", Command(cmd),
           NEW code \in {BAD_FILE, SERVER_ERROR, COMMAND_NOT_IMPLEMENTED}, Refuse(code)
    PROVE  InStep'
<1>1. /\ sv = "recv" /\ s2c = <<>> /\ FirstWord(c2s) = cur /\ cur.cmd = cmd
      /\ UNCHANGED <<conn, cur, local, root0, faults>>
  BY CommandThere
<1>2. Answer(code, NoSize, "recv") /\ UNCHANGED <<job, count, root>>
  BY DEF Refuse
<1>3. /\ Up => s2c' # <<>> /\ sv' = "recv" /\ Replied(code, NoSize, <<>>, 0)'
      /\ ~Up => s2c' = <<>> /\ sv' \in {"recv", "closed"}
  BY <1>1, <1>2, CodesAre, AnswerThere
<1>4. Up => Answered'
  BY <1>1, <1>3 DEF Answered, Refused
<1>5. WholeFiles'
  BY <1>1, <1>2, WholeFilesLeft DEF InStep
<1>6. sv' \in {"recv", "closed"} /\ (Up => ~(sv' = "closed"))
  BY <1>3
<1> QED
  BY <1>3, <1>4, <1>5, <1>6, AfterCommand

LEMMA ExecListSync ==
    ASSUME TransferInv, TransferInv', Calm, InStep, ExecList
    PROVE  InStep'
<1>1. Command("LIST")
  BY DEF ExecList
<1>2. CASE Refuse(SERVER_ERROR)
  BY <1>1, <1>2, RefuseSync
<1>3. CASE /\ ServerSends(Payload(Line(Reply(OK, Len(Listing), FirstWord(c2s)))) \o Payload(Listing),
                          "recv")
           /\ UNCHANGED <<job, count, root>>
  <2>1. /\ sv = "recv" /\ s2c = <<>> /\ FirstWord(c2s) = cur /\ cur.cmd = "LIST"
        /\ UNCHANGED <<conn, cur, local, root0, faults>>
    BY <1>1, CommandThere
  <2>2. /\ Up => /\ s2c' # <<>> /\ sv' = "recv"
                 /\ Replied(OK, Len(Listing), Listing, Len(Listing))'
        /\ ~Up => s2c' = <<>> /\ sv' \in {"recv", "closed"}
    BY <1>3, <2>1, ListThere
  <2>3. Up => Answered'
    BY <2>1, <2>2 DEF Answered, Enumerated
  <2>4. WholeFiles'
    BY <1>3, <2>1, WholeFilesLeft DEF InStep
  <2>5. sv' \in {"recv", "closed"} /\ (Up => ~(sv' = "closed"))
    BY <2>2
  <2> QED
    BY <1>1, <2>2, <2>3, <2>4, <2>5, AfterCommand
<1> QED
  BY <1>2, <1>3 DEF ExecList

(* A name that is served makes no request longer.                          *)
LEMMA ServedIsShort ==
    ASSUME TRUE \in Allowed(cur.name)
    PROVE  cur.name \in Parola /\ cur.name \in Name /\ Extra(cur) = 0
BY AllowedIs, FileTransferAssumption DEF Extra

LEMMA ExecDeleSync ==
    ASSUME TransferInv, TransferInv', Calm, InStep, ExecDele
    PROVE  InStep'
<1>1. Command("DELE")
  BY DEF ExecDele
<1>2. /\ sv = "recv" /\ s2c = <<>> /\ FirstWord(c2s) = cur /\ cur.cmd = "DELE"
      /\ UNCHANGED <<conn, cur, local, root0, faults>>
  BY <1>1, CommandThere
<1>3. CASE Refuse(BAD_FILE)
  BY <1>1, <1>3, RefuseSync
<1>4. CASE /\ root' = [root EXCEPT ![cur.name] = Absent] /\ Answer(OK, NoSize, "recv")
           /\ UNCHANGED <<job, count>>
  <2>1. /\ Up => s2c' # <<>> /\ sv' = "recv" /\ Replied(OK, NoSize, <<>>, 0)'
        /\ ~Up => s2c' = <<>> /\ sv' \in {"recv", "closed"}
    BY <1>2, <1>4, CodesAre, AnswerThere
  <2>2. Up => Answered'
    BY <1>2, <2>1 DEF Answered, Removed
  <2>3. \A f \in Name : root'[f] \in {root[f], Absent}
    <3>1. ServerOK
      BY Parts
    <3>2. root \in [Name -> Seq(UpTokens) \union {Absent}]
      BY <3>1 DEF ServerOK
    <3> QED
      BY <1>4, <3>2
  <2>4. WholeFiles'
    <3>1. \A f \in Name : root[f] \in {root0[f], local[f], Absent}
      BY <1>2, NoneInPart DEF InStep
    <3> QED
      BY <1>2, <2>3, <3>1 DEF WholeFiles
  <2>5. sv' \in {"recv", "closed"} /\ (Up => ~(sv' = "closed"))
    BY <2>1
  <2> QED
    BY <1>1, <2>1, <2>2, <2>4, <2>5, AfterCommand
<1> QED
  BY <1>2, <1>3, <1>4 DEF ExecDele

LEMMA ExecRetrSync ==
    ASSUME TransferInv, TransferInv', Calm, InStep, ExecRetr
    PROVE  InStep'
<1> DEFINE f == cur.name
<1>1. Command("RETR")
  BY DEF ExecRetr
<1>2. /\ sv = "recv" /\ s2c = <<>> /\ FirstWord(c2s) = cur /\ cur.cmd = "RETR"
      /\ UNCHANGED <<conn, cur, local, root0, faults>>
  BY <1>1, CommandThere
<1>3. CASE Refuse(BAD_FILE)
  BY <1>1, <1>3, RefuseSync
<1>4. CASE /\ TRUE \in Allowed(f) /\ root[f] # Absent /\ Answer(OK, Len(root[f]), "retr")
           /\ job' = [name |-> f, size |-> Len(root[f])] /\ count' = 0
           /\ UNCHANGED root
  <2>1. f \in Name /\ Extra(cur) = 0
    BY <1>4, ServedIsShort
  <2>2. Len(root[f]) \in Nat
    <3>1. ServerOK
      BY Parts
    <3>2. root[f] \in Seq(UpTokens)
      BY <1>4, <2>1, <3>1 DEF ServerOK
    <3> QED
      BY <3>2, LenProperties
  <2> PICK l \in Nat : l = Len(root[f])
    BY <2>2
  <2>3. /\ Up => s2c' # <<>> /\ sv' = "retr" /\ \A body : Replied(OK, l, body, 0)'
        /\ ~Up => s2c' = <<>> /\ sv' \in {"retr", "closed"}
    <3>1. Answer(OK, l, "retr") /\ l \in Nat \union {NoSize}
      BY <1>4
    <3> QED
      BY <1>2, <3>1, CodesAre, AnswerThere
  <2>4. Up => Answered'
    <3> SUFFICES ASSUME Up
                 PROVE  Answered'
      OBVIOUS
    <3>1. job'.name = cur.name /\ job'.size = l /\ count' = 0 /\ root' = root /\ cur' = cur
      BY <1>2, <1>4
    <3>2. Announced'
      BY <1>2, <1>4, <2>3, <3>1 DEF Announced
    <3>3. /\ Len(s2c') <= 0 + 4 /\ (Up' => Len(s2c') = 0 + 4)
          /\ \A i \in 1..Len(s2c') :
               s2c'[i][1] = IF i <= 4 THEN Line(Reply(OK, l, cur'))[i] ELSE <<>>[i - 4]
      <4>1. Replied(OK, l, <<>>, 0)'
        BY <2>3
      <4> QED
        BY <4>1 DEF Replied
    <3>4. \A i \in 1..Len(s2c') : i <= 4
      <4>1. Len(s2c') \in Nat
        BY FactsAfter DEF Typed
      <4> QED
        BY <3>3, <4>1
    <3>5. Replied(OK, job.size, root[job.name], count)'
      BY <3>1, <3>3, <3>4 DEF Replied
    <3> QED
      BY <3>2, <3>5 DEF Answered, Offered
  <2>5. WholeFiles'
    BY <1>2, <1>4, WholeFilesLeft DEF InStep
  <2>6. sv' \in {"retr", "closed"} /\ (Up => ~(sv' = "closed"))
    BY <2>3
  <2> QED
    BY <1>1, <2>1, <2>3, <2>4, <2>5, <2>6, AfterCommand
<1>5. ASSUME NEW size \in SeekEnds, f \in Directories,
             Answer(OK, size, "recv") /\ UNCHANGED <<job, count, root>>
      PROVE  InStep'
  <2>1. size \in Nat \union {NoSize}
    BY FileTransferAssumption
  <2>2. /\ Up => s2c' # <<>> /\ sv' = "recv" /\ Replied(OK, size, <<>>, 0)'
        /\ ~Up => s2c' = <<>> /\ sv' \in {"recv", "closed"}
    BY <1>2, <1>5, <2>1, CodesAre, AnswerThere
  <2>3. Up => Answered'
    BY <1>2, <1>5, <2>2 DEF Answered, Opened
  <2>4. WholeFiles'
    BY <1>2, <1>5, WholeFilesLeft DEF InStep
  <2>5. sv' \in {"recv", "closed"} /\ (Up => ~(sv' = "closed"))
    BY <2>2
  <2> QED
    BY <1>1, <2>2, <2>3, <2>4, <2>5, AfterCommand
<1>6. \/ Refuse(BAD_FILE)
      \/ /\ TRUE \in Allowed(f) /\ root[f] # Absent /\ Answer(OK, Len(root[f]), "retr")
         /\ job' = [name |-> f, size |-> Len(root[f])] /\ count' = 0
         /\ UNCHANGED root
      \/ /\ f \in Directories
         /\ \E size \in SeekEnds : Answer(OK, size, "recv") /\ UNCHANGED <<job, count, root>>
  BY <1>2, Zenon DEF ExecRetr
<1> QED
  BY <1>3, <1>4, <1>5, <1>6

LEMMA ExecStorSync ==
    ASSUME TransferInv, TransferInv', Calm, InStep, ExecStor
    PROVE  InStep'
<1> DEFINE f == cur.name
<1>1. Command("STOR")
  BY DEF ExecStor
<1>2. /\ sv = "recv" /\ s2c = <<>> /\ FirstWord(c2s) = cur /\ cur.cmd = "STOR"
      /\ UNCHANGED <<conn, cur, local, root0, faults>>
  BY <1>1, CommandThere
<1>3. CASE \E code \in {BAD_FILE, COMMAND_NOT_IMPLEMENTED} : Refuse(code)
  BY <1>1, <1>3, RefuseSync
<1>4. CASE /\ TRUE \in Allowed(f) /\ Answer(OK, NoSize, "stor")
           /\ root' = [root EXCEPT ![f] = <<>>]
           /\ job' = [name |-> f, size |-> cur.size] /\ count' = 0
  <2>1. f \in Name /\ Extra(cur) = 0
    BY <1>4, ServedIsShort
  <2>2. /\ Up => s2c' # <<>> /\ sv' = "stor" /\ Replied(OK, NoSize, <<>>, 0)'
        /\ ~Up => s2c' = <<>> /\ sv' \in {"stor", "closed"}
    BY <1>2, <1>4, CodesAre, AnswerThere
  <2>3. Up => Answered'
    BY <1>2, <1>4, <2>2 DEF Answered, Accepted
  <2>4. root'[f] = <<>> /\ \A g \in Name : g # f => root'[g] = root[g]
    <3>1. ServerOK
      BY Parts
    <3>2. root \in [Name -> Seq(UpTokens) \union {Absent}]
      BY <3>1 DEF ServerOK
    <3> QED
      BY <1>4, <2>1, <3>2
  <2>5. IsPrefix(<<>>, local[f])
    <3>1. local[f] # Absent
      BY <1>2 DEF InStep, ClientSide
    <3>2. ClientOK
      BY Parts
    <3>3. local[f] \in Seq(Data)
      BY <2>1, <3>1, <3>2, FileTransferAssumption DEF ClientOK
    <3> DEFINE file == local[f]
    <3>4. file \in Seq(Data)
      BY <3>3
    <3> HIDE DEF file
    <3>5. IsPrefix(<<>>, file)
      BY <3>4 DEF IsPrefix
    <3> QED
      BY <3>5 DEF file
  <2>6. sv' = "stor" \/ (sv' = "closed" /\ conn' = "down")
    <3>1. conn \in {"up", "down"}
      BY Facts DEF Typed
    <3> QED
      BY <1>2, <2>2, <3>1 DEF Up
  <2>7. WholeFiles'
    <3>1. \A g \in Name : root[g] \in {root0[g], local[g], Absent}
      BY <1>2, NoneInPart DEF InStep
    <3>2. job'.name = f
      BY <1>4
    <3>3. \A g \in Name : g # f => root'[g] \in {root0'[g], local'[g], Absent}
      BY <1>2, <2>4, <3>1
    <3>4. job'.name = f /\ IsPrefix(root'[f], local'[f])
      BY <1>2, <2>4, <2>5, <3>2
    <3> QED
      BY <2>6, <3>3, <3>4 DEF WholeFiles
  <2>8. Up => ~(sv' = "closed")
    BY <2>2
  <2>9. job' = [name |-> cur.name, size |-> cur.size] /\ count' = 0
    BY <1>4
  <2> QED
    BY <1>1, <2>1, <2>2, <2>3, <2>7, <2>8, <2>9, AfterCommand
<1> QED
  BY <1>2, <1>3, <1>4 DEF ExecStor

LEMMA ExecQuitSync ==
    ASSUME TransferInv, TransferInv', Calm, InStep, ExecQuit
    PROVE  InStep'
<1>1. Command("QUIT") /\ Answer(OK, NoSize, "closed") /\ UNCHANGED <<job, count, root>>
  BY DEF ExecQuit
<1>2. /\ sv = "recv" /\ s2c = <<>> /\ FirstWord(c2s) = cur /\ cur.cmd = "QUIT"
      /\ UNCHANGED <<conn, cur, local, root0, faults>>
  BY <1>1, CommandThere
<1>3. /\ Up => s2c' # <<>> /\ sv' = "closed" /\ Replied(OK, NoSize, <<>>, 0)'
      /\ ~Up => s2c' = <<>> /\ sv' \in {"closed"}
  BY <1>1, <1>2, CodesAre, AnswerThere
<1>4. Up => Answered'
  BY <1>2, <1>3 DEF Answered, Released
<1>5. WholeFiles'
  BY <1>1, <1>2, WholeFilesLeft DEF InStep
<1>6. sv' = "closed"
  BY <1>3
<1> QED
  BY <1>1, <1>3, <1>4, <1>5, <1>6, AfterCommand

(* Only a blank line is left behind, before or without the next request.   *)
LEMMA OtherThere ==
    ASSUME TransferInv, InStep, ExecOther
    PROVE  /\ sv = "recv" /\ AfterThat(2) /\ c2s' = Drop(c2s, 2) /\ 2 <= Len(c2s)
           /\ UNCHANGED <<s2c, conn, sv, job, count, root, local, root0, faults>>
           /\ UNCHANGED <<clVars, cl, cur, need, upload, listed, downloads>>
<1>0. ServerSide /\ ClientSide
  BY DEF InStep
<1>1. /\ sv = "recv" /\ HasLine(c2s) /\ (BadInput(c2s) \/ FirstWord(c2s) \in Plain)
      /\ c2s' = Drop(c2s, LineLength(c2s))
      /\ BadInput(c2s) => UNCHANGED <<s2c, sv, job, count, root>>
      /\ UNCHANGED <<conn, clVars, local, root0, faults>>
  BY DEF ExecOther, fixed
<1>2. PICK m \in 0..2 : AfterThat(m) /\ \A i \in 1..Len(c2s) : i <= m => c2s[i][1] = NL
  BY <1>0, <1>1 DEF ServerSide
<1>3. Extra(cur) + 3 <= LineLimit /\ cur \in Requests
  BY <1>0, Facts, Zenon DEF ClientSide, Fits, Typed
<1>4. m = 2 /\ LineLength(c2s) = 2 /\ BadInput(c2s)
  BY <1>1, <1>2, <1>3, NextLine, HeadsDiffer
<1>5. IsStream(c2s, UpTokens) /\ Len(c2s) \in Nat
  BY Facts DEF Typed
<1>6. LineLength(c2s) \in 1..Len(c2s)
  BY <1>1, <1>5, PlainIsUp, LineIs
<1>7. 2 <= Len(c2s)
  BY <1>4, <1>5, <1>6
<1> QED
  BY <1>1, <1>2, <1>4, <1>7 DEF clVars

LEMMA ExecOtherSync ==
    ASSUME TransferInv, TransferInv', Calm, InStep, ExecOther
    PROVE  InStep'
<1>0. ServerSide /\ ClientSide
  BY DEF InStep
<1>1. /\ sv = "recv" /\ AfterThat(2) /\ c2s' = Drop(c2s, 2) /\ 2 <= Len(c2s)
      /\ UNCHANGED <<s2c, conn, sv, job, count, root, local, root0, faults>>
      /\ UNCHANGED <<clVars, cl, cur, need, upload, listed, downloads>>
  BY OtherThere
<1>2. IsStream(c2s, UpTokens) /\ Len(c2s) \in Nat /\ Extra(cur) \in Nat
      /\ Len(c2s') \in Nat
  BY Facts, FactsAfter DEF Typed
<1>3. Len(c2s') = Len(c2s) - 2 /\ \A k \in 1 .. Len(c2s) - 2 : c2s'[k] = c2s[2 + k]
  <2>1. /\ Len(Drop(c2s, 2)) = Len(c2s) - 2
        /\ \A k \in 1 .. Len(c2s) - 2 : Drop(c2s, 2)[k] = c2s[2 + k]
    <3>1. ASSUME NEW n \in Nat, n <= Len(c2s)
          PROVE  /\ Len(Drop(c2s, n)) = Len(c2s) - n
                 /\ \A k \in 1 .. Len(c2s) - n : Drop(c2s, n)[k] = c2s[n + k]
      <4>1. IsStream(c2s, UpTokens)
        BY <1>2
      <4> QED
        BY <3>1, <4>1, DropElements
    <3>2. 2 \in Nat /\ 2 <= Len(c2s)
      BY <1>1
    <3> QED
      BY <3>1, <3>2
  <2> QED
    BY <1>1, <2>1
<1>4. (Asked' <=> Asked) /\ (Up' <=> Up)
  BY <1>1 DEF Asked, Up
<1> DEFINE all == IF Asked THEN Extra(cur) + 4 ELSE 0
<1>5. /\ Len(c2s) <= 2 + all /\ (Up => Len(c2s) = 2 + all)
       /\ \A i \in 1..Len(c2s) : i > 2 => c2s[i][1] = RequestLine(cur)[i - 2]
  BY <1>1 DEF AfterThat
<1>6. all \in Nat /\ all = (IF Asked' THEN Extra(cur') + 4 ELSE 0)
  BY <1>1, <1>2, <1>4
<1> HIDE DEF all
<1>7. Len(c2s') <= 0 + all /\ (Up => Len(c2s') = 0 + all)
  BY <1>2, <1>3, <1>5, <1>6
<1>8. ASSUME NEW i \in 1..Len(c2s')
       PROVE  c2s'[i][1] = RequestLine(cur')[i - 0]
  <2>1. i \in 1 .. Len(c2s) - 2 /\ 2 + i \in 1..Len(c2s) /\ 2 + i > 2 /\ 2 + i - 2 = i - 0
    BY <1>2, <1>3
  <2> QED
    BY <1>1, <1>3, <1>5, <2>1
<1>9. AfterThat(0)'
  BY <1>4, <1>6, <1>7, <1>8 DEF AfterThat
<1>10. ServerSide'
  <2>1. \A i \in 1..Len(c2s') : ~(i <= 0)
    OBVIOUS
  <2> QED
    BY <1>1, <1>9, <2>1 DEF ServerSide
<1>11. ClientSide'
  <2>1. DownStreamCut
    BY <1>1, Facts DEF Typed, DownStreamCut, Up
  <2> QED
    BY <1>0, <1>1, <2>1, ClientSideKept
<1>12. WholeFiles'
  BY <1>1, WholeFilesLeft DEF InStep
<1> QED
  BY <1>10, <1>11, <1>12 DEF InStep

-----------------------------------------------------------------------------
(* The server: bodies.                                                     *)

(* A chunk of a download follows what was sent before.                     *)
LEMMA RetrChunkThere ==
    ASSUME TransferInv, RetrChunk
    PROVE  /\ sv = "retr" /\ count # job.size /\ count' \in Nat /\ count <= count'
           /\ root[job.name] # Absent /\ Len(root[job.name]) = job.size
           /\ Len(s2c') \in Nat /\ \A i \in 1..Len(s2c) : s2c'[i] = s2c[i]
           /\ Up => /\ sv' = "retr" /\ Len(s2c') = Len(s2c) + (count' - count)
                    /\ \A j \in 1 .. count' - count :
                         s2c'[Len(s2c) + j][1] = root[job.name][count + j]
           /\ ~Up => s2c' = s2c /\ sv' \in {"retr", "closed"}
           /\ UNCHANGED <<c2s, conn, clVars, job, root, local, root0, faults>>
<1> DEFINE file == root[job.name]
           most == IF count = 0 THEN 1 ELSE BufferSize
           n == Smaller(most, Len(file) - count)
           to == count + n
           piece == SubSeq(file, count + 1, to)
<1>0. /\ IsStream(s2c, DownTokens) /\ Len(s2c) \in Nat /\ count \in Nat /\ job.size \in Nat
      /\ conn \in {"up", "down"} /\ BufferSize \in Nat
  BY Facts, FileTransferAssumption DEF Typed
<1>1. /\ sv = "retr" /\ count < Len(file) /\ ServerSends(Payload(piece), "retr")
      /\ count' = count + n
      /\ UNCHANGED <<c2s, conn, clVars, job, root, local, root0, faults>>
  BY Zenon DEF RetrChunk, fixed
<1>2. file # Absent /\ Len(file) = job.size /\ file \in Seq(UpTokens)
  <2>1. ServerOK
    BY Parts
  <2> QED
    BY <1>1, <2>1 DEF ServerOK
<1> HIDE DEF file
<1>3. n \in Nat /\ count + n <= Len(file)
  <2>1. most \in Nat /\ Len(file) - count \in Nat
    BY <1>0, <1>1, <1>2
  <2> HIDE DEF most
  <2>2. n \in Nat /\ n <= Len(file) - count
    BY <2>1, SmallerIs, Zenon
  <2> HIDE DEF n
  <2> QED
    BY <1>0, <1>2, <2>2
<1> HIDE DEF n
<1>4. /\ piece \in Seq(UpTokens) /\ Len(piece) = n
      /\ \A k \in 1..n : piece[k] = file[count + k]
  <2>1. file \in Seq(UpTokens) /\ count \in Nat /\ to \in Nat /\ to <= Len(file) /\ count <= to
    BY <1>0, <1>2, <1>3
  <2>2. to - count = n
    BY <1>0, <1>3
  <2> HIDE DEF to
  <2>3. /\ piece \in Seq(UpTokens) /\ Len(piece) = to - count
        /\ \A k \in 1 .. to - count : piece[k] = file[count + k]
    BY <2>1, Piece
  <2> QED
    BY <2>2, <2>3
<1> HIDE DEF piece
<1>5. piece \in Seq(DownTokens)
  BY <1>4, SeqMonotonic DEF DownTokens
<1>6. count' \in Nat /\ count <= count' /\ count' - count = n /\ count # job.size
  BY <1>0, <1>1, <1>2, <1>3
<1>7. CASE Up
  <2>1. s2c' = s2c \o Payload(piece) /\ sv' = "retr"
    BY <1>1, <1>7 DEF ServerSends, Up
  <2>2. /\ Len(s2c \o Payload(piece)) = Len(s2c) + Len(piece)
        /\ \A i \in 1 .. Len(s2c) : (s2c \o Payload(piece))[i] = s2c[i]
        /\ \A j \in 1 .. Len(piece) : (s2c \o Payload(piece))[Len(s2c) + j][1] = piece[j]
    <3>1. IsStream(s2c, DownTokens) /\ piece \in Seq(DownTokens)
      BY <1>0, <1>5
    <3> QED
      BY <3>1, SentElements
  <2>3. /\ Len(s2c') = Len(s2c) + n
        /\ \A i \in 1 .. Len(s2c) : s2c'[i] = s2c[i]
        /\ \A j \in 1..n : s2c'[Len(s2c) + j][1] = piece[j]
    BY <1>4, <2>1, <2>2
  <2>4. Len(s2c') \in Nat
    BY <1>0, <1>3, <2>3
  <2>5. \A j \in 1 .. count' - count : s2c'[Len(s2c) + j][1] = file[count + j]
    BY <1>4, <1>6, <2>3
  <2> QED
    BY <1>1, <1>2, <1>6, <1>7, <2>1, <2>3, <2>4, <2>5 DEF file
<1>8. CASE ~Up
  <2>1. s2c' = s2c /\ sv' \in {"retr", "closed"}
    BY <1>0, <1>1, <1>8 DEF ServerSends, Up
  <2> QED
    BY <1>0, <1>1, <1>2, <1>6, <1>8, <2>1 DEF file
<1> QED
  BY <1>7, <1>8

(* What of a body is in the stream once more of it has been sent: `base`   *)
(* tokens of a header, and the body from token `from` + 1.                 *)
LEMMA MoreRests ==
    ASSUME TransferInv, RetrChunk, NEW base \in Nat, NEW from \in Nat, from <= count,
           Len(s2c) <= base + (count - from), Up => Len(s2c) = base + (count - from)
    PROVE  /\ Len(s2c') <= base + (count' - from) /\ (Up' => Len(s2c') = base + (count' - from))
           /\ \A i \in 1..Len(s2c') :
                \/ i \in 1..Len(s2c) /\ s2c'[i] = s2c[i]
                \/ i > base /\ s2c'[i][1] = root[job.name][from + (i - base)]
<1>1. Len(s2c) \in Nat /\ count \in Nat
  BY Facts DEF Typed
<1>2. /\ count' \in Nat /\ count <= count' /\ Len(s2c') \in Nat /\ (Up' <=> Up)
      /\ \A i \in 1..Len(s2c) : s2c'[i] = s2c[i]
      /\ Up => /\ Len(s2c') = Len(s2c) + (count' - count)
               /\ \A j \in 1 .. count' - count :
                    s2c'[Len(s2c) + j][1] = root[job.name][count + j]
      /\ ~Up => s2c' = s2c
  BY RetrChunkThere DEF Up
<1>3. CASE ~Up
  <2>1. Len(s2c') <= base + (count' - from)
    BY <1>1, <1>2, <1>3
  <2>2. \A i \in 1..Len(s2c') : i \in 1..Len(s2c) /\ s2c'[i] = s2c[i]
    BY <1>2, <1>3
  <2> QED
    BY <1>2, <1>3, <2>1, <2>2
<1>4. CASE Up
  <2> DEFINE len0 == Len(s2c)
             len1 == Len(s2c')
             c0 == count
             c1 == count'
  <2>1. /\ len0 \in Nat /\ len1 \in Nat /\ c0 \in Nat /\ c1 \in Nat /\ c0 <= c1
        /\ len0 = base + (c0 - from) /\ len1 = len0 + (c1 - c0) /\ from <= c0
        /\ \A i \in 1..len0 : s2c'[i] = s2c[i]
        /\ \A j \in 1 .. c1 - c0 : s2c'[len0 + j][1] = root[job.name][c0 + j]
    BY <1>1, <1>2, <1>4
  <2> HIDE DEF len0, len1, c0, c1
  <2>2. len1 = base + (c1 - from) /\ len1 <= base + (c1 - from)
    BY <2>1
  <2>3. ASSUME NEW i \in 1..len1, i \notin 1..len0
        PROVE  i > base /\ s2c'[i][1] = root[job.name][from + (i - base)]
    <3> DEFINE j == i - len0
    <3>1. /\ i > base /\ j \in 1 .. c1 - c0
          /\ len0 + j = i /\ c0 + j = from + (i - base)
      <4>1. i \in Nat /\ i > len0 /\ i <= len1 /\ base \in Nat /\ from \in Nat
        BY <1>1, <2>1, <2>3
      <4>2. i > base /\ j \in 1 .. len1 - len0 /\ len0 + j = i
        BY <2>1, <4>1
      <4>3. c0 + j = from + (i - base)
        BY <2>1, <4>1
      <4> QED
        BY <2>1, <4>1, <4>2, <4>3
    <3> HIDE DEF j
    <3>2. s2c'[len0 + j][1] = root[job.name][c0 + j]
      BY <2>1, <3>1
    <3> QED
      BY <3>1, <3>2
  <2>4. \A i \in 1..len1 :
          \/ i \in 1..len0 /\ s2c'[i] = s2c[i]
          \/ i > base /\ s2c'[i][1] = root[job.name][from + (i - base)]
    BY <2>1, <2>3
  <2> QED
    BY <2>2, <2>4 DEF len0, len1, c0, c1
<1> QED
  BY <1>3, <1>4

LEMMA RetrChunkSync ==
    ASSUME TransferInv, TransferInv', InStep, RetrChunk
    PROVE  InStep'
<1>0. ServerSide /\ ClientSide /\ WholeFiles
  BY DEF InStep
<1>1. /\ sv = "retr" /\ count # job.size /\ count' \in Nat /\ count <= count'
      /\ root[job.name] # Absent /\ Len(root[job.name]) = job.size
      /\ Up => sv' = "retr" /\ Len(s2c') = Len(s2c) + (count' - count)
      /\ ~Up => s2c' = s2c /\ sv' \in {"retr", "closed"}
      /\ UNCHANGED <<c2s, conn, clVars, job, root, local, root0, faults>>
  BY RetrChunkThere
<1>2. UNCHANGED <<cl, cur, need, upload, downloads, oversize>> /\ (Up' <=> Up)
  BY <1>1 DEF clVars, Up
<1>3. /\ Len(s2c) \in Nat /\ Len(s2c') \in Nat /\ (s2c = <<>> <=> Len(s2c) = 0)
      /\ (s2c' = <<>> <=> Len(s2c') = 0) /\ count \in Nat /\ job.size \in Nat
  BY Facts, FactsAfter DEF Typed
<1>4. Up => cl = "get" \/ (cl = "await" /\ ~Asked)
  BY <1>0, <1>1 DEF ClientSide, Together
<1>5. Len(s2c) <= Len(s2c')
  <2>1. CASE Up
    BY <1>1, <1>3, <2>1
  <2>2. CASE ~Up
    BY <1>1, <1>3, <2>2
  <2> QED
    BY <2>1, <2>2
<1>6. s2c' = <<>> => s2c = <<>>
  BY <1>3, <1>5
<1>7. Asked' <=> Asked
  <2>1. CASE Up
    BY <1>2, <1>4, <1>6, <2>1 DEF Asked
  <2>2. CASE ~Up
    BY <1>1, <1>2, <2>2 DEF Asked
  <2> QED
    BY <2>1, <2>2
<1>8. ServerSide'
  <2>1. AfterThat(0)
    BY <1>0, <1>1 DEF ServerSide
  <2>2. AfterThat(0)'
    BY <1>1, <1>2, <1>7, <2>1 DEF AfterThat
  <2>3. sv' \in {"retr", "closed"}
    BY <1>1
  <2> QED
    BY <2>2, <2>3 DEF ServerSide
<1>9. ASSUME Announced
      PROVE  Announced'
  <2>1. sv' \in {"retr", "closed"}
    BY <1>1
  <2> QED
    BY <1>1, <1>2, <1>9, <2>1 DEF Announced
<1>10. ASSUME cl = "await", ~Asked
       PROVE  Answered' /\ cur.cmd = "RETR"
  <2>1. Offered
    BY <1>0, <1>1, <1>10
       DEF ClientSide, Answered, Refused, Removed, Opened, Released, Enumerated, Accepted
  <2>2. /\ Announced /\ Len(s2c) <= count + 4 /\ (Up => Len(s2c) = count + 4)
        /\ \A i \in 1..Len(s2c) :
             s2c[i][1] = IF i <= 4 THEN Line(Reply(OK, job.size, cur))[i]
                         ELSE root[job.name][i - 4]
    BY <2>1 DEF Offered, Replied
  <2>3. /\ Len(s2c') <= 4 + (count' - 0) /\ (Up' => Len(s2c') = 4 + (count' - 0))
        /\ \A i \in 1..Len(s2c') :
             \/ i \in 1..Len(s2c) /\ s2c'[i] = s2c[i]
             \/ i > 4 /\ s2c'[i][1] = root[job.name][0 + (i - 4)]
    <3>1. 0 <= count /\ Len(s2c) <= 4 + (count - 0) /\ (Up => Len(s2c) = 4 + (count - 0))
      BY <1>3, <2>2
    <3> QED
      BY <3>1, MoreRests
  <2>4. Len(s2c') <= count' + 4 /\ (Up' => Len(s2c') = count' + 4)
    <3>1. count' \in Nat
      BY <1>1
    <3> DEFINE c1 == count'
    <3>2. 4 + (c1 - 0) = c1 + 4
      BY <3>1
    <3> HIDE DEF c1
    <3>3. Len(s2c') <= 4 + (c1 - 0) /\ (Up' => Len(s2c') = 4 + (c1 - 0))
      BY <2>3 DEF c1
    <3>4. Len(s2c') <= c1 + 4 /\ (Up' => Len(s2c') = c1 + 4)
      BY <3>2, <3>3
    <3> QED
      BY <3>4 DEF c1
  <2>5. ASSUME NEW i \in 1..Len(s2c')
        PROVE  s2c'[i][1] = IF i <= 4 THEN Line(Reply(OK, job.size, cur))[i]
                            ELSE root[job.name][i - 4]
    <3>1. CASE i \in 1..Len(s2c) /\ s2c'[i] = s2c[i]
      BY <2>2, <3>1
    <3>2. CASE i > 4 /\ s2c'[i][1] = root[job.name][0 + (i - 4)]
      <4>1. ~(i <= 4) /\ 0 + (i - 4) = i - 4
        BY <3>2
      <4> QED
        BY <3>2, <4>1
    <3> QED
      BY <2>3, <3>1, <3>2
  <2>6. Replied(OK, job.size, root[job.name], count)'
    BY <1>1, <1>2, <2>4, <2>5 DEF Replied
  <2> QED
    BY <1>9, <2>2, <2>6 DEF Answered, Offered, Announced
<1>11. ASSUME cl = "get"
       PROVE  Getting'
  <2> DEFINE copy == downloads[cur.name]
             l == Len(copy)
  <2>1. /\ Announced /\ l + need = job.size /\ l <= count
        /\ \A i \in 1..l : copy[i] = root[job.name][i]
        /\ Len(s2c) <= count - l /\ (Up => Len(s2c) = count - l)
        /\ \A i \in 1..Len(s2c) : s2c[i][1] = root[job.name][l + i]
    BY <1>0, <1>11 DEF ClientSide, Getting, Rests
  <2>2. l \in Nat
    BY <1>11, CopyIs
  <2> HIDE DEF l
  <2>3. /\ Len(s2c') <= 0 + (count' - l) /\ (Up' => Len(s2c') = 0 + (count' - l))
        /\ \A i \in 1..Len(s2c') :
             \/ i \in 1..Len(s2c) /\ s2c'[i] = s2c[i]
             \/ i > 0 /\ s2c'[i][1] = root[job.name][l + (i - 0)]
    <3>1. l <= count /\ Len(s2c) <= 0 + (count - l) /\ (Up => Len(s2c) = 0 + (count - l))
      BY <1>3, <2>1, <2>2
    <3> QED
      BY <2>2, <3>1, MoreRests
  <2>4. Len(s2c') <= count' - l /\ (Up' => Len(s2c') = count' - l)
    <3>1. count' \in Nat
      BY <1>1
    <3> DEFINE c1 == count'
    <3>2. 0 + (c1 - l) = c1 - l
      BY <2>2, <3>1
    <3> HIDE DEF c1
    <3>3. Len(s2c') <= 0 + (c1 - l) /\ (Up' => Len(s2c') = 0 + (c1 - l))
      BY <2>3 DEF c1
    <3>4. Len(s2c') <= c1 - l /\ (Up' => Len(s2c') = c1 - l)
      BY <3>2, <3>3
    <3> QED
      BY <3>4 DEF c1
  <2>5. ASSUME NEW i \in 1..Len(s2c')
        PROVE  s2c'[i][1] = root[job.name][l + i]
    <3>1. CASE i \in 1..Len(s2c) /\ s2c'[i] = s2c[i]
      BY <2>1, <3>1
    <3>2. CASE s2c'[i][1] = root[job.name][l + (i - 0)]
      <4>1. i - 0 = i
        OBVIOUS
      <4> QED
        BY <3>2, <4>1
    <3> QED
      BY <2>3, <3>1, <3>2
  <2>6. Rests(root[job.name], Len(downloads[cur.name]), count)'
    BY <1>1, <1>2, <2>4, <2>5 DEF Rests, l
  <2>7. l <= count'
    BY <1>1, <1>3, <2>1, <2>2
  <2> QED
    BY <1>1, <1>2, <1>9, <2>1, <2>6, <2>7 DEF Getting, l
<1>12. ClientSide'
  <2>1. cl # "list" /\ cl # "put"
    BY <1>0, <1>1 DEF ClientSide, Listed, Putting
  <2>2. (Up => Together)'
    BY <1>1, <1>2, <1>4, <1>7, <1>10 DEF Together
  <2>3. (cl = "prompt" => s2c = <<>>)'
    BY <1>0, <1>1, <1>2, <1>4 DEF ClientSide
  <2> QED
    BY <1>0, <1>1, <1>2, <1>7, <1>10, <1>11, <2>1, <2>2, <2>3 DEF ClientSide
<1>13. WholeFiles'
  BY <1>0, <1>1, WholeFilesKept
<1> QED
  BY <1>8, <1>12, <1>13 DEF InStep

LEMMA RetrDoneSync ==
    ASSUME TransferInv, TransferInv', InStep, RetrDone
    PROVE  InStep'
<1>0. ServerSide /\ ClientSide /\ WholeFiles
  BY DEF InStep
<1>1. /\ sv = "retr" /\ count >= Len(root[job.name]) /\ sv' = "recv"
      /\ UNCHANGED <<c2s, s2c, conn, clVars, job, count, root, local, root0, faults>>
  BY DEF RetrDone, fixed
<1>2. UNCHANGED <<cl, cur, need, upload, downloads, oversize>> /\ (Up' <=> Up) /\ (Asked' <=> Asked)
  BY <1>1 DEF clVars, Up, Asked
<1>3. count = job.size
  <2>1. ServerOK /\ count \in Nat /\ job.size \in Nat /\ count <= job.size
    BY Parts, Facts DEF Typed
  <2>2. Len(root[job.name]) = job.size
    BY <1>1, <2>1 DEF ServerOK
  <2> QED
    BY <1>1, <2>1, <2>2
<1>4. ServerSide'
  <2>1. AfterThat(0)
    BY <1>0, <1>1 DEF ServerSide
  <2>2. AfterThat(0)'
    BY <1>1, <1>2, <2>1 DEF AfterThat
  <2>3. \A i \in 1..Len(c2s') : ~(i <= 0)
    OBVIOUS
  <2> QED
    BY <1>1, <2>2, <2>3 DEF ServerSide
<1>5. Announced => Announced'
  BY <1>1, <1>2, <1>3 DEF Announced
<1>6. ASSUME cl = "await", ~Asked
      PROVE  Answered'
  <2>1. Offered
    BY <1>0, <1>1, <1>6
       DEF ClientSide, Answered, Refused, Removed, Opened, Released, Enumerated, Accepted
  <2>2. Replied(OK, job.size, root[job.name], count)'
    BY <1>1, <1>2, <2>1 DEF Offered, Replied
  <2> QED
    BY <1>5, <2>1, <2>2 DEF Answered, Offered
<1>7. ASSUME cl = "get"
      PROVE  Getting'
  BY <1>0, <1>1, <1>2, <1>5, <1>7 DEF ClientSide, Getting, Rests
<1>8. ClientSide'
  <2>1. cl # "list" /\ cl # "put"
    BY <1>0, <1>1 DEF ClientSide, Listed, Putting
  <2>2. (Up => Together)'
    BY <1>0, <1>1, <1>2 DEF ClientSide, Together
  <2> QED
    BY <1>0, <1>1, <1>2, <1>6, <1>7, <2>1, <2>2 DEF ClientSide
<1>9. WholeFiles'
  BY <1>0, <1>1, WholeFilesKept
<1> QED
  BY <1>4, <1>8, <1>9 DEF InStep

LEMMA PrefixIs ==
    ASSUME NEW S, NEW s \in Seq(S), NEW t \in Seq(S), Len(s) <= Len(t),
           \A i \in 1..Len(s) : s[i] = t[i]
    PROVE  IsPrefix(s, t)
<1>1. Len(s) \in Nat /\ Len(t) \in Nat
  BY LenProperties
<1>2. /\ SubSeq(s, 0 + 1, Len(s)) \in Seq(S) /\ Len(SubSeq(s, 0 + 1, Len(s))) = Len(s) - 0
      /\ \A k \in 1 .. Len(s) - 0 : SubSeq(s, 0 + 1, Len(s))[k] = s[0 + k]
  BY <1>1, Piece
<1>3. /\ SubSeq(t, 0 + 1, Len(s)) \in Seq(S) /\ Len(SubSeq(t, 0 + 1, Len(s))) = Len(s) - 0
      /\ \A k \in 1 .. Len(s) - 0 : SubSeq(t, 0 + 1, Len(s))[k] = t[0 + k]
  BY <1>1, Piece
<1>4. /\ 0 + 1 = 1 /\ Len(s) - 0 = Len(s) /\ \A k \in 1..Len(s) : 0 + k = k
  BY <1>1
<1>5. SubSeq(s, 1, Len(s)) = SubSeq(t, 1, Len(s))
  <2> DEFINE a == SubSeq(s, 1, Len(s))
             b == SubSeq(t, 1, Len(s))
  <2>1. /\ a \in Seq(S) /\ b \in Seq(S) /\ Len(a) = Len(s) /\ Len(b) = Len(s)
        /\ \A k \in 1..Len(s) : a[k] = s[k] /\ b[k] = t[k]
    BY <1>2, <1>3, <1>4
  <2> HIDE DEF a, b
  <2>2. a = b
    BY <2>1, SeqEqual
  <2> QED
    BY <2>2 DEF a, b
<1> QED
  BY <1>5 DEF IsPrefix

(* What the server takes of an upload is the next of the user's file.      *)
LEMMA StorChunkThere ==
    ASSUME TransferInv, InStep, StorChunk
    PROVE  /\ sv = "stor" /\ job.name \in Name
           /\ Len(root'[job.name]) = count' /\ root'[job.name] \in Seq(UpTokens)
           /\ \A i \in 1..count' : root'[job.name][i] = local[job.name][i]
           /\ \A f \in Name : f # job.name => root'[f] = root[f]
           /\ count' \in Nat /\ count <= count' /\ count' <= Sent
           /\ Len(c2s') = Len(c2s) - (count' - count)
           /\ \A k \in 1 .. Len(c2s) - (count' - count) : c2s'[k] = c2s[(count' - count) + k]
           /\ cl = "await" => Asked
           /\ UNCHANGED <<s2c, conn, clVars, sv, job, local, root0, faults>>
<1> DEFINE size == Smaller(job.size - count, BufferSize)
           n == Received(c2s, size)
           piece == Tokens(SubSeq(c2s, 1, n))
           file == local[job.name]
           part == root[job.name]
<1>0. ServerSide
  BY DEF InStep
<1>1. /\ sv = "stor" /\ count < job.size /\ c2s # <<>>
      /\ root' = [root EXCEPT ![job.name] = @ \o piece]
      /\ c2s' = Drop(c2s, n) /\ count' = count + n
      /\ UNCHANGED <<s2c, conn, clVars, sv, job, local, root0, faults>>
  BY DEF StorChunk, fixed
<1>2. /\ IsStream(c2s, UpTokens) /\ Len(c2s) \in Nat /\ (c2s = <<>> <=> Len(c2s) = 0)
      /\ count \in Nat /\ job.size \in Nat /\ Extra(cur) \in Nat
      /\ cl \in {"prompt", "await", "get", "list", "put", "closed"}
  BY Facts DEF Typed
<1>3. /\ job.name \in Name /\ root \in [Name -> Seq(UpTokens) \union {Absent}]
      /\ part \in Seq(UpTokens) /\ Len(part) = count
  <2>1. ServerOK
    BY Parts
  <2> QED
    BY <1>1, <2>1 DEF ServerOK
<1>4. size \in Nat \ {0} /\ size <= job.size - count
  <2> DEFINE left == job.size - count
  <2>1. left \in Nat \ {0} /\ BufferSize \in Nat \ {0}
    BY <1>1, <1>2, FileTransferAssumption
  <2> HIDE DEF left
  <2>2. Smaller(left, BufferSize) \in Nat \ {0} /\ Smaller(left, BufferSize) <= left
    BY <2>1, SmallerIs
  <2> QED
    BY <2>2 DEF left
<1> HIDE DEF size
<1>5. n \in 1..size /\ n <= Len(c2s)
  BY <1>1, <1>2, <1>4, ReceivedIs
<1> HIDE DEF n
<1>6. n \in Nat /\ n # 0 /\ n <= job.size - count /\ count' - count = n
  BY <1>1, <1>2, <1>4, <1>5
<1>7. /\ piece \in Seq(UpTokens) /\ Len(piece) = n
      /\ \A k \in 1..n : piece[k] = c2s[k][1]
  BY <1>2, <1>5, <1>6, PieceElements
<1> HIDE DEF piece
<1> DEFINE sent == Sent
<1>8. /\ count <= sent
      /\ Len(c2s) <= (sent - count) + (IF Asked THEN Extra(cur) + 4 ELSE 0)
      /\ \A i \in 1..count : part[i] = file[i]
      /\ \A i \in 1..Len(c2s) : i <= sent - count => c2s[i][1] = file[count + i]
  BY <1>0, <1>1 DEF ServerSide, AfterThat
<1>9. /\ sent \in Nat /\ (Asked => sent = job.size)
      /\ cl = "await" /\ ~Asked => sent = 0
  BY Facts DEF Sent, Typed, Asked
<1> HIDE DEF sent
<1>10. n <= sent - count
  <2>1. CASE Asked
    BY <1>6, <1>9, <2>1
  <2>2. CASE ~Asked
    <3>1. Len(c2s) <= (sent - count) + 0
      BY <1>8, <2>2
    <3> QED
      BY <1>2, <1>5, <1>6, <1>8, <1>9, <3>1
  <2> QED
    BY <2>1, <2>2
<1>11. cl = "await" => Asked
  <2> SUFFICES ASSUME cl = "await", ~Asked
               PROVE  FALSE
    OBVIOUS
  <2>1. sent = 0
    BY <1>9
  <2> QED
    BY <1>2, <1>6, <1>10, <2>1
<1>12. count' \in Nat /\ count <= count' /\ count' <= sent
  <2>1. count + n \in Nat /\ count <= count + n /\ count + n <= sent
    BY <1>2, <1>6, <1>9, <1>10
  <2> QED
    BY <1>1, <2>1
<1>13. Len(c2s') = Len(c2s) - n /\ \A k \in 1 .. Len(c2s) - n : c2s'[k] = c2s[n + k]
  <2>1. /\ Len(Drop(c2s, n)) = Len(c2s) - n
        /\ \A k \in 1 .. Len(c2s) - n : Drop(c2s, n)[k] = c2s[n + k]
    <3>1. \A k \in Nat : k <= Len(c2s) =>
             /\ Len(Drop(c2s, k)) = Len(c2s) - k
             /\ \A i \in 1 .. Len(c2s) - k : Drop(c2s, k)[i] = c2s[k + i]
      BY <1>2, <1>5, DropElements
    <3>2. n \in Nat /\ n <= Len(c2s)
      BY <1>2, <1>5, <1>6
    <3> QED
      BY <3>1, <3>2
  <2> QED
    BY <1>1, <2>1
<1>14. root'[job.name] = part \o piece /\ \A f \in Name : f # job.name => root'[f] = root[f]
  BY <1>1, <1>3
<1> HIDE DEF part, file
<1>15. /\ part \o piece \in Seq(UpTokens) /\ Len(part \o piece) = count + n
       /\ \A i \in 1 .. count + n :
            (part \o piece)[i] = IF i <= count THEN part[i] ELSE piece[i - count]
  <2>1. /\ part \o piece \in Seq(UpTokens) /\ Len(part \o piece) = Len(part) + Len(piece)
        /\ \A i \in 1 .. Len(part) + Len(piece) :
             (part \o piece)[i] = IF i <= Len(part) THEN part[i] ELSE piece[i - Len(part)]
    BY <1>3, <1>7, ConcatProperties
  <2> QED
    BY <1>3, <1>7, <2>1
<1>16. ASSUME NEW i \in 1 .. count + n
       PROVE  (part \o piece)[i] = file[i]
  <2>1. CASE i <= count
    <3>1. i \in 1..count
      BY <1>2, <2>1
    <3> QED
      BY <1>8, <1>15, <2>1, <3>1
  <2>2. CASE ~(i <= count)
    <3> DEFINE k == i - count
    <3>1. k \in 1..n /\ k \in 1..Len(c2s) /\ k <= sent - count /\ count + k = i
      BY <1>2, <1>5, <1>6, <1>9, <1>10, <2>2
    <3>2. (part \o piece)[i] = piece[k]
      BY <1>15, <2>2
    <3> HIDE DEF k
    <3>3. piece[k] = c2s[k][1] /\ c2s[k][1] = file[count + k]
      BY <1>7, <1>8, <3>1
    <3> QED
      BY <3>1, <3>2, <3>3
  <2> QED
    BY <2>1, <2>2
<1>17. /\ Len(root'[job.name]) = count' /\ root'[job.name] \in Seq(UpTokens)
       /\ \A i \in 1..count' : root'[job.name][i] = file[i]
  <2>1. /\ Len(part \o piece) = count' /\ \A i \in 1..count' : (part \o piece)[i] = file[i]
    BY <1>1, <1>15, <1>16
  <2> QED
    BY <1>14, <1>15, <2>1
<1>18. /\ Len(c2s') = Len(c2s) - (count' - count)
       /\ \A k \in 1 .. Len(c2s) - (count' - count) : c2s'[k] = c2s[(count' - count) + k]
  BY <1>6, <1>13
<1> QED
  BY <1>1, <1>3, <1>11, <1>12, <1>14, <1>17, <1>18 DEF sent, file

LEMMA StorChunkSync ==
    ASSUME TransferInv, TransferInv', Calm, InStep, StorChunk
    PROVE  InStep'
<1> DEFINE file == local[job.name]
           c0 == count
           c1 == count'
           sent == Sent
           len0 == Len(c2s)
           len1 == Len(c2s')
<1>0. ServerSide /\ ClientSide /\ WholeFiles
  BY DEF InStep
<1>1. /\ sv = "stor" /\ job.name \in Name
      /\ Len(root'[job.name]) = c1 /\ root'[job.name] \in Seq(UpTokens)
      /\ \A i \in 1..c1 : root'[job.name][i] = file[i]
      /\ \A f \in Name : f # job.name => root'[f] = root[f]
      /\ c1 \in Nat /\ c0 <= c1 /\ c1 <= sent
      /\ len1 = len0 - (c1 - c0)
      /\ \A k \in 1 .. len0 - (c1 - c0) : c2s'[k] = c2s[(c1 - c0) + k]
      /\ cl = "await" => Asked
      /\ UNCHANGED <<s2c, conn, clVars, sv, job, local, root0, faults>>
  BY StorChunkThere
<1>2. UNCHANGED <<cl, cur, need, upload, downloads, oversize>> /\ (Up' <=> Up) /\ (Asked' <=> Asked)
  BY <1>1 DEF clVars, Up, Asked
<1>3. Sent' = Sent
  BY <1>1, <1>2 DEF Sent
<1>4. len0 \in Nat /\ len1 \in Nat /\ c0 \in Nat /\ sent \in Nat /\ Extra(cur) \in Nat
      /\ job.size \in Nat /\ c1 <= job.size
  BY Facts, FactsAfter, <1>1 DEF Typed
<1>5. file # Absent /\ job.size = Len(file)
  BY <1>0, <1>1 DEF ServerSide
<1> DEFINE k0 == sent - c0
           k1 == sent - c1
           all == IF Asked THEN Extra(cur) + 4 ELSE 0
<1>6. /\ len0 <= k0 + all /\ (Up => len0 = k0 + all)
      /\ \A i \in 1..len0 : i > k0 => c2s[i][1] = RequestLine(cur)[i - k0]
      /\ \A i \in 1..len0 : i <= k0 => c2s[i][1] = file[c0 + i]
  BY <1>0, <1>1 DEF ServerSide, AfterThat
<1>7. all \in Nat /\ all = (IF Asked' THEN Extra(cur') + 4 ELSE 0)
  BY <1>2, <1>4
<1>8. k1 = Sent' - count'
  BY <1>3 DEF k1, sent, c1
<1> HIDE DEF file, c0, c1, sent, len0, len1, all
<1>9. /\ k0 \in Nat /\ k1 \in Nat /\ k0 = (c1 - c0) + k1 /\ c1 - c0 \in Nat
  BY <1>1, <1>4
<1> HIDE DEF k0, k1
<1> DEFINE n == c1 - c0
<1>10. /\ n \in Nat /\ k0 = n + k1 /\ c0 + n = c1 /\ len1 = len0 - n
      /\ \A k \in 1 .. len0 - n : c2s'[k] = c2s[n + k]
  BY <1>1, <1>4, <1>9
<1> HIDE DEF n
<1>11. len1 <= k1 + all /\ (Up => len1 = k1 + all)
  <2>1. len1 = len0 - (c1 - c0) /\ c1 \in Nat
    BY <1>1
  <2>2. len0 <= k0 + all /\ (Up => len0 = k0 + all)
    BY <1>6
  <2>3. all \in Nat
    BY <1>7
  <2> QED
    BY <1>4, <1>9, <2>1, <2>2, <2>3
<1>12. ASSUME NEW i \in 1..len1
       PROVE  /\ i > k1 => c2s'[i][1] = RequestLine(cur)[i - k1]
              /\ i <= k1 => c2s'[i][1] = file[c1 + i]
  <2>1. c2s'[i] = c2s[n + i] /\ n + i \in 1..len0
    BY <1>4, <1>10
  <2>2. ASSUME i > k1 PROVE c2s'[i][1] = RequestLine(cur)[i - k1]
    <3>1. n + i > k0 /\ (n + i) - k0 = i - k1
      BY <1>4, <1>9, <1>10, <2>2
    <3> QED
      BY <1>6, <2>1, <3>1
  <2>3. ASSUME i <= k1 PROVE c2s'[i][1] = file[c1 + i]
    <3>1. n + i <= k0 /\ c0 + (n + i) = c1 + i
      BY <1>1, <1>4, <1>9, <1>10, <2>3
    <3> QED
      BY <1>6, <2>1, <3>1
  <2> QED
    BY <2>2, <2>3
<1>13. AfterThat(Sent - count)'
  <2>1. /\ Len(c2s') <= k1 + (IF Asked' THEN Extra(cur') + 4 ELSE 0)
        /\ Up' => Len(c2s') = k1 + (IF Asked' THEN Extra(cur') + 4 ELSE 0)
        /\ \A i \in 1..Len(c2s') : i > k1 => c2s'[i][1] = RequestLine(cur')[i - k1]
    BY <1>2, <1>7, <1>11, <1>12 DEF len1
  <2> QED
    BY <1>8, <2>1 DEF AfterThat
<1>14. (\A i \in 1..Len(c2s) : i <= Sent - count => c2s[i][1] = local[job.name][count + i])'
  <2>1. \A i \in 1..Len(c2s') : i <= k1 => c2s'[i][1] = file[c1 + i]
    BY <1>12 DEF len1
  <2> QED
    BY <1>1, <1>8, <2>1 DEF file, c1
<1>15. (count <= Sent)'
  BY <1>1, <1>3 DEF c1, sent
<1>16. ServerSide'
  <2>1. (/\ local[job.name] # Absent /\ job.size = Len(local[job.name])
         /\ \A i \in 1..count : root[job.name][i] = local[job.name][i])'
    BY <1>1, <1>5 DEF file, c1
  <2> QED
    BY <1>1, <1>13, <1>14, <1>15, <2>1 DEF ServerSide
<1>17. ClientSide'
  <2>1. cl # "get" /\ cl # "list"
    BY <1>0, <1>1 DEF ClientSide, Getting, Announced, Listed
  <2>2. cl = "put" => Putting'
    BY <1>0, <1>1, <1>2 DEF ClientSide, Putting
  <2>3. (Up => Together)'
    BY <1>0, <1>1, <1>2 DEF ClientSide, Together
  <2> QED
    BY <1>0, <1>1, <1>2, <2>1, <2>2, <2>3 DEF ClientSide
<1>18. IsPrefix(root'[job.name], file)
  <2>1. file \in Seq(UpTokens)
    <3>1. ClientOK
      BY Parts
    <3>2. file \in Seq(Data)
      BY <1>1, <1>5, <3>1, FileTransferAssumption DEF ClientOK, file
    <3> QED
      BY <3>2, PlainIsUp, SeqMonotonic
  <2> DEFINE part == root'[job.name]
  <2>2. /\ part \in Seq(UpTokens) /\ Len(part) <= Len(file)
        /\ \A i \in 1..Len(part) : part[i] = file[i]
    BY <1>1, <1>4, <1>5
  <2> HIDE DEF part
  <2>3. IsPrefix(part, file)
    BY <2>1, <2>2, PrefixIs
  <2> QED
    BY <2>3 DEF part
<1>19. WholeFiles'
  <2>1. \A f \in Name : f # job.name => root[f] \in {root0[f], local[f], Absent}
    BY <1>0 DEF WholeFiles
  <2>2. \A f \in Name : f # job.name => root'[f] \in {root0'[f], local'[f], Absent}
    BY <1>1, <2>1
  <2>3. sv' = "stor" /\ job' = job /\ IsPrefix(root'[job.name], local'[job.name])
    BY <1>1, <1>18 DEF file
  <2> QED
    BY <2>2, <2>3 DEF WholeFiles
<1> QED
  BY <1>16, <1>17, <1>19 DEF InStep

(* An upload the server has counted to its end is the file of the user,    *)
(* and the client has sent all of it.                                      *)
LEMMA UploadIsWhole ==
    ASSUME TransferInv, ServerSide, sv = "stor", count >= job.size
    PROVE  root[job.name] = local[job.name] /\ count = job.size /\ job.size <= Sent
           /\ AfterThat(Sent - count)
<1> DEFINE file == local[job.name]
           part == root[job.name]
<1>1. count = job.size /\ job.size \in Nat
  BY Facts DEF Typed
<1>2. /\ file # Absent /\ job.size = Len(file) /\ count <= Sent /\ AfterThat(Sent - count)
      /\ \A i \in 1..count : part[i] = file[i]
  BY DEF ServerSide
<1>3. part \in Seq(UpTokens) /\ Len(part) = count /\ job.name \in Name
  <2>1. ServerOK
    BY Parts
  <2> QED
    BY <2>1 DEF ServerOK
<1>4. file \in Seq(UpTokens)
  <2>1. ClientOK
    BY Parts
  <2>2. file \in Seq(Data)
    BY <1>2, <1>3, <2>1, FileTransferAssumption DEF ClientOK
  <2> QED
    BY <2>2, PlainIsUp, SeqMonotonic
<1> HIDE DEF file, part
<1>5. part = file
  BY <1>1, <1>2, <1>3, <1>4, SeqEqual
<1> QED
  BY <1>1, <1>2, <1>5 DEF file, part

LEMMA StorDoneSync ==
    ASSUME TransferInv, TransferInv', Calm, InStep, StorDone
    PROVE  InStep'
<1>0. ServerSide /\ ClientSide /\ WholeFiles
  BY DEF InStep
<1>1. /\ sv = "stor" /\ count >= job.size /\ sv' = "recv"
      /\ UNCHANGED <<c2s, s2c, conn, clVars, job, count, root, local, root0, faults>>
  BY DEF StorDone, fixed
<1>2. UNCHANGED <<cl, cur, need, upload, downloads, oversize>> /\ (Up' <=> Up) /\ (Asked' <=> Asked)
  BY <1>1 DEF clVars, Up, Asked
<1>3. root[job.name] = local[job.name] /\ count = job.size /\ job.size <= Sent
      /\ AfterThat(Sent - count)
  BY <1>0, <1>1, UploadIsWhole
<1>4. job.size \in Nat /\ cur.size \in Int /\ need \in Nat
      /\ cl \in {"prompt", "await", "get", "list", "put", "closed"}
  BY Facts DEF Typed
<1>5. cl = "put" => need = 0 /\ job.size = cur.size
  <2> SUFFICES ASSUME cl = "put"
               PROVE  need = 0 /\ job.size = cur.size
    OBVIOUS
  <2>1. job.size = cur.size
    BY <1>0, <1>1 DEF ClientSide, Putting
  <2>2. job.size <= cur.size - need
    BY <1>3 DEF Sent
  <2> QED
    BY <1>4, <2>1, <2>2
<1>6. cl = "await" /\ ~Asked => job.size = 0
  <2> SUFFICES ASSUME cl = "await", ~Asked
               PROVE  job.size = 0
    OBVIOUS
  <2>1. job.size <= 0
    BY <1>3 DEF Sent
  <2> QED
    BY <1>4, <2>1
<1>7. Sent = job.size
  BY <1>4, <1>5, <1>6 DEF Sent
<1>8. AfterThat(0)
  <2> DEFINE k == Sent - count
  <2>1. k = 0
    BY <1>3, <1>4, <1>7
  <2> HIDE DEF k
  <2>2. AfterThat(k)
    BY <1>3 DEF k
  <2> QED
    BY <2>1, <2>2
<1>9. ServerSide'
  <2>1. AfterThat(0)'
    BY <1>1, <1>2, <1>8 DEF AfterThat
  <2>2. \A i \in 1..Len(c2s') : ~(i <= 0)
    OBVIOUS
  <2> QED
    BY <1>1, <2>1, <2>2 DEF ServerSide
<1>10. ASSUME cl = "await", ~Asked
       PROVE  Answered'
  <2>1. Accepted
    BY <1>0, <1>1, <1>10
       DEF ClientSide, Answered, Refused, Removed, Opened, Released, Enumerated, Offered, Announced
  <2>2. job.size = cur.size
    BY <1>1, <2>1 DEF Accepted
  <2>3. Replied(OK, NoSize, <<>>, 0)'
    BY <1>1, <1>2, <2>1 DEF Accepted, Replied
  <2> QED
    BY <1>1, <1>2, <1>6, <1>10, <2>1, <2>2, <2>3 DEF Accepted, Answered
<1>11. cl = "put" => Putting'
  BY <1>0, <1>1, <1>2, <1>5 DEF ClientSide, Putting
<1>12. ClientSide'
  <2>1. cl # "get" /\ cl # "list"
    BY <1>0, <1>1 DEF ClientSide, Getting, Announced, Listed
  <2>2. (Up => Together)'
    BY <1>0, <1>1, <1>2 DEF ClientSide, Together
  <2> QED
    BY <1>0, <1>1, <1>2, <1>10, <1>11, <2>1, <2>2 DEF ClientSide
<1>13. WholeFiles'
  <2>1. \A f \in Name : root[f] \in {root0[f], local[f], Absent}
    BY <1>0, <1>1, <1>3 DEF WholeFiles
  <2> QED
    BY <1>1, <2>1 DEF WholeFiles
<1> QED
  BY <1>9, <1>12, <1>13 DEF InStep

LEMMA ServerStepSync ==
    ASSUME TransferInv, TransferInv', Calm, InStep, ServerStep
    PROVE  InStep'
BY ExecDeleSync, ExecListSync, ExecRetrSync, ExecStorSync, ExecQuitSync, ExecOtherSync,
   RetrChunkSync, RetrDoneSync, StorChunkSync, StorDoneSync, ServerRecvFailsSync
   DEF ServerStep

-----------------------------------------------------------------------------
(* Listings: where their payloads end.                                     *)

(* The server does not touch root/ while a listing is under way.           *)
LEMMA ListingKeeps ==
    ASSUME ListingWhole, UNCHANGED <<root, cl, cur, need, listed>>,
           PayloadEnds(s2c') \subseteq PayloadEnds(s2c)
    PROVE  ListingWhole'
<1>1. UNCHANGED Listing
  BY ListingKept
<1>2. (cl = "await" /\ cur.cmd = "LIST" => PayloadEnds(s2c) \subseteq {4, 4 + Len(Listing)})'
  BY <1>1 DEF ListingWhole
<1>3. (cl = "list" /\ Len(Listing) < BufferSize =>
         \/ need = Len(Listing) /\ listed = <<>> /\ PayloadEnds(s2c) \subseteq {Len(Listing)}
         \/ need = 0 /\ listed = Listing)'
  BY <1>1 DEF ListingWhole
<1> QED
  BY <1>2, <1>3 DEF ListingWhole

LEMMA NoEnds == PayloadEnds(<<>>) = {}
BY DEF PayloadEnds

(* No listing is under way.                                                *)
LEMMA NoListing ==
    ASSUME cl' # "list", cl' = "await" => cur'.cmd # "LIST" \/ s2c' = <<>>
    PROVE  ListingWhole'
<1>1. s2c' = <<>> => PayloadEnds(s2c') = {}
  BY NoEnds
<1> QED
  BY <1>1 DEF ListingWhole

LEMMA PayloadMarks ==
    ASSUME NEW T, NEW t \in Seq(T)
    PROVE  PayloadEnds(Payload(t)) \subseteq {Len(t)}
<1>1. Len(Payload(t)) = Len(t)
  BY PayloadIs
<1>2. \A i \in 1..Len(t) : Payload(t)[i][2] => i = Len(t)
  BY DEF Payload
<1> QED
  BY <1>1, <1>2 DEF PayloadEnds

LEMMA JoinedMarks ==
    ASSUME NEW T, NEW a \in Seq(T), NEW b \in Seq(T)
    PROVE  PayloadEnds(Payload(a) \o Payload(b)) \subseteq {Len(a), Len(a) + Len(b)}
<1> DEFINE p == Payload(a)
           q == Payload(b)
<1>1. /\ p \in Seq(T \X BOOLEAN) /\ Len(p) = Len(a) /\ Len(a) \in Nat
      /\ q \in Seq(T \X BOOLEAN) /\ Len(q) = Len(b) /\ Len(b) \in Nat
  BY PayloadIs, LenProperties DEF IsStream
<1>2. /\ \A i \in 1..Len(a) : p[i][2] => i = Len(a)
      /\ \A i \in 1..Len(b) : q[i][2] => i = Len(b)
  BY DEF Payload
<1> HIDE DEF p, q
<1>3. /\ Len(p \o q) = Len(a) + Len(b)
      /\ \A i \in 1 .. Len(a) + Len(b) : (p \o q)[i] = IF i <= Len(a) THEN p[i] ELSE q[i - Len(a)]
  <2>1. /\ Len(p \o q) = Len(p) + Len(q)
        /\ \A i \in 1 .. Len(p) + Len(q) : (p \o q)[i] = IF i <= Len(p) THEN p[i] ELSE q[i - Len(p)]
    BY <1>1, ConcatProperties
  <2> QED
    BY <1>1, <2>1
<1>4. ASSUME NEW i \in 1 .. Len(a) + Len(b), (p \o q)[i][2]
      PROVE  i \in {Len(a), Len(a) + Len(b)}
  <2>1. CASE i <= Len(a)
    <3>1. i \in 1..Len(a) /\ p[i][2]
      BY <1>1, <1>3, <1>4, <2>1
    <3> QED
      BY <1>2, <3>1
  <2>2. CASE ~(i <= Len(a))
    <3>1. i - Len(a) \in 1..Len(b) /\ q[i - Len(a)][2]
      BY <1>1, <1>3, <1>4, <2>2
    <3>2. i - Len(a) = Len(b)
      BY <1>2, <3>1
    <3> QED
      BY <1>1, <3>2
  <2> QED
    BY <2>1, <2>2
<1> QED
  BY <1>3, <1>4 DEF PayloadEnds, p, q

(* The header of a reply, as a line.                                       *)
LEMMA HeaderLine ==
    ASSUME TransferInv, NEW code \in {OK, BAD_FILE, SERVER_ERROR, COMMAND_NOT_IMPLEMENTED},
           NEW size \in Nat \union {NoSize}
    PROVE  /\ Line(Reply(code, size, cur)) \in Seq(DownTokens)
           /\ Len(Line(Reply(code, size, cur))) = 4
<1> DEFINE head == Reply(code, size, cur)
<1>1. cur \in UpTokens
  BY Facts DEF Typed, UpTokens
<1>2. head \in DownTokens /\ Rest \in DownTokens /\ NL \in DownTokens
  BY <1>1, HeadsDiffer DEF Reply, Replies, DownTokens, UpTokens
<1> HIDE DEF head
<1>3. Line(head) \in Seq(DownTokens) /\ Len(Line(head)) = 4
  BY <1>2 DEF Line
<1> QED
  BY <1>3 DEF head

(* What the server sends to a client that has nothing unread.              *)
LEMMA FirstSent ==
    ASSUME TransferInv, s2c = <<>>, NEW payloads, IsStream(payloads, DownTokens), NEW next,
           ServerSends(payloads, next)
    PROVE  s2c' = payloads \/ s2c' = <<>>
<1>1. payloads \in Seq(DownTokens \X BOOLEAN)
  BY DEF IsStream
<1>2. s2c \o payloads = payloads
  BY <1>1, ConcatEmptySeq
<1> QED
  BY <1>2 DEF ServerSends

LEMMA RefuseListing ==
    ASSUME TransferInv, InStep, TransferInv', NEW cmd, Command(cmd),
           NEW code \in {BAD_FILE, SERVER_ERROR, COMMAND_NOT_IMPLEMENTED}, Refuse(code)
    PROVE  ListingWhole'
<1> DEFINE line == Line(Reply(code, NoSize, cur))
<1>1. /\ s2c = <<>> /\ FirstWord(c2s) = cur /\ cl' \in {"await", "closed"}
  BY CommandThere
<1>2. ServerSends(Payload(line), "recv")
  BY <1>1 DEF Refuse, Answer
<1>3. line \in Seq(DownTokens) /\ Len(line) = 4
  BY CodesAre, HeaderLine
<1> HIDE DEF line
<1>4. IsStream(Payload(line), DownTokens) /\ PayloadEnds(Payload(line)) \subseteq {4}
  BY <1>3, PayloadIs, PayloadMarks
<1>5. PayloadEnds(s2c') \subseteq {4}
  <2>1. s2c' = Payload(line) \/ s2c' = <<>>
    BY <1>1, <1>2, <1>4, FirstSent
  <2> QED
    BY <1>4, <2>1, NoEnds
<1> QED
  BY <1>1, <1>5 DEF ListingWhole

LEMMA ExecListListing ==
    ASSUME TransferInv, InStep, TransferInv', ExecList
    PROVE  ListingWhole'
<1>1. Command("LIST")
  BY DEF ExecList
<1>2. CASE Refuse(SERVER_ERROR)
  BY <1>1, <1>2, RefuseListing
<1>3. CASE /\ ServerSends(Payload(Line(Reply(OK, Len(Listing), FirstWord(c2s)))) \o Payload(Listing),
                          "recv")
           /\ UNCHANGED <<job, count, root>>
  <2> DEFINE l == Len(Listing)
             line == Line(Reply(OK, l, cur))
             both == Payload(line) \o Payload(Listing)
  <2>1. s2c = <<>> /\ FirstWord(c2s) = cur /\ cl' \in {"await", "closed"}
    BY <1>1, CommandThere
  <2>2. ServerSends(both, "recv")
    BY <1>3, <2>1
  <2>3. Listing \in Seq(UpTokens) /\ l \in Nat
    BY ListingIs, LenProperties
  <2>4. Listing \in Seq(DownTokens)
    BY <2>3, SeqMonotonic DEF DownTokens
  <2>5. line \in Seq(DownTokens) /\ Len(line) = 4
    BY <2>3, CodesAre, HeaderLine
  <2> HIDE DEF line
  <2>6. IsStream(both, DownTokens)
    BY <2>4, <2>5, PayloadIs, JoinedStream
  <2>7. PayloadEnds(both) \subseteq {4, 4 + l}
    BY <2>4, <2>5, JoinedMarks
  <2> HIDE DEF both
  <2>8. s2c' = both \/ s2c' = <<>>
    BY <2>1, <2>2, <2>6, FirstSent
  <2>9. PayloadEnds(s2c') \subseteq {4, 4 + Len(Listing')}
    <3>1. Listing' = Listing
      BY <1>3, ListingKept
    <3> QED
      BY <2>7, <2>8, <3>1, NoEnds
  <2> QED
    BY <2>1, <2>9 DEF ListingWhole
<1> QED
  BY <1>2, <1>3 DEF ExecList

(* A reply to LIST, or its body, is in the stream: the server is idle.     *)
LEMMA ServerIdle ==
    ASSUME ClientSide, cur.cmd = "LIST", cl = "await", s2c # <<>>
    PROVE  sv \in {"recv", "closed"}
<1>1. Answered
  BY DEF ClientSide, Asked
<1> QED
  BY <1>1 DEF Answered, Refused, Removed, Opened, Released, Enumerated, Offered, Announced, Accepted

LEMMA ServerListing ==
    ASSUME TransferInv, TransferInv', Calm, InStep, ListingWhole, ServerStep
    PROVE  ListingWhole'
<1>0. ServerSide /\ ClientSide
  BY DEF InStep
<1>1. CASE ExecList
  BY <1>1, ExecListListing
<1>2. CASE ExecDele \/ ExecRetr \/ ExecStor \/ ExecQuit
  <2>1. PICK cmd \in {"DELE", "RETR", "STOR", "QUIT"} : Command(cmd)
    BY <1>2, Zenon DEF ExecDele, ExecRetr, ExecStor, ExecQuit
  <2>2. cur'.cmd # "LIST" /\ cl' \in {"await", "closed"}
    BY <2>1, CommandThere
  <2> QED
    BY <2>2, NoListing
<1>3. CASE ExecOther
  <2>1. UNCHANGED <<s2c, root, cl, cur, need, listed>>
    BY <1>3, OtherThere
  <2> QED
    BY <2>1, ListingKeeps
<1>4. CASE ServerRecvFails
  <2>1. UNCHANGED <<s2c, root, cl, cur, need, listed>>
    BY <1>4 DEF ServerRecvFails, clVars
  <2> QED
    BY <2>1, ListingKeeps
<1>5. CASE RetrChunk \/ RetrDone \/ StorChunk \/ StorDone
  <2>1. /\ sv \in {"retr", "stor"} /\ UNCHANGED <<conn, cl, cur>>
        /\ s2c' # s2c => sv = "retr" /\ count # job.size /\ Up
    <3>1. CASE RetrChunk
      BY <3>1, RetrChunkThere DEF clVars
    <3>2. CASE RetrDone \/ StorChunk \/ StorDone
      BY <1>5, <3>2, Zenon DEF RetrDone, StorChunk, StorDone, clVars
    <3> QED
      BY <1>5, <3>1, <3>2
  <2>2. cl # "list"
    BY <1>0, <2>1 DEF ClientSide, Listed
  <2>3. ASSUME cl = "await", cur.cmd = "LIST"
        PROVE  s2c' = <<>>
    <3>1. s2c = <<>>
      BY <1>0, <2>1, <2>3, ServerIdle
    <3>2. ~(sv = "retr" /\ count # job.size /\ Up)
      BY <1>0, <2>3, <3>1 DEF ClientSide, Together, Asked
    <3> QED
      BY <2>1, <3>1, <3>2
  <2> QED
    BY <2>1, <2>2, <2>3, NoListing
<1> QED
  BY <1>1, <1>2, <1>3, <1>4, <1>5 DEF ServerStep

(* recv_list prints the listing as soon as it has the only fragment.       *)
LEMMA ClientReadsListing ==
    ASSUME TransferInv, TransferInv', InStep, ListingWhole, ClientReads, cl = "list"
    PROVE  ListingWhole'
<1> DEFINE l == Len(Listing)
           size == Smaller(need, BufferSize)
           n == Received(s2c, size)
           piece == Tokens(SubSeq(s2c, 1, n))
<1>1. /\ need > 0 /\ s2c # <<>> /\ RecvFragment(n) /\ need' = need - n
      /\ UNCHANGED <<cl, root>>
  BY DEF ClientReads, svVars
<1>2. UNCHANGED Listing
  BY <1>1, ListingKept
<1>3. CASE ~(l < BufferSize)
  BY <1>1, <1>2, <1>3 DEF ListingWhole
<1>4. CASE l < BufferSize
  <2>1. /\ IsStream(s2c, DownTokens) /\ Len(s2c) \in Nat /\ need \in Nat
        /\ BufferSize \in Nat
    BY Facts, FileTransferAssumption DEF Typed
  <2>2. /\ need = l /\ listed = <<>> /\ PayloadEnds(s2c) \subseteq {l}
        /\ l \in Nat /\ l # 0
    <3>1. need # 0
      BY <1>1, <2>1
    <3> QED
      BY <1>4, <2>1, <3>1 DEF ListingWhole
  <2>3. size = l
    BY <1>4, <2>1, <2>2 DEF Smaller
  <2>4. Len(s2c) = l /\ \A i \in 1..l : s2c[i][1] = Listing[i]
    <3>1. Len(s2c) \in PayloadEnds(s2c)
      <4>1. Len(s2c) # 0 /\ s2c[Len(s2c)][2]
        BY <1>1, <2>1, Facts DEF IsStream, Typed
      <4> QED
        BY <2>1, <4>1 DEF PayloadEnds
    <3>2. Rests(Listing, l - need, l)
      BY DEF InStep, ClientSide, Listed
    <3>3. \A i \in 1..Len(s2c) : s2c[i][1] = Listing[(l - need) + i]
      BY <3>2 DEF Rests
    <3>4. \A i \in 1..l : (l - need) + i = i
      BY <2>2
    <3> QED
      BY <2>2, <3>1, <3>3, <3>4
  <2>5. n = l
    <3>1. {l} \union PayloadEnds(s2c) = {l}
      BY <2>2
    <3>2. Min({l}) = l
      BY <2>2, MinIs
    <3> QED
      BY <2>3, <3>1, <3>2 DEF Received
  <2> HIDE DEF n
  <2>6. /\ piece \in Seq(DownTokens) /\ Len(piece) = l
        /\ \A k \in 1..l : piece[k] = s2c[k][1]
    BY <2>1, <2>2, <2>4, <2>5, PieceElements
  <2>7. piece = Listing
    <3>1. Listing \in Seq(DownTokens)
      BY ListingIs, SeqMonotonic DEF DownTokens
    <3> HIDE DEF piece
    <3> QED
      BY <2>4, <2>6, <3>1, SeqEqual
  <2>8. listed' = piece
    <3>1. n # BufferSize
      BY <1>4, <2>1, <2>2, <2>5
    <3> QED
      BY <1>1, <2>2, <3>1 DEF RecvFragment
  <2>9. need' = 0
    BY <1>1, <2>2, <2>5
  <2> QED
    BY <1>1, <1>2, <2>7, <2>8, <2>9 DEF ListingWhole
<1> QED
  BY <1>3, <1>4

(* What follows the status line of a listing is one payload, or nothing.   *)
LEMMA ReplyToListListing ==
    ASSUME TransferInv, TransferInv', InStep, ListingWhole, ReplyToList
    PROVE  ListingWhole'
<1> DEFINE w == FirstWord(s2c)
           l == Len(Listing)
<1>0. ClientSide
  BY DEF InStep
<1>1. /\ TakeReply /\ cur.cmd = "LIST" /\ cl = "await" /\ HasLine(s2c)
      /\ s2c' = Drop(s2c, LineLength(s2c)) /\ UNCHANGED root
      /\ HasBody(w) => cl' = "list" /\ need' = w.size /\ listed' = <<>>
      /\ ~HasBody(w) => cl' = "prompt"
  BY DEF ReplyToList, TakeReply, svVars
<1>2. Refused \/ Enumerated
  BY <1>0, <1>1, ReplyThere DEF Answered, Removed, Opened, Released, Offered, Announced, Accepted
<1>3. CASE Refused
  <2>1. cl' = "prompt"
    BY <1>1, <1>3, RefusedRead
  <2> QED
    BY <2>1, NoListing
<1>4. CASE Enumerated
  <2>1. l \in Nat /\ UNCHANGED Listing /\ Replied(OK, l, Listing, l)
    BY <1>1, <1>4, ListingIs, ListingKept, LenProperties DEF Enumerated
  <2> HIDE DEF l, w
  <2>2. HasBody(w) /\ w.size = l
    <3>1. l >= 0 /\ l \in Nat \union {NoSize}
      BY <2>1
    <3> QED
      BY <1>1, <2>1, <3>1, CodesAre, ReplyRead DEF w
  <2>3. LineLength(s2c) = 4 /\ 4 <= Len(s2c)
    <3>1. l \in Nat \union {NoSize}
      BY <2>1
    <3> QED
      BY <1>1, <2>1, <3>1, CodesAre, ReplyLine
  <2>4. Len(s2c') = Len(s2c) - 4 /\ \A k \in 1 .. Len(s2c) - 4 : s2c'[k] = s2c[4 + k]
    <3>1. \A n \in Nat : n <= Len(s2c) /\ s2c' = Drop(s2c, n) =>
            /\ Len(s2c') = Len(s2c) - n
            /\ \A k \in 1 .. Len(s2c) - n : s2c'[k] = s2c[n + k]
      BY DropDown
    <3> QED
      BY <1>1, <2>3, <3>1
  <2>5. PayloadEnds(s2c') \subseteq {l}
    <3>1. PayloadEnds(s2c) \subseteq {4, 4 + l}
      BY <1>1 DEF ListingWhole, l
    <3>2. ASSUME NEW i \in 1..Len(s2c'), s2c'[i][2]
          PROVE  i = l
      <4>1. Len(s2c) \in Nat
        BY Facts DEF Typed
      <4>2. i \in 1 .. Len(s2c) - 4 /\ 4 + i \in 1..Len(s2c) /\ i >= 1
        BY <2>3, <2>4, <4>1
      <4>3. s2c[4 + i][2]
        BY <2>4, <3>2, <4>2
      <4>4. 4 + i \in {4, 4 + l}
        BY <3>1, <4>2, <4>3 DEF PayloadEnds
      <4> QED
        BY <2>1, <4>2, <4>4
    <3> QED
      BY <3>2 DEF PayloadEnds
  <2>6. cl' = "list" /\ need' = Len(Listing') /\ listed' = <<>>
        /\ PayloadEnds(s2c') \subseteq {Len(Listing')}
    BY <1>1, <2>1, <2>2, <2>5 DEF l
  <2> QED
    BY <2>6 DEF ListingWhole
<1> QED
  BY <1>2, <1>3, <1>4

LEMMA ClientListing ==
    ASSUME TransferInv, TransferInv', InStep, ListingWhole, ClientStep
    PROVE  ListingWhole'
<1>1. CASE ReplyToList
  BY <1>1, ReplyToListListing
<1>2. CASE ReplyToRetr \/ ReplyToStor \/ ReplyToDele \/ ReplyToQuit
  <2>1. cl' # "list" /\ cl' # "await"
    BY <1>2 DEF ReplyToRetr, ReplyToStor, ReplyToDele, ReplyToQuit
  <2> QED
    BY <2>1, NoListing
<1>3. CASE ClientReads
  <2>1. CASE cl = "list"
    BY <1>3, <2>1, ClientReadsListing
  <2>2. CASE cl = "get"
    <3>1. cl' = "get"
      BY <1>3, <2>2 DEF ClientReads
    <3> QED
      BY <3>1, NoListing
  <2> QED
    BY <1>3, <2>1, <2>2 DEF ClientReads
<1>4. CASE send_fragment
  <2>1. cl' \in {"put", "closed"}
    BY <1>4 DEF send_fragment, ClientSends
  <2> QED
    BY <2>1, NoListing
<1>5. CASE BodyDone \/ ClientRecvFails
  <2>1. cl' \in {"prompt", "closed"}
    BY <1>5 DEF BodyDone, ClientRecvFails
  <2> QED
    BY <2>1, NoListing
<1> QED
  BY <1>1, <1>2, <1>3, <1>4, <1>5 DEF ClientStep

LEMMA TypeListing ==
    ASSUME InStep, Type
    PROVE  ListingWhole'
<1>1. ASSUME NEW request, Ask(request)
      PROVE  ListingWhole'
  <2>1. s2c' = <<>> /\ cl' \in {"await", "closed"}
    BY <1>1 DEF Ask, ClientSends, Overruns, InStep, ClientSide
  <2> QED
    BY <2>1, NoListing
<1> QED
  BY <1>1 DEF Type, cmd_remote_list, cmd_quit, cmd_retr, cmd_dele, cmd_stor

LEMMA ConnectionListing ==
    ASSUME TransferInv, ListingWhole, Close \/ Break \/ UNCHANGED vars
    PROVE  ListingWhole'
<1>1. UNCHANGED <<root, cl, cur, need, listed>>
  BY DEF Close, Break, vars, clVars, svVars
<1>2. PayloadEnds(s2c') \subseteq PayloadEnds(s2c)
  <2>1. CASE Break
    <3>1. IsStream(s2c, DownTokens) /\ Len(s2c) \in Nat
      BY Facts DEF Typed
    <3>2. PICK j \in {0} \union PayloadEnds(s2c) : s2c' = SubSeq(s2c, 1, j)
      BY <2>1 DEF Break
    <3>3. /\ Len(s2c') \in Nat /\ Len(s2c') <= Len(s2c)
          /\ \A k \in 1..Len(s2c') : s2c'[k] = s2c[k]
      BY <3>1, <3>2, CutElements
    <3>4. \A k \in 1..Len(s2c') : k \in 1..Len(s2c)
      BY <3>1, <3>3
    <3> QED
      BY <3>3, <3>4 DEF PayloadEnds
  <2>2. CASE Close \/ UNCHANGED vars
    BY <2>2 DEF Close, vars
  <2> QED
    BY <2>1, <2>2
<1> QED
  BY <1>1, <1>2, ListingKeeps

-----------------------------------------------------------------------------
(* The invariant of the two programs in step.                              *)

LEMMA SyncInit ==
    ASSUME Init
    PROVE  SyncInv
<1>1. TransferInv
  BY TransferInvInit
<1>2. ShortNames
  BY ShortNamesInit
<1>3. /\ c2s = <<>> /\ s2c = <<>> /\ cl = "prompt" /\ sv = "recv" /\ root0 = root
      /\ cur.cmd = "LIST" /\ cur.name = "" /\ ~oversize
  BY DEF Init, Request
<1>4. ServerSide
  <2>1. Len(c2s) = 0 /\ ~Asked
    BY <1>3 DEF Asked
  <2>2. AfterThat(0)
    BY <2>1 DEF AfterThat
  <2>3. \A i \in 1..Len(c2s) : FALSE
    BY <2>1
  <2>4. \E m \in 0..2 : AfterThat(m) /\ \A i \in 1..Len(c2s) : i <= m => c2s[i][1] = NL
    <3>1. 0 \in 0..2 /\ \A i \in 1..Len(c2s) : i <= 0 => c2s[i][1] = NL
      BY <2>3
    <3> QED
      BY <2>2, <3>1
  <2> QED
    BY <1>3, <2>4 DEF ServerSide
<1>5. ClientSide
  <2>1. Together
    BY <1>3 DEF Together
  <2>2. Fits(cur)
    BY <1>3, ShortFits DEF Extra
  <2> QED
    BY <1>3, <2>1, <2>2 DEF ClientSide
<1>6. WholeFiles
  BY <1>3 DEF WholeFiles
<1>7. ListingWhole
  BY <1>3 DEF ListingWhole
<1> QED
  BY <1>1, <1>2, <1>4, <1>5, <1>6, <1>7 DEF SyncInv

LEMMA SyncNext ==
    ASSUME SyncInv, [Next]_vars
    PROVE  SyncInv'
<1>1. TransferInv /\ TransferInv'
  BY TransferInvNext DEF SyncInv
<1>2. UNCHANGED <<local, faults>> /\ (Calm' <=> Calm)
  BY FixedStays DEF fixed, Calm
<1>3. ASSUME Calm
      PROVE  InStep'
  <2>1. InStep /\ ShortNames
    BY <1>3 DEF SyncInv, InStep
  <2>2. CASE Type
    BY <1>1, <1>3, <2>1, <2>2, TypeSync
  <2>3. CASE ClientStep
    BY <1>1, <1>3, <2>1, <2>3, ClientStepSync
  <2>4. CASE ServerStep
    BY <1>1, <1>3, <2>1, <2>4, ServerStepSync
  <2>5. CASE Close \/ Break
    BY <1>1, <2>1, <2>5, ConnectionSync
  <2>6. CASE UNCHANGED vars
    BY <1>1, <2>1, <2>6, NothingSync
  <2> QED
    BY <2>2, <2>3, <2>4, <2>5, <2>6 DEF Next, Done
<1>4. ShortNames'
  BY ShortNamesNext DEF SyncInv
<1>5. ASSUME Calm
      PROVE  ListingWhole'
  <2>1. InStep /\ ListingWhole
    BY <1>5 DEF SyncInv, InStep
  <2>2. CASE Type
    BY <2>1, <2>2, TypeListing
  <2>3. CASE ClientStep
    BY <1>1, <2>1, <2>3, ClientListing
  <2>4. CASE ServerStep
    BY <1>1, <1>5, <2>1, <2>4, ServerListing
  <2>5. CASE Close \/ Break \/ UNCHANGED vars
    BY <1>1, <2>1, <2>5, ConnectionListing
  <2> QED
    BY <2>2, <2>3, <2>4, <2>5 DEF Next, Done
<1> QED
  BY <1>1, <1>2, <1>3, <1>4, <1>5 DEF SyncInv, InStep

(* In a session where nothing goes wrong but the connection, what each of  *)
(* the two streams carries is what the state of the two programs calls     *)
(* for, whatever they have done before.                                    *)
THEOREM SyncInvariant == Spec => []SyncInv
<1>1. Init => SyncInv
  BY SyncInit
<1>2. SyncInv /\ [Next]_vars => SyncInv'
  BY SyncNext
<1> QED
  BY <1>1, <1>2, PTL DEF Spec

(* Whenever main.cpp prompts the user, no byte of a reply is left to be    *)
(* taken for the next one, and the thread waits for a command, has just    *)
(* sent the last byte of a download, or takes the rest of an upload.       *)
THEOREM ProgramsAreInSync == Spec => []InSync
<1>1. SyncInv => InSync
  <2> SUFFICES ASSUME SyncInv, Calm, cl = "prompt", conn = "up"
               PROVE  /\ s2c = <<>>
                      /\ \/ sv = "recv" /\ \A i \in 1..Len(c2s) : c2s[i][1] = NL
                         \/ sv = "retr" /\ c2s = <<>> /\ count = job.size
                         \/ sv = "stor" /\ Len(c2s) = job.size - count
    BY DEF InSync
  <2>1. TransferInv /\ ServerSide /\ ClientSide
    BY DEF SyncInv
  <2>2. /\ Len(c2s) \in Nat /\ (c2s = <<>> <=> Len(c2s) = 0) /\ count \in Nat /\ job.size \in Nat
        /\ sv \in {"recv", "retr", "stor", "closed"} /\ count <= job.size
    BY <2>1, Facts DEF Typed
  <2>3. s2c = <<>> /\ Up /\ ~Asked /\ sv # "closed" /\ (sv = "retr" => count = job.size)
    BY <2>1 DEF ClientSide, Up, Asked, Together
  <2>4. CASE sv = "recv"
    <3>1. PICK m \in 0..2 : AfterThat(m) /\ \A i \in 1..Len(c2s) : i <= m => c2s[i][1] = NL
      BY <2>1, <2>4 DEF ServerSide
    <3>2. Len(c2s) <= m + 0
      BY <2>3, <3>1 DEF AfterThat
    <3>3. \A i \in 1..Len(c2s) : i <= m
      BY <2>2, <3>2
    <3> QED
      BY <2>3, <2>4, <3>1, <3>3
  <2>5. CASE sv = "retr"
    <3>1. Len(c2s) = 0 + 0
      BY <2>1, <2>3, <2>5 DEF ServerSide, AfterThat
    <3> QED
      BY <2>2, <2>3, <2>5, <3>1
  <2>6. CASE sv = "stor"
    <3>1. Sent = job.size
      BY <2>3 DEF Sent
    <3>2. AfterThat(job.size - count)
      BY <2>1, <2>6, <3>1 DEF ServerSide
    <3>3. Len(c2s) = (job.size - count) + 0
      BY <2>3, <3>2 DEF AfterThat
    <3> QED
      BY <2>2, <2>3, <2>6, <3>3
  <2> QED
    BY <2>2, <2>3, <2>4, <2>5, <2>6
<1> QED
  BY <1>1, SyncInvariant, PTL

(* A file of root/ is what it was, what the user has, or absent; a part of *)
(* an upload is there while cmd_stor runs, or because it ended with the    *)
(* connection.                                                             *)
THEOREM FilesAreWhole == Spec => []WholeFiles
<1>1. SyncInv => WholeFiles
  BY DEF SyncInv, WholeFiles
<1> QED
  BY <1>1, SyncInvariant, PTL

(* The client is prompted after a body only when it is complete.           *)
LEMMA BodyEnds ==
    ASSUME Next, cl \in {"get", "list"}, cl' = "prompt"
    PROVE  BodyDone
<1>1. ~Type
  BY DEF Type, cmd_remote_list, cmd_quit, cmd_retr, cmd_dele, cmd_stor, Ask
<1>2. ~(ReplyToList \/ ReplyToRetr \/ ReplyToStor \/ ReplyToDele \/ ReplyToQuit)
  BY DEF ReplyToList, ReplyToRetr, ReplyToStor, ReplyToDele, ReplyToQuit, TakeReply
<1>3. ~ClientReads /\ ~ClientRecvFails
  BY DEF ClientReads, ClientRecvFails
<1>4. ~send_fragment
  BY Zenon DEF send_fragment
<1>5. UNCHANGED clVars => cl' = cl
  BY DEF clVars
<1>6. ~(ExecDele \/ ExecList \/ ExecRetr \/ ExecStor \/ ExecQuit)
  BY <1>5, CommandLeaves DEF ExecDele, ExecList, ExecRetr, ExecStor, ExecQuit
<1>7. ~ExecOther /\ ~RetrChunk /\ ~RetrDone /\ ~StorChunk /\ ~StorDone /\ ~ServerRecvFails
  BY <1>5, Zenon DEF ExecOther, RetrChunk, RetrDone, StorChunk, StorDone, ServerRecvFails
<1>8. ~Close /\ ~Break /\ ~Done
  BY <1>5, Zenon DEF Close, Break, Done, vars
<1> QED
  BY <1>1, <1>2, <1>3, <1>4, <1>6, <1>7, <1>8 DEF Next, ClientStep, ServerStep

(* The copy that recv_file closes when its loop has ended is the file that *)
(* cmd_retr has read.                                                      *)
THEOREM DownloadsAreExact == Spec => GetIsExact
<1>1. SyncInv /\ [Next]_vars =>
        [Calm /\ cl = "get" /\ cl' = "prompt" => downloads[cur.name] = root[cur.name]]_vars
  <2> SUFFICES ASSUME SyncInv, Next, Calm, cl = "get", cl' = "prompt"
               PROVE  downloads[cur.name] = root[cur.name]
    OBVIOUS
  <2>1. TransferInv /\ ClientSide
    BY DEF SyncInv
  <2>2. BodyDone
    BY BodyEnds
  <2>3. need = 0
    BY <2>2 DEF BodyDone
  <2> DEFINE copy == downloads[cur.name]
             file == root[job.name]
  <2>4. /\ Announced /\ Len(copy) = job.size /\ \A i \in 1..job.size : copy[i] = file[i]
    BY <2>1, <2>3, BodyIsWhole
  <2>5. job.name = cur.name /\ file # Absent /\ Len(file) = job.size
    BY <2>4 DEF Announced
  <2>6. copy \in Seq(DownTokens) /\ cur.name \in Name
    BY <2>1, CopyIs
  <2>7. file \in Seq(DownTokens)
    <3>1. ServerOK
      BY <2>1, Parts
    <3>2. file \in Seq(UpTokens)
      BY <2>5, <2>6, <3>1 DEF ServerOK
    <3> QED
      BY <3>2, SeqMonotonic DEF DownTokens
  <2> HIDE DEF copy, file
  <2>8. copy = file
    BY <2>4, <2>5, <2>6, <2>7, SeqEqual
  <2> QED
    BY <2>5, <2>8 DEF copy, file
<1> QED
  BY <1>1, SyncInvariant, PTL DEF Spec, GetIsExact

(* The file that cmd_stor closes when its loop has ended is the file that  *)
(* send_file has read.                                                     *)
THEOREM UploadsAreExact == Spec => PutIsExact
<1>1. SyncInv /\ [Next]_vars =>
        [Calm /\ sv = "stor" /\ sv' = "recv" => root[job.name] = local[job.name]]_vars
  <2> SUFFICES ASSUME SyncInv, Next, Calm, sv = "stor", sv' = "recv"
               PROVE  root[job.name] = local[job.name]
    OBVIOUS
  <2>1. TransferInv /\ ServerSide
    BY DEF SyncInv
  <2>2. StorDone
    <3>1. UNCHANGED svVars => sv' = sv
      BY DEF svVars
    <3>2. ~Type
      BY <3>1 DEF Type, cmd_remote_list, cmd_quit, cmd_retr, cmd_dele, cmd_stor, Ask
    <3>3. ~(ReplyToList \/ ReplyToRetr \/ ReplyToStor \/ ReplyToDele \/ ReplyToQuit)
      BY <3>1 DEF ReplyToList, ReplyToRetr, ReplyToStor, ReplyToDele, ReplyToQuit, TakeReply
    <3>4. ~ClientReads /\ ~BodyDone /\ ~ClientRecvFails
      BY <3>1 DEF ClientReads, BodyDone, ClientRecvFails
    <3>5. ~send_fragment
      BY <3>1, Zenon DEF send_fragment
    <3>6. ~(ExecDele \/ ExecList \/ ExecRetr \/ ExecStor \/ ExecQuit)
      BY DEF ExecDele, ExecList, ExecRetr, ExecStor, ExecQuit, Command
    <3>7. ~ExecOther /\ ~StorChunk /\ ~ServerRecvFails
      BY Zenon DEF ExecOther, StorChunk, ServerRecvFails
    <3>8. ~RetrChunk /\ ~RetrDone
      BY Zenon DEF RetrChunk, RetrDone
    <3>9. ~Close /\ ~Break /\ ~Done
      BY <3>1, Zenon DEF Close, Break, Done, vars
    <3> QED
      BY <3>2, <3>3, <3>4, <3>5, <3>6, <3>7, <3>8, <3>9 DEF Next, ClientStep, ServerStep
  <2>3. count >= job.size
    BY <2>2 DEF StorDone
  <2> QED
    BY <2>1, <2>3, UploadIsWhole
<1> QED
  BY <1>1, SyncInvariant, PTL DEF Spec, PutIsExact

(* What recv_list has printed when its loop ends is the listing of root/,  *)
(* if it does not fill the buffer: it has come in one fragment.            *)
THEOREM ListingsAreExact == Spec => ListIsExact
<1>1. SyncInv /\ [Next]_vars =>
        [Calm /\ cl = "list" /\ cl' = "prompt" /\ Len(Listing) < BufferSize => listed = Listing]_vars
  <2> SUFFICES ASSUME SyncInv, Next, Calm, cl = "list", cl' = "prompt", Len(Listing) < BufferSize
               PROVE  listed = Listing
    OBVIOUS
  <2>1. need = 0
    BY BodyEnds DEF BodyDone
  <2>2. ListingWhole
    BY DEF SyncInv
  <2>3. CASE need = Len(Listing) /\ listed = <<>>
    <3>1. Listing \in Seq(UpTokens)
      BY ListingIs
    <3> QED
      BY <2>1, <2>3, <3>1, EmptySeq
  <2> QED
    BY <2>1, <2>2, <2>3 DEF ListingWhole
<1> QED
  BY <1>1, SyncInvariant, PTL DEF Spec, ListIsExact

=============================================================================
