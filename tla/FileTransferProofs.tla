------------------------- MODULE FileTransferProofs -------------------------
(***************************************************************************)
(* Proofs about FileTransfer for every set of names and contents, every    *)
(* buffer and line length, and any number of commands: what holds of the   *)
(* two programs whatever goes wrong in a session, also when a fault has    *)
(* put them out of step.                                                   *)
(***************************************************************************)
EXTENDS FileTransfer, SequenceTheorems, FiniteSetTheorems, WellFoundedInduction, TLAPS

-----------------------------------------------------------------------------
(* Lemmas about minima and streams.                                        *)

LEMMA LeastNat ==
    ASSUME NEW T \in SUBSET Nat, T # {}
    PROVE  \E m \in T : \A k \in T : m <= k
<1> DEFINE R == {p \in Nat \X Nat : p[1] < p[2]}
<1>1. IsWellFoundedOn(R, Nat)
  BY NatLessThanWellFounded, Zenon DEF OpToRel
<1>2. \A x, y \in Nat : x < y => <<x, y>> \in R
  OBVIOUS
<1> HIDE DEF R
<1>3. T \subseteq Nat
  OBVIOUS
<1>4. PICK m \in T : \A k \in T : ~(<<k, m>> \in R)
  BY <1>1, <1>3, WFMin, Zenon
<1>5. \A k \in T : ~(k < m)
  BY <1>2, <1>3, <1>4
<1> QED
  BY <1>3, <1>5

LEMMA MinIs ==
    ASSUME NEW T \in SUBSET Nat, T # {}
    PROVE  Min(T) \in T /\ \A k \in T : Min(T) <= k
BY LeastNat DEF Min

LEMMA SmallerIs ==
    ASSUME NEW m \in Nat, NEW n \in Nat
    PROVE  /\ Smaller(m, n) \in Nat /\ Smaller(m, n) <= m /\ Smaller(m, n) <= n
           /\ Smaller(m, n) \in {m, n}
BY DEF Smaller

(* A piece of a sequence.                                                  *)
LEMMA Piece ==
    ASSUME NEW S, NEW s \in Seq(S), NEW m \in Nat, NEW n \in Nat, n <= Len(s), m <= n
    PROVE  /\ SubSeq(s, m + 1, n) \in Seq(S) /\ Len(SubSeq(s, m + 1, n)) = n - m
           /\ \A k \in 1 .. n - m : SubSeq(s, m + 1, n)[k] = s[m + k]
<1> DEFINE b == SubSeq(s, m + 1, n)
<1>1. \A k \in m + 1 .. n : s[k] \in S
  BY ElementOfSeq
<1>2. /\ b \in Seq(S)
      /\ Len(b) = IF m + 1 <= n THEN n - (m + 1) + 1 ELSE 0
      /\ \A k \in 1 .. n - (m + 1) + 1 : b[k] = s[m + 1 + k - 1]
  BY <1>1, SubSeqProperties
<1>3. Len(b) = n - m
  BY <1>2
<1> HIDE DEF b
<1>4. ASSUME NEW k \in 1 .. n - m
      PROVE  b[k] = s[m + k]
  <2>1. k \in 1 .. n - (m + 1) + 1 /\ m + 1 + k - 1 = m + k
    OBVIOUS
  <2> QED
    BY <1>2, <2>1
<1>5. b \in Seq(S) /\ Len(b) = n - m /\ \A k \in 1 .. n - m : b[k] = s[m + k]
  BY <1>2, <1>3, <1>4
<1> QED
  BY <1>5 DEF b

LEMMA TokensIs ==
    ASSUME NEW T, NEW s \in Seq(T \X BOOLEAN)
    PROVE  Tokens(s) \in Seq(T) /\ Len(Tokens(s)) = Len(s)
<1>1. Len(s) \in Nat /\ \A i \in 1..Len(s) : s[i][1] \in T
  BY ElementOfSeq
<1>2. Tokens(s) \in [1..Len(s) -> T]
  BY <1>1 DEF Tokens
<1> QED
  BY <1>1, <1>2, SeqDef, LenProperties

LEMMA PayloadIs ==
    ASSUME NEW T, NEW t \in Seq(T)
    PROVE  IsStream(Payload(t), T) /\ Len(Payload(t)) = Len(t)
<1>1. Len(t) \in Nat /\ \A i \in 1..Len(t) : t[i] \in T
  BY ElementOfSeq
<1>2. Payload(t) \in [1..Len(t) -> T \X BOOLEAN]
  BY <1>1 DEF Payload
<1>3. Payload(t) \in Seq(T \X BOOLEAN) /\ Len(Payload(t)) = Len(t)
  BY <1>1, <1>2, SeqDef, LenProperties
<1>4. ASSUME Payload(t) # <<>>
      PROVE  Payload(t)[Len(t)][2]
  <2>1. Len(t) \in 1..Len(t)
    BY <1>1, <1>3, <1>4, EmptySeq
  <2> QED
    BY <2>1 DEF Payload
<1> QED
  BY <1>3, <1>4 DEF IsStream

LEMMA EmptyStream == \A T : IsStream(<<>>, T)
BY EmptySeq DEF IsStream

LEMMA MoreStream ==
    ASSUME NEW T, NEW U, T \subseteq U, NEW s, IsStream(s, T)
    PROVE  IsStream(s, U)
<1>1. T \X BOOLEAN \subseteq U \X BOOLEAN
  OBVIOUS
<1> QED
  BY <1>1, SeqMonotonic DEF IsStream

LEMMA JoinedStream ==
    ASSUME NEW T, NEW a, NEW b, IsStream(a, T), IsStream(b, T)
    PROVE  IsStream(a \o b, T)
<1>1. a \in Seq(T \X BOOLEAN) /\ b \in Seq(T \X BOOLEAN) /\ Len(a) \in Nat /\ Len(b) \in Nat
  BY LenProperties DEF IsStream
<1>2. /\ a \o b \in Seq(T \X BOOLEAN) /\ Len(a \o b) = Len(a) + Len(b)
      /\ \A i \in 1 .. Len(a) + Len(b) : (a \o b)[i] = IF i <= Len(a) THEN a[i] ELSE b[i - Len(a)]
  BY <1>1, ConcatProperties
<1>3. ASSUME a \o b # <<>>
      PROVE  (a \o b)[Len(a \o b)][2]
  <2>1. Len(a) + Len(b) # 0
    BY <1>1, <1>2, <1>3, EmptySeq
  <2>2. CASE Len(b) = 0
    <3>1. a # <<>> /\ (a \o b)[Len(a \o b)] = a[Len(a)]
      BY <1>1, <1>2, <2>1, <2>2, EmptySeq
    <3> QED
      BY <3>1 DEF IsStream
  <2>3. CASE Len(b) # 0
    <3>1. b # <<>> /\ (a \o b)[Len(a \o b)] = b[Len(b)]
      BY <1>1, <1>2, <2>3, EmptySeq
    <3> QED
      BY <3>1 DEF IsStream
  <2> QED
    BY <2>2, <2>3
<1> QED
  BY <1>2, <1>3 DEF IsStream

(* What is left of a stream when n tokens of it have been read.            *)
LEMMA DropIs ==
    ASSUME NEW T, NEW s, IsStream(s, T), NEW n \in Nat, n <= Len(s)
    PROVE  IsStream(Drop(s, n), T) /\ Len(Drop(s, n)) = Len(s) - n
<1>1. s \in Seq(T \X BOOLEAN) /\ Len(s) \in Nat
  BY LenProperties DEF IsStream
<1>2. /\ Drop(s, n) \in Seq(T \X BOOLEAN) /\ Len(Drop(s, n)) = Len(s) - n
      /\ \A k \in 1 .. Len(s) - n : Drop(s, n)[k] = s[n + k]
  BY <1>1, Piece DEF Drop
<1>3. ASSUME Drop(s, n) # <<>>
      PROVE  Drop(s, n)[Len(Drop(s, n))][2]
  <2>1. Len(s) - n # 0
    BY <1>1, <1>2, <1>3, EmptySeq
  <2>2. s # <<>> /\ Drop(s, n)[Len(Drop(s, n))] = s[Len(s)]
    BY <1>1, <1>2, <2>1, EmptySeq
  <2> QED
    BY <2>2 DEF IsStream
<1> QED
  BY <1>2, <1>3 DEF IsStream

(* What a broken connection leaves of a stream.                            *)
LEMMA CutIs ==
    ASSUME NEW T, NEW s, IsStream(s, T), NEW i \in {0} \union PayloadEnds(s)
    PROVE  IsStream(SubSeq(s, 1, i), T)
<1>1. s \in Seq(T \X BOOLEAN) /\ Len(s) \in Nat
  BY LenProperties DEF IsStream
<1>2. i \in Nat /\ i <= Len(s)
  BY <1>1 DEF PayloadEnds
<1>3. /\ SubSeq(s, 1, i) \in Seq(T \X BOOLEAN) /\ Len(SubSeq(s, 1, i)) = i
      /\ \A k \in 1..i : SubSeq(s, 1, i)[k] = s[k]
  <2>1. /\ SubSeq(s, 0 + 1, i) \in Seq(T \X BOOLEAN) /\ Len(SubSeq(s, 0 + 1, i)) = i - 0
        /\ \A k \in 1 .. i - 0 : SubSeq(s, 0 + 1, i)[k] = s[0 + k]
    BY <1>1, <1>2, Piece
  <2> QED
    BY <1>2, <2>1
<1>4. ASSUME SubSeq(s, 1, i) # <<>>
      PROVE  SubSeq(s, 1, i)[i][2]
  <2>1. i # 0
    BY <1>3, <1>4, EmptySeq
  <2>2. s[i][2]
    BY <2>1 DEF PayloadEnds
  <2> QED
    BY <1>2, <1>3, <2>1, <2>2
<1> QED
  BY <1>3, <1>4 DEF IsStream

(* A call of Crypto::recv on a stream that has something returns at least  *)
(* a byte and at most what it was asked for, out of the stream.            *)
LEMMA ReceivedIs ==
    ASSUME NEW T, NEW s, IsStream(s, T), s # <<>>, NEW size \in Nat \ {0}
    PROVE  Received(s, size) \in 1..size /\ Received(s, size) <= Len(s)
<1>1. s \in Seq(T \X BOOLEAN) /\ Len(s) \in Nat /\ Len(s) # 0
  BY LenProperties, EmptySeq DEF IsStream
<1>2. Len(s) \in PayloadEnds(s)
  BY <1>1 DEF IsStream, PayloadEnds
<1> DEFINE E == {size} \union PayloadEnds(s)
<1>3. E \in SUBSET Nat /\ E # {} /\ 0 \notin E
  BY <1>1 DEF PayloadEnds
<1>4. Min(E) \in E /\ Min(E) <= size /\ Min(E) <= Len(s)
  BY <1>2, <1>3, MinIs
<1>5. Received(s, size) = Min(E)
  BY DEF Received
<1>6. Min(E) \in Nat \ {0}
  BY <1>3, <1>4
<1> HIDE DEF E
<1>7. Min(E) \in 1..size
  BY <1>4, <1>6
<1> QED
  BY <1>4, <1>5, <1>7

(* A line is a part of the stream, and its first word a token of it.       *)
LEMMA LineIs ==
    ASSUME NEW T, NL \in T, NEW s, IsStream(s, T), HasLine(s)
    PROVE  LineLength(s) \in 1..Len(s) /\ FirstWord(s) \in T
<1>1. s \in Seq(T \X BOOLEAN) /\ Len(s) \in Nat /\ \A i \in 1..Len(s) : s[i][1] \in T
  <2>1. s \in Seq(T \X BOOLEAN)
    BY DEF IsStream
  <2> QED
    BY <2>1, LenProperties, ElementOfSeq
<1>2. LineEnds(s) \in SUBSET (1..Len(s)) /\ LineEnds(s) # {}
  BY DEF LineEnds, HasLine
<1>3. LineLength(s) \in 1..Len(s)
  BY <1>1, <1>2, MinIs DEF LineLength
<1> DEFINE W == {i \in 1..LineLength(s) : s[i][1] # NL}
<1>4. CASE W = {}
  BY <1>3, <1>4 DEF FirstWord
<1>5. CASE W # {}
  <2>1. W \in SUBSET Nat
    BY <1>3
  <2>2. Min(W) \in W
    BY <1>5, <2>1, MinIs
  <2>3. s[Min(W)][1] \in T
    BY <1>1, <1>3, <2>2
  <2>4. FirstWord(s) = s[Min(W)][1]
    BY <1>5 DEF FirstWord
  <2> QED
    BY <1>3, <2>3, <2>4
<1> QED
  BY <1>4, <1>5

-----------------------------------------------------------------------------
(* Lemmas about requests and replies.                                      *)

LEMMA RequestIs ==
    ASSUME NEW request \in Requests
    PROVE  /\ request.name \in Name \union {""} /\ request.size \in Int
           /\ request.cmd \in {"RETR", "DELE", "STOR"} => request.name \in Name
           /\ request.cmd = "STOR" => request.size \in 0..MaxFileSize
<1>0. NoSize \in Int /\ MaxFileSize \in Nat
  BY FileTransferAssumption DEF NoSize
<1>1. CASE request \in [cmd : {"LIST", "QUIT"}, name : {""}, size : {NoSize}]
  BY <1>0, <1>1
<1>2. CASE request \in [cmd : {"RETR", "DELE"}, name : Name, size : {NoSize}]
  BY <1>0, <1>2
<1>3. CASE request \in [cmd : {"STOR"}, name : Name, size : 0..MaxFileSize]
  <2>1. request.name \in Name /\ request.size \in 0..MaxFileSize /\ request.cmd = "STOR"
    BY <1>3, Zenon
  <2>2. request.size \in Int
    BY <1>0, <2>1
  <2> QED
    BY <2>1, <2>2
<1> QED
  BY <1>1, <1>2, <1>3 DEF Requests

LEMMA RequestMade ==
    /\ \A cmd \in {"LIST", "QUIT"} : Request(cmd, "", NoSize) \in Requests
    /\ \A f \in Name : \A cmd \in {"RETR", "DELE"} : Request(cmd, f, NoSize) \in Requests
    /\ \A f \in Name : \A size \in 0..MaxFileSize : Request("STOR", f, size) \in Requests
BY DEF Request, Requests

LEMMA ExtraIs == \A request \in Requests : Extra(request) \in Nat
BY RequestIs, FileTransferAssumption DEF Extra

LEMMA RequestLineIs ==
    ASSUME NEW request \in Requests
    PROVE  RequestLine(request) \in Seq(UpTokens)
<1> USE FileTransferAssumption
<1> DEFINE rest == [i \in 1..1 + Extra(request) |-> Rest]
<1>1. Extra(request) \in Nat
  BY ExtraIs
<1>2. request \in UpTokens /\ Rest \in UpTokens /\ NL \in UpTokens
  BY DEF UpTokens, Plain
<1>3. rest \in [1..1 + Extra(request) -> UpTokens] /\ 1 + Extra(request) \in Nat
  BY <1>1, <1>2
<1>4. rest \in Seq(UpTokens)
  BY <1>3, SeqDef
<1>5. <<request>> \in Seq(UpTokens) /\ <<NL, NL>> \in Seq(UpTokens)
  BY <1>2
<1> HIDE DEF rest
<1>6. <<request>> \o rest \in Seq(UpTokens)
  BY <1>4, <1>5, ConcatProperties, Zenon
<1>7. <<request>> \o rest \o <<NL, NL>> \in Seq(UpTokens)
  BY <1>5, <1>6, ConcatProperties, Zenon
<1> QED
  BY <1>7 DEF RequestLine, rest

LEMMA PlainIsUp == NL \in UpTokens /\ Data \subseteq UpTokens /\ NL \in DownTokens
BY FileTransferAssumption DEF UpTokens, DownTokens, Plain

LEMMA ClientSendsIs ==
    ASSUME IsStream(c2s, UpTokens), NEW tokens \in Seq(UpTokens), NEW next,
           ClientSends(tokens, next)
    PROVE  IsStream(c2s', UpTokens) /\ cl' \in {next, "closed"}
<1>1. IsStream(c2s \o Payload(tokens), UpTokens)
  BY PayloadIs, JoinedStream, Zenon
<1> QED
  BY <1>1 DEF ClientSends

LEMMA ServerSendsIs ==
    ASSUME IsStream(s2c, DownTokens), NEW payloads, IsStream(payloads, DownTokens),
           NEW next, ServerSends(payloads, next)
    PROVE  IsStream(s2c', DownTokens) /\ sv' \in {next, "closed"}
<1>1. IsStream(s2c \o payloads, DownTokens)
  BY JoinedStream, Zenon
<1> QED
  BY <1>1 DEF ServerSends

(* The commands the server knows, and its replies.                         *)
LEMMA CommandIs ==
    ASSUME IsStream(c2s, UpTokens), NEW cmd, Command(cmd)
    PROVE  /\ IsStream(c2s', UpTokens) /\ sv = "recv"
           /\ FirstWord(c2s) \in Requests /\ FirstWord(c2s).cmd = cmd
<1>1. HasLine(c2s) /\ sv = "recv" /\ FirstWord(c2s) \notin Plain /\ FirstWord(c2s).cmd = cmd
      /\ c2s' = Drop(c2s, LineLength(c2s))
  BY DEF Command
<1>2. LineLength(c2s) \in 1..Len(c2s) /\ FirstWord(c2s) \in UpTokens
  BY <1>1, PlainIsUp, LineIs
<1>3. LineLength(c2s) \in Nat /\ LineLength(c2s) <= Len(c2s)
  <2>1. Len(c2s) \in Nat
    BY LenProperties DEF IsStream
  <2> QED
    BY <1>2, <2>1
<1>4. IsStream(Drop(c2s, LineLength(c2s)), UpTokens)
  BY <1>3, DropIs
<1> QED
  BY <1>1, <1>2, <1>4 DEF UpTokens

LEMMA HeaderIs ==
    ASSUME NEW code \in {OK, BAD_FILE, SERVER_ERROR, COMMAND_NOT_IMPLEMENTED},
           NEW size \in Nat \union {NoSize}, NEW re \in UpTokens
    PROVE  IsStream(Payload(Line(Reply(code, size, re))), DownTokens)
<1> USE FileTransferAssumption
<1>1. Reply(code, size, re) \in DownTokens
  BY DEF Reply, Replies, DownTokens
<1>2. Rest \in DownTokens /\ NL \in DownTokens
  BY DEF DownTokens, UpTokens, Plain
<1>3. Line(Reply(code, size, re)) \in Seq(DownTokens)
  BY <1>1, <1>2 DEF Line
<1> QED
  BY <1>3, PayloadIs

LEMMA AnswerIs ==
    ASSUME IsStream(s2c, DownTokens), FirstWord(c2s) \in UpTokens,
           NEW code \in {OK, BAD_FILE, SERVER_ERROR, COMMAND_NOT_IMPLEMENTED},
           NEW size \in Nat \union {NoSize}, NEW next,
           Answer(code, size, next)
    PROVE  IsStream(s2c', DownTokens) /\ sv' \in {next, "closed"}
<1>1. IsStream(Payload(Line(Reply(code, size, FirstWord(c2s)))), DownTokens)
  BY HeaderIs
<1> QED
  BY <1>1, ServerSendsIs DEF Answer

LEMMA RefuseIs ==
    ASSUME IsStream(s2c, DownTokens), FirstWord(c2s) \in UpTokens,
           NEW code \in {BAD_FILE, SERVER_ERROR, COMMAND_NOT_IMPLEMENTED}, Refuse(code)
    PROVE  /\ IsStream(s2c', DownTokens) /\ sv' \in {"recv", "closed"}
           /\ UNCHANGED <<job, count, root, sends>>
BY AnswerIs DEF Refuse

(* The listing of root/ has a name and a line feed for each of its files.  *)
LEMMA ListingIs ==
    /\ Listing \in Seq(UpTokens)
    /\ Len(Listing) = 2 * Cardinality({f \in Name : root[f] # Absent})
    /\ Cardinality({f \in Name : root[f] # Absent}) \in Nat
<1> DEFINE S == {f \in Name : root[f] # Absent}
           m == Cardinality(S)
           fs == SetToSeq(S)
<1>1. IsFiniteSet(S)
  BY FS_Subset, FileTransferAssumption
<1>2. m \in Nat /\ ExistsBijection(1..m, S)
  BY <1>1, FS_CardinalityType, Zenon
<1>3. PICK b \in Bijection(1..m, S) : TRUE
  BY <1>2 DEF ExistsBijection
<1>4. b \in [1..m -> S] /\ IsInjective(b)
  BY <1>3, Zenon DEF Bijection, Injection
<1>5. fs \in [1..m -> S]
  <2>1. \E f \in [1..m -> S] : IsInjective(f)
    BY <1>4, Zenon
  <2>2. fs = CHOOSE f \in [1..m -> S] : IsInjective(f)
    BY Zenon DEF SetToSeq
  <2> QED
    BY <2>1, <2>2, Zenon
<1>6. Len(fs) = m
  <2>1. fs \in Seq(S)
    BY <1>2, <1>5, SeqDef
  <2> QED
    BY <1>2, <1>5, <2>1, LenProperties
<1>7. S \subseteq UpTokens /\ NL \in UpTokens
  BY PlainIsUp DEF UpTokens, Plain
<1>8. Listing = [i \in 1..2 * Len(fs) |-> IF i % 2 = 1 THEN fs[(i + 1) \div 2] ELSE NL]
  BY Zenon DEF Listing
<1> HIDE DEF S, m, fs
<1>9. Listing \in [1..2 * m -> UpTokens]
  <2>1. \A i \in 1..2 * m : i % 2 = 1 => (i + 1) \div 2 \in 1..m
    BY <1>2
  <2>2. \A k \in 1..m : fs[k] \in UpTokens
    BY <1>5, <1>7
  <2>3. \A i \in 1..2 * m : i % 2 = 1 => fs[(i + 1) \div 2] \in UpTokens
    BY <2>1, <2>2, Zenon
  <2> QED
    BY <1>6, <1>7, <1>8, <2>3, Zenon
<1>10. 2 * m \in Nat
  BY <1>2
<1>11. Listing \in Seq(UpTokens) /\ Len(Listing) = 2 * m
  BY <1>9, <1>10, SeqDef, LenProperties
<1> QED
  BY <1>2, <1>11 DEF S, m

-----------------------------------------------------------------------------
(* The invariant in three parts: the streams, the client and the server.   *)

Streams ==
    /\ IsStream(c2s, UpTokens) /\ IsStream(s2c, DownTokens)
    /\ conn \in {"up", "down"}

ClientOK ==
    /\ cl \in {"prompt", "await", "get", "list", "put", "closed"}
    /\ cur \in Requests /\ typed \in 0..MaxCommands /\ oversize \in BOOLEAN
    /\ need \in Nat /\ (cl = "put" => need <= cur.size)
    /\ local \in [Name -> Content \union {Absent}]
    /\ upload \in Seq(Data) /\ listed \in Seq(DownTokens)
    /\ downloads \in [Name -> Seq(DownTokens) \union {Absent}]
    /\ cl = "get" => cur.name \in Name /\ downloads[cur.name] # Absent

ServerOK ==
    /\ sv \in {"recv", "retr", "stor", "closed"}
    /\ job \in [name : Name \union {""}, size : Nat] /\ count \in 0..job.size
    /\ root \in [Name -> Seq(UpTokens) \union {Absent}]
    /\ sv \in {"retr", "stor"} => job.name \in Name /\ root[job.name] # Absent
    /\ sv = "retr" => Len(root[job.name]) = job.size
    /\ sv = "stor" => Len(root[job.name]) = count
    /\ root0 \in {start.root : start \in Starts}
    /\ \A f \in Name : root[f] # Absent => f \in Parola \/ root0[f] # Absent

LEMMA Parts == TransferInv <=> Streams /\ ClientOK /\ ServerOK
<1>1. TransferInv => Streams /\ ClientOK /\ ServerOK
  BY DEF TransferInv, TypeOK, Streams, ClientOK, ServerOK
<1>2. ASSUME ServerOK
      PROVE  NoOverrun
  <2>1. job.size \in Nat /\ count \in 0..job.size
    BY <1>2 DEF ServerOK
  <2>2. count <= job.size
    BY <2>1
  <2> QED
    BY <1>2, <2>2 DEF ServerOK, NoOverrun
<1>3. Streams /\ ClientOK /\ ServerOK => TransferInv
  BY <1>2 DEF TransferInv, TypeOK, Streams, ClientOK, ServerOK
<1> QED
  BY <1>1, <1>3

LEMMA PartsAfter == Streams' /\ ClientOK' /\ ServerOK' => TransferInv'
<1>1. ASSUME ServerOK'
      PROVE  NoOverrun'
  <2>1. job'.size \in Nat /\ count' \in 0..job'.size
    BY <1>1 DEF ServerOK
  <2>2. count' <= job'.size
    BY <2>1
  <2> QED
    BY <1>1, <2>2 DEF ServerOK, NoOverrun
<1> QED
  BY <1>1 DEF TransferInv, TypeOK, Streams, ClientOK, ServerOK

LEMMA ClientSame ==
    ASSUME ClientOK, UNCHANGED clVars, UNCHANGED local
    PROVE  ClientOK'
BY DEF ClientOK, clVars

LEMMA ServerSame ==
    ASSUME ServerOK, UNCHANGED svVars, UNCHANGED root0
    PROVE  ServerOK'
BY DEF ServerOK, svVars

-----------------------------------------------------------------------------
(* The initial state.                                                      *)

LEMMA TransferInvInit ==
    ASSUME Init
    PROVE  TransferInv
<1>0. MaxCommands \in Nat
  BY FileTransferAssumption
<1>1. Streams
  BY EmptyStream DEF Init, Streams
<1>2. PICK start \in Starts : local = start.local /\ root = start.root
  BY DEF Init
<1>3. start.local \in [Name -> Content \union {Absent}]
      /\ start.root \in [Name -> Content \union {Absent}]
  BY <1>2, FileTransferAssumption
<1>4. ClientOK
  <2>1. Request("LIST", "", NoSize) \in Requests
    BY RequestMade
  <2>2. <<>> \in Seq(Data) /\ <<>> \in Seq(DownTokens)
    OBVIOUS
  <2>3. /\ cl = "prompt" /\ cur = Request("LIST", "", NoSize) /\ need = 0
        /\ upload = <<>> /\ listed = <<>> /\ typed = 0 /\ oversize = FALSE
    BY DEF Init
  <2>4. downloads \in [Name -> Seq(DownTokens) \union {Absent}]
    BY DEF Init
  <2>5. typed \in 0..MaxCommands /\ need \in Nat
    <3>1. typed = 0 /\ need = 0
      BY <2>3
    <3> QED
      BY <1>0, <3>1
  <2> QED
    BY <1>2, <1>3, <2>1, <2>2, <2>3, <2>4, <2>5, Zenon DEF ClientOK
<1>5. ServerOK
  <2>1. Content \subseteq Seq(UpTokens)
    BY PlainIsUp, SeqMonotonic, FileTransferAssumption
  <2>2. root \in [Name -> Seq(UpTokens) \union {Absent}]
    BY <1>2, <1>3, <2>1
  <2>3. root0 = start.root
    BY <1>2 DEF Init
  <2>4. sv = "recv" /\ job = [name |-> "", size |-> 0] /\ count = 0
    BY DEF Init
  <2>5. job \in [name : Name \union {""}, size : Nat] /\ job.size = 0
    BY <2>4
  <2>6. count \in 0..job.size
    <3>1. count = 0 /\ job.size = 0
      BY <2>4, <2>5
    <3> QED
      BY <3>1
  <2> QED
    BY <1>2, <2>2, <2>3, <2>4, <2>5, <2>6 DEF ServerOK
<1> QED
  BY <1>1, <1>4, <1>5, Parts

-----------------------------------------------------------------------------
(* The client.                                                             *)

LEMMA AskInv ==
    ASSUME TransferInv, NEW request \in Requests, Ask(request), typed' \in 0..MaxCommands
    PROVE  TransferInv'
<1>0. Streams /\ ClientOK /\ ServerOK
  BY Parts
<1>1. /\ cur' = request
      /\ UNCHANGED <<s2c, conn, need, upload, listed, downloads, svVars, local, root0>>
  BY DEF Ask, fixed
<1>2. /\ IsStream(c2s', UpTokens) /\ cl' \in {"await", "closed"}
      /\ oversize' \in BOOLEAN
  <2>1. CASE ClientSends(RequestLine(request), "await") /\ UNCHANGED oversize
    BY <1>0, <2>1, RequestLineIs, ClientSendsIs DEF Streams, ClientOK
  <2>2. CASE Overruns
    BY <1>0, <2>2 DEF Overruns, Streams
  <2> QED
    BY <2>1, <2>2 DEF Ask
<1>3. Streams'
  BY <1>0, <1>1, <1>2 DEF Streams
<1>4. ClientOK'
  BY <1>0, <1>1, <1>2 DEF ClientOK
<1>5. ServerOK'
  BY <1>0, <1>1, ServerSame
<1> QED
  BY <1>3, <1>4, <1>5, PartsAfter

LEMMA TypeInv ==
    ASSUME TransferInv, Type
    PROVE  TransferInv'
<1>0. ClientOK /\ MaxCommands \in Nat /\ MaxFileSize \in Nat
  BY Parts, FileTransferAssumption
<1>1. ASSUME Counted
      PROVE  typed' \in 0..MaxCommands
  <2>1. typed \in 0..MaxCommands /\ typed < MaxCommands /\ typed' = typed + 1
    BY <1>0, <1>1 DEF ClientOK, Counted
  <2> QED
    BY <1>0, <2>1
<1>2. CASE cmd_remote_list
  BY <1>1, <1>2, RequestMade, AskInv DEF cmd_remote_list
<1>3. CASE cmd_quit
  <2>1. typed' \in 0..MaxCommands
    BY <1>0, <1>3 DEF ClientOK, cmd_quit
  <2> QED
    BY <1>3, <2>1, RequestMade, AskInv DEF cmd_quit
<1>4. ASSUME NEW f \in Name, cmd_retr(f)
      PROVE  TransferInv'
  BY <1>1, <1>4, RequestMade, AskInv DEF cmd_retr
<1>5. ASSUME NEW f \in Name, cmd_dele(f)
      PROVE  TransferInv'
  BY <1>1, <1>5, RequestMade, AskInv DEF cmd_dele
<1>6. ASSUME NEW f \in Name, cmd_stor(f)
      PROVE  TransferInv'
  <2>1. Counted /\ local[f] # Absent /\ Len(local[f]) <= MaxFileSize
        /\ Ask(Request("STOR", f, Len(local[f])))
    BY <1>6 DEF cmd_stor
  <2>2. local[f] \in Seq(Data)
    BY <1>0, <2>1, FileTransferAssumption DEF ClientOK
  <2>3. Len(local[f]) \in Nat
    BY <2>2, LenProperties
  <2>4. Len(local[f]) \in 0..MaxFileSize
    BY <1>0, <2>1, <2>3
  <2>5. Request("STOR", f, Len(local[f])) \in Requests
    BY <2>4, RequestMade
  <2> QED
    BY <1>1, <2>1, <2>5, AskInv
<1> QED
  BY <1>2, <1>3, <1>4, <1>5, <1>6 DEF Type

LEMMA TakeReplyIs ==
    ASSUME TransferInv, TakeReply
    PROVE  /\ Streams' /\ ServerOK' /\ FirstWord(s2c) \in DownTokens /\ cl = "await"
           /\ UNCHANGED <<cur, typed, oversize, local>>
<1>0. Streams /\ ServerOK
  BY Parts
<1>1. /\ cl = "await" /\ HasLine(s2c) /\ s2c' = Drop(s2c, LineLength(s2c))
      /\ UNCHANGED <<c2s, conn, cur, typed, oversize, svVars, local, root0>>
  BY DEF TakeReply, fixed
<1>2. IsStream(s2c, DownTokens)
  BY <1>0 DEF Streams
<1>3. LineLength(s2c) \in 1..Len(s2c) /\ FirstWord(s2c) \in DownTokens
  BY <1>1, <1>2, PlainIsUp, LineIs
<1>4. LineLength(s2c) \in Nat /\ LineLength(s2c) <= Len(s2c)
  <2>1. Len(s2c) \in Nat
    BY <1>2, LenProperties DEF IsStream
  <2> QED
    BY <1>3, <2>1
<1>5. IsStream(s2c', DownTokens)
  BY <1>1, <1>2, <1>4, DropIs
<1>6. Streams'
  BY <1>0, <1>1, <1>5 DEF Streams
<1>7. ServerOK'
  BY <1>0, <1>1, ServerSame
<1> QED
  BY <1>1, <1>3, <1>6, <1>7

LEMMA ReplyInv ==
    ASSUME TransferInv, TakeReply, need' \in Nat, cl' = "put" => need' <= cur.size,
           cl' \in {"prompt", "get", "list", "put", "closed"},
           upload' \in Seq(Data), listed' \in Seq(DownTokens),
           downloads' \in [Name -> Seq(DownTokens) \union {Absent}],
           cl' = "get" => cur.name \in Name /\ downloads'[cur.name] # Absent
    PROVE  TransferInv'
<1>1. ClientOK
  BY Parts
<1>2. Streams' /\ ServerOK' /\ UNCHANGED <<cur, typed, oversize, local>>
  BY TakeReplyIs
<1>3. ClientOK'
  BY <1>1, <1>2 DEF ClientOK
<1> QED
  BY <1>2, <1>3, PartsAfter

LEMMA HasBodyIs ==
    ASSUME NEW word, HasBody(word)
    PROVE  word.size \in Nat
<1>1. word \in Replies /\ word.size >= 0
  BY DEF HasBody, IsOK
<1>2. word.size \in Nat \union {NoSize}
  BY <1>1 DEF Replies
<1> QED
  BY <1>1, <1>2 DEF NoSize

LEMMA RepliesInv ==
    ASSUME TransferInv,
           ReplyToList \/ ReplyToRetr \/ ReplyToStor \/ ReplyToDele \/ ReplyToQuit
    PROVE  TransferInv'
<1>0. ClientOK /\ Absent \notin Seq(DownTokens)
  BY Parts, FileTransferAssumption
<1>1. /\ need \in Nat /\ upload \in Seq(Data) /\ listed \in Seq(DownTokens) /\ cur \in Requests
      /\ downloads \in [Name -> Seq(DownTokens) \union {Absent}]
      /\ local \in [Name -> Content \union {Absent}]
      /\ <<>> \in Seq(Data) /\ <<>> \in Seq(DownTokens)
  BY <1>0 DEF ClientOK
<1>2. CASE ReplyToList
  <2>1. TakeReply /\ UNCHANGED <<upload, downloads>>
    BY <1>2 DEF ReplyToList
  <2>2. \/ HasBody(FirstWord(s2c)) /\ cl' = "list" /\ need' = FirstWord(s2c).size /\ listed' = <<>>
        \/ cl' = "prompt" /\ UNCHANGED <<need, listed>>
    BY <1>2 DEF ReplyToList
  <2>3. need' \in Nat /\ listed' \in Seq(DownTokens) /\ cl' \in {"list", "prompt"}
    BY <1>1, <2>2, HasBodyIs
  <2> QED
    BY <1>1, <2>1, <2>3, ReplyInv
<1>3. CASE ReplyToRetr
  <2>1. TakeReply /\ cur.cmd = "RETR" /\ UNCHANGED <<upload, listed>>
    BY <1>3 DEF ReplyToRetr
  <2>2. \/ /\ HasBody(FirstWord(s2c)) /\ cl' = "get" /\ need' = FirstWord(s2c).size
           /\ downloads' = [downloads EXCEPT ![cur.name] = <<>>]
        \/ cl' = "prompt" /\ UNCHANGED <<need, downloads>>
    BY <1>3 DEF ReplyToRetr
  <2>3. need' \in Nat /\ cl' \in {"get", "prompt"}
    BY <1>1, <2>2, HasBodyIs
  <2>4. cur.name \in Name
    BY <1>1, <2>1, RequestIs
  <2>5. downloads' \in [Name -> Seq(DownTokens) \union {Absent}]
    BY <1>1, <2>2, <2>4
  <2>6. cl' = "get" => downloads'[cur.name] # Absent
    BY <1>0, <1>1, <2>2, <2>4
  <2> QED
    BY <1>1, <2>1, <2>3, <2>4, <2>5, <2>6, ReplyInv
<1>4. CASE ReplyToStor
  <2>1. TakeReply /\ cur.cmd = "STOR" /\ UNCHANGED <<listed, downloads>>
    BY <1>4 DEF ReplyToStor
  <2>2. \/ cl' = "prompt" /\ UNCHANGED <<need, upload>>
        \/ /\ \E file \in Reopened(cur.name) : file # Absent /\ upload' = file
           /\ cl' = "put" /\ need' = cur.size
    BY <1>4 DEF ReplyToStor
  <2>3. cur.name \in Name /\ cur.size \in 0..MaxFileSize
    BY <1>1, <2>1, RequestIs
  <2>4. cur.size \in Nat
    BY <2>3, FileTransferAssumption
  <2>5. upload' \in Seq(Data)
    <3>1. ASSUME NEW file \in Reopened(cur.name), file # Absent
          PROVE  file \in Seq(Data)
      <4>1. file \in {local[cur.name], <<>>}
        BY <3>1 DEF Reopened
      <4>2. local[cur.name] \in Seq(Data) \union {Absent}
        BY <1>1, <2>3, FileTransferAssumption
      <4> QED
        BY <1>1, <3>1, <4>1, <4>2
    <3> QED
      BY <1>1, <2>2, <3>1
  <2>6. need' \in Nat /\ cl' \in {"put", "prompt"} /\ (cl' = "put" => need' <= cur.size)
    BY <1>1, <2>2, <2>4
  <2> QED
    BY <1>1, <2>1, <2>5, <2>6, ReplyInv
<1>5. CASE ReplyToDele
  BY <1>1, <1>5, ReplyInv DEF ReplyToDele
<1>6. CASE ReplyToQuit
  BY <1>1, <1>6, ReplyInv DEF ReplyToQuit
<1> QED
  BY <1>2, <1>3, <1>4, <1>5, <1>6

(* The loops of the client: a fragment received, and one sent.             *)

LEMMA ClientReadsInv ==
    ASSUME TransferInv, ClientReads
    PROVE  TransferInv'
<1> DEFINE size == Smaller(need, BufferSize)
           n == Received(s2c, size)
           piece == Tokens(SubSeq(s2c, 1, n))
<1>0. Streams /\ ClientOK /\ ServerOK /\ BufferSize \in Nat \ {0} /\ Stale \in DownTokens
  BY Parts, FileTransferAssumption, PlainIsUp DEF DownTokens
<1>1. /\ cl \in {"get", "list"} /\ need > 0 /\ s2c # <<>> /\ RecvFragment(n)
      /\ s2c' = Drop(s2c, n) /\ need' = need - n
      /\ UNCHANGED <<c2s, conn, cl, cur, upload, typed, oversize, svVars, local, root0>>
  BY DEF ClientReads, fixed
<1>2. /\ IsStream(s2c, DownTokens) /\ s2c \in Seq(DownTokens \X BOOLEAN) /\ need \in Nat
      /\ listed \in Seq(DownTokens)
      /\ downloads \in [Name -> Seq(DownTokens) \union {Absent}]
      /\ cl = "get" => cur.name \in Name /\ downloads[cur.name] # Absent
  BY <1>0 DEF Streams, ClientOK, IsStream
<1>3. size \in Nat /\ size <= need /\ size # 0
  <2>1. need \in Nat /\ BufferSize \in Nat
    BY <1>0, <1>2
  <2>2. size \in Nat /\ size <= need /\ size \in {need, BufferSize}
    BY <2>1, SmallerIs, Zenon
  <2> QED
    BY <1>0, <1>1, <2>1, <2>2
<1> HIDE DEF size
<1>4. n \in 1..size /\ n <= Len(s2c)
  BY <1>1, <1>2, <1>3, ReceivedIs
<1> HIDE DEF n
<1>5. n \in Nat /\ n <= need
  BY <1>2, <1>3, <1>4
<1>6. need' \in Nat
  BY <1>1, <1>2, <1>5
<1>7. IsStream(s2c', DownTokens)
  BY <1>1, <1>2, <1>4, <1>5, DropIs
<1>8. piece \in Seq(DownTokens)
  <2>1. SubSeq(s2c, 0 + 1, n) \in Seq(DownTokens \X BOOLEAN)
    BY <1>2, <1>4, <1>5, Piece
  <2>2. SubSeq(s2c, 1, n) \in Seq(DownTokens \X BOOLEAN)
    BY <2>1
  <2> QED
    BY <2>2, TokensIs, Zenon
<1>9. \/ /\ cl = "get" /\ UNCHANGED listed
         /\ downloads' = [downloads EXCEPT ![cur.name] = @ \o piece]
      \/ /\ cl # "get" /\ UNCHANGED downloads
         /\ listed' \in {listed, piece, piece \o <<Stale>>}
  BY <1>1 DEF RecvFragment
<1> HIDE DEF piece
<1>10. Absent \notin Seq(DownTokens)
  BY FileTransferAssumption
<1>11. /\ listed' \in Seq(DownTokens)
       /\ downloads' \in [Name -> Seq(DownTokens) \union {Absent}]
       /\ cl = "get" => downloads'[cur.name] # Absent
  <2>1. CASE cl = "get"
    <3>1. downloads[cur.name] \in Seq(DownTokens) /\ cur.name \in Name
      BY <1>2, <2>1
    <3>2. downloads[cur.name] \o piece \in Seq(DownTokens)
      BY <1>8, <3>1, ConcatProperties, Zenon
    <3>3. downloads' = [downloads EXCEPT ![cur.name] = downloads[cur.name] \o piece]
      BY <1>9, <2>1
    <3> QED
      BY <1>2, <1>9, <1>10, <2>1, <3>1, <3>2, <3>3
  <2>2. CASE cl # "get"
    <3>1. <<Stale>> \in Seq(DownTokens)
      BY <1>0
    <3>2. piece \o <<Stale>> \in Seq(DownTokens)
      BY <1>8, <3>1, ConcatProperties, Zenon
    <3> QED
      BY <1>2, <1>8, <1>9, <2>2, <3>2
  <2> QED
    BY <2>1, <2>2
<1>12. Streams'
  BY <1>0, <1>1, <1>7 DEF Streams
<1>13. ClientOK'
  BY <1>0, <1>1, <1>2, <1>6, <1>11 DEF ClientOK
<1>14. ServerOK'
  BY <1>0, <1>1, ServerSame
<1> QED
  BY <1>12, <1>13, <1>14, PartsAfter

LEMMA SendFragmentIs ==
    ASSUME TransferInv, send_fragment
    PROVE  TransferInv' /\ \E n \in 1..BufferSize : sends' = sends \union {n}
<1> DEFINE off == cur.size - need
           n == Smaller(need, BufferSize)
           piece == [i \in 1..n |-> IF off + i <= Len(upload) THEN upload[off + i] ELSE Stale]
<1>0. Streams /\ ClientOK /\ ServerOK /\ BufferSize \in Nat \ {0} /\ Stale \in Data
  BY Parts, FileTransferAssumption
<1>1. /\ cl = "put" /\ need > 0 /\ ClientSends(piece, "put") /\ need' = need - n
      /\ sends' = sends \union {n}
      /\ UNCHANGED <<s2c, conn, cur, upload, listed, downloads, typed, oversize, svVars, local, root0>>
  BY Zenon DEF send_fragment, fixed
<1>2. /\ IsStream(c2s, UpTokens) /\ need \in Nat /\ cur.size \in Int /\ need <= cur.size
      /\ upload \in Seq(Data)
  BY <1>0, <1>1, RequestIs DEF Streams, ClientOK
<1>3. n \in Nat /\ n <= need /\ n <= BufferSize /\ n # 0
  <2>1. need \in Nat /\ BufferSize \in Nat
    BY <1>0, <1>2
  <2>2. n \in Nat /\ n <= need /\ n <= BufferSize /\ n \in {need, BufferSize}
    BY <2>1, SmallerIs, Zenon
  <2> QED
    BY <1>0, <1>1, <2>1, <2>2
<1>4. off \in Nat
  BY <1>2
<1> HIDE DEF off, n
<1>5. piece \in [1..n -> Data]
  <2>1. Len(upload) \in Nat /\ \A i \in 1..Len(upload) : upload[i] \in Data
    BY <1>2, LenProperties, ElementOfSeq
  <2>2. \A i \in 1..n : off + i <= Len(upload) => off + i \in 1..Len(upload)
    BY <1>3, <1>4, <2>1
  <2>3. \A i \in 1..n : off + i <= Len(upload) => upload[off + i] \in Data
    BY <2>1, <2>2
  <2> QED
    BY <1>0, <2>3, Zenon
<1>6. piece \in Seq(UpTokens)
  <2>1. piece \in Seq(Data)
    BY <1>3, <1>5, SeqDef
  <2> QED
    BY <2>1, PlainIsUp, SeqMonotonic
<1> HIDE DEF piece
<1>7. IsStream(c2s', UpTokens) /\ cl' \in {"put", "closed"}
  BY <1>1, <1>2, <1>6, ClientSendsIs
<1>8. need' \in Nat /\ need' <= cur.size
  BY <1>1, <1>2, <1>3
<1>9. Streams'
  BY <1>0, <1>1, <1>7 DEF Streams
<1>10. ClientOK'
  BY <1>0, <1>1, <1>7, <1>8 DEF ClientOK
<1>11. ServerOK'
  BY <1>0, <1>1, ServerSame
<1>12. n \in 1..BufferSize
  BY <1>0, <1>3
<1> QED
  BY <1>1, <1>9, <1>10, <1>11, <1>12, PartsAfter

LEMMA ClientStops ==
    ASSUME TransferInv, BodyDone \/ ClientRecvFails
    PROVE  TransferInv'
<1>0. Streams /\ ClientOK /\ ServerOK
  BY Parts
<1>1. /\ cl' \in {"prompt", "closed"}
      /\ UNCHANGED <<c2s, s2c, conn, cur, need, upload, listed, downloads, typed, oversize, svVars,
                     local, root0>>
  BY DEF BodyDone, ClientRecvFails, fixed
<1>2. ClientOK'
  BY <1>0, <1>1 DEF ClientOK
<1>3. Streams'
  BY <1>0, <1>1 DEF Streams
<1>4. ServerOK'
  BY <1>0, <1>1, ServerSame
<1> QED
  BY <1>2, <1>3, <1>4, PartsAfter

LEMMA ClientStepInv ==
    ASSUME TransferInv, ClientStep
    PROVE  TransferInv'
BY RepliesInv, ClientReadsInv, SendFragmentIs, ClientStops DEF ClientStep

-----------------------------------------------------------------------------
(* The server.                                                             *)

(* What all handlers of a command leave alone.                             *)
LEMMA CommandLeaves ==
    ASSUME NEW cmd, Command(cmd)
    PROVE  UNCHANGED <<conn, clVars, local, root0>>
BY DEF Command, fixed

(* A handler keeps the invariant if what it does to the server does.       *)
LEMMA HandlerInv ==
    ASSUME TransferInv, NEW cmd, Command(cmd), IsStream(s2c', DownTokens), ServerOK'
    PROVE  TransferInv'
<1>0. Streams /\ ClientOK
  BY Parts
<1>1. IsStream(c2s', UpTokens) /\ UNCHANGED <<conn, clVars, local>>
  BY <1>0, CommandIs, CommandLeaves DEF Streams
<1>2. Streams'
  BY <1>0, <1>1 DEF Streams
<1>3. ClientOK'
  BY <1>0, <1>1, ClientSame
<1> QED
  BY <1>2, <1>3, PartsAfter

LEMMA RefusedOK ==
    ASSUME ServerOK, sv' \in {"recv", "closed"}, UNCHANGED <<job, count, root, root0>>
    PROVE  ServerOK'
BY DEF ServerOK

LEMMA RefuseInv ==
    ASSUME TransferInv, NEW cmd, Command(cmd),
           NEW code \in {BAD_FILE, SERVER_ERROR, COMMAND_NOT_IMPLEMENTED}, Refuse(code)
    PROVE  TransferInv' /\ UNCHANGED sends
<1>0. Streams /\ ServerOK
  BY Parts
<1>1. FirstWord(c2s) \in UpTokens /\ UNCHANGED root0
  BY <1>0, CommandIs, CommandLeaves DEF Streams, UpTokens
<1>2. /\ IsStream(s2c', DownTokens) /\ sv' \in {"recv", "closed"}
      /\ UNCHANGED <<job, count, root, sends>>
  BY <1>0, <1>1, RefuseIs DEF Streams
<1>3. ServerOK'
  BY <1>0, <1>1, <1>2, RefusedOK
<1> QED
  BY <1>2, <1>3, HandlerInv

LEMMA AllowedIs == \A f : TRUE \in Allowed(f) => f \in Parola
BY DEF Allowed

LEMMA ExecDeleInv ==
    ASSUME TransferInv, ExecDele
    PROVE  TransferInv' /\ UNCHANGED sends
<1> DEFINE f == FirstWord(c2s).name
<1>0. Streams /\ ServerOK /\ Command("DELE")
  BY Parts DEF ExecDele
<1>1. \/ Refuse(BAD_FILE)
      \/ /\ root' = [root EXCEPT ![f] = Absent] /\ Answer(OK, NoSize, "recv")
         /\ UNCHANGED <<job, count, sends>>
  BY DEF ExecDele
<1>2. CASE Refuse(BAD_FILE)
  BY <1>0, <1>2, RefuseInv
<1>3. CASE /\ root' = [root EXCEPT ![f] = Absent] /\ Answer(OK, NoSize, "recv")
           /\ UNCHANGED <<job, count, sends>>
  <2>1. FirstWord(c2s) \in UpTokens /\ UNCHANGED root0
    BY <1>0, CommandIs, CommandLeaves DEF Streams, UpTokens
  <2>2. IsStream(s2c', DownTokens) /\ sv' \in {"recv", "closed"}
    BY <1>0, <1>3, <2>1, AnswerIs DEF Streams
  <2> HIDE DEF f
  <2>3. ServerOK'
    BY <1>0, <1>3, <2>1, <2>2 DEF ServerOK
  <2> QED
    BY <1>0, <1>3, <2>2, <2>3, HandlerInv
<1> QED
  BY <1>1, <1>2, <1>3

LEMMA ExecListInv ==
    ASSUME TransferInv, ExecList
    PROVE  TransferInv' /\ (UNCHANGED sends \/ sends' = sends \union ({Len(Listing)} \ {0}))
<1>0. Streams /\ ServerOK /\ Command("LIST")
  BY Parts DEF ExecList
<1>1. \/ Refuse(SERVER_ERROR)
      \/ /\ ServerSends(Payload(Line(Reply(OK, Len(Listing), FirstWord(c2s)))) \o Payload(Listing),
                        "recv")
         /\ sends' = sends \union ({Len(Listing)} \ {0})
         /\ UNCHANGED <<job, count, root>>
  BY DEF ExecList
<1>2. CASE Refuse(SERVER_ERROR)
  BY <1>0, <1>2, RefuseInv
<1>3. CASE /\ ServerSends(Payload(Line(Reply(OK, Len(Listing), FirstWord(c2s)))) \o Payload(Listing),
                          "recv")
           /\ sends' = sends \union ({Len(Listing)} \ {0})
           /\ UNCHANGED <<job, count, root>>
  <2> DEFINE header == Payload(Line(Reply(OK, Len(Listing), FirstWord(c2s))))
             body == Payload(Listing)
  <2>1. FirstWord(c2s) \in UpTokens /\ UNCHANGED root0
    BY <1>0, CommandIs, CommandLeaves DEF Streams, UpTokens
  <2>2. Len(Listing) \in Nat
    BY ListingIs, LenProperties
  <2>3. IsStream(header, DownTokens)
    BY <2>1, <2>2, HeaderIs
  <2>4. IsStream(body, DownTokens)
    <3>1. IsStream(body, UpTokens)
      BY ListingIs, PayloadIs
    <3>2. UpTokens \subseteq DownTokens
      BY DEF DownTokens
    <3> QED
      BY <3>1, <3>2, MoreStream, Zenon
  <2> HIDE DEF header, body
  <2>5. IsStream(header \o body, DownTokens)
    BY <2>3, <2>4, JoinedStream, Zenon
  <2>6. ServerSends(header \o body, "recv")
    BY <1>3, Zenon DEF header, body
  <2>7. IsStream(s2c', DownTokens) /\ sv' \in {"recv", "closed"}
    BY <1>0, <2>5, <2>6, ServerSendsIs DEF Streams
  <2>8. ServerOK'
    BY <1>0, <1>3, <2>1, <2>7, RefusedOK
  <2> QED
    BY <1>0, <1>3, <2>7, <2>8, HandlerInv
<1> QED
  BY <1>1, <1>2, <1>3

LEMMA ExecRetrInv ==
    ASSUME TransferInv, ExecRetr
    PROVE  TransferInv' /\ UNCHANGED sends
<1> DEFINE f == FirstWord(c2s).name
<1>0. Streams /\ ServerOK /\ Command("RETR")
  BY Parts DEF ExecRetr
<1>1. \/ Refuse(BAD_FILE)
      \/ /\ root[f] # Absent /\ Answer(OK, Len(root[f]), "retr")
         /\ job' = [name |-> f, size |-> Len(root[f])] /\ count' = 0
         /\ UNCHANGED <<root, sends>>
      \/ \E size \in SeekEnds : Answer(OK, size, "recv") /\ UNCHANGED <<job, count, root, sends>>
  BY Zenon DEF ExecRetr
<1>2. CASE Refuse(BAD_FILE)
  BY <1>0, <1>2, RefuseInv
<1>3. CASE /\ root[f] # Absent /\ Answer(OK, Len(root[f]), "retr")
           /\ job' = [name |-> f, size |-> Len(root[f])] /\ count' = 0
           /\ UNCHANGED <<root, sends>>
  <2>1. FirstWord(c2s) \in UpTokens /\ f \in Name /\ UNCHANGED root0
    BY <1>0, CommandIs, CommandLeaves, RequestIs DEF Streams, UpTokens
  <2>2. Len(root[f]) \in Nat
    <3>1. root[f] \in Seq(UpTokens)
      BY <1>0, <1>3, <2>1 DEF ServerOK
    <3> QED
      BY <3>1, LenProperties
  <2>3. IsStream(s2c', DownTokens) /\ sv' \in {"retr", "closed"}
    BY <1>0, <1>3, <2>1, <2>2, AnswerIs DEF Streams
  <2> HIDE DEF f
  <2>4. /\ job' \in [name : Name \union {""}, size : Nat]
        /\ job'.name = f /\ job'.size = Len(root[f])
    BY <1>3, <2>1, <2>2
  <2>5. count' \in 0..job'.size
    <3>1. count' = 0 /\ job'.size \in Nat
      BY <1>3, <2>2, <2>4
    <3> QED
      BY <3>1
  <2>6. ServerOK'
    BY <1>0, <1>3, <2>1, <2>3, <2>4, <2>5 DEF ServerOK
  <2> QED
    BY <1>0, <1>3, <2>3, <2>6, HandlerInv
<1>4. ASSUME NEW size \in SeekEnds,
             Answer(OK, size, "recv") /\ UNCHANGED <<job, count, root, sends>>
      PROVE  TransferInv' /\ UNCHANGED sends
  <2>1. FirstWord(c2s) \in UpTokens /\ UNCHANGED root0 /\ size \in Nat \union {NoSize}
    BY <1>0, CommandIs, CommandLeaves, FileTransferAssumption DEF Streams, UpTokens
  <2>2. IsStream(s2c', DownTokens) /\ sv' \in {"recv", "closed"}
    BY <1>0, <1>4, <2>1, AnswerIs DEF Streams
  <2>3. ServerOK'
    BY <1>0, <1>4, <2>1, <2>2, RefusedOK
  <2> QED
    BY <1>0, <1>4, <2>2, <2>3, HandlerInv
<1> QED
  BY <1>1, <1>2, <1>3, <1>4

LEMMA ExecStorInv ==
    ASSUME TransferInv, ExecStor
    PROVE  TransferInv' /\ UNCHANGED sends
<1> DEFINE f == FirstWord(c2s).name
           size == FirstWord(c2s).size
<1>0. Streams /\ ServerOK /\ Command("STOR")
  BY Parts DEF ExecStor
<1>1. \/ Refuse(BAD_FILE) \/ Refuse(COMMAND_NOT_IMPLEMENTED)
      \/ /\ f \in Parola /\ Answer(OK, NoSize, "stor") /\ root' = [root EXCEPT ![f] = <<>>]
         /\ job' = [name |-> f, size |-> size] /\ count' = 0
         /\ UNCHANGED sends
  BY AllowedIs DEF ExecStor
<1>2. CASE Refuse(BAD_FILE) \/ Refuse(COMMAND_NOT_IMPLEMENTED)
  BY <1>0, <1>2, RefuseInv
<1>3. CASE /\ f \in Parola /\ Answer(OK, NoSize, "stor") /\ root' = [root EXCEPT ![f] = <<>>]
           /\ job' = [name |-> f, size |-> size] /\ count' = 0
           /\ UNCHANGED sends
  <2>1. FirstWord(c2s) \in UpTokens /\ f \in Name /\ size \in 0..MaxFileSize /\ UNCHANGED root0
    BY <1>0, CommandIs, CommandLeaves, RequestIs DEF Streams, UpTokens
  <2>2. IsStream(s2c', DownTokens) /\ sv' \in {"stor", "closed"}
    BY <1>0, <1>3, <2>1, AnswerIs DEF Streams
  <2> HIDE DEF f, size
  <2>3. size \in Nat /\ <<>> \in Seq(UpTokens) /\ <<>> # Absent /\ Len(<<>>) = 0
    <3>1. <<>> \in Seq(DownTokens) /\ <<>> \in Seq(UpTokens) /\ Len(<<>>) = 0
      OBVIOUS
    <3>2. Absent \notin Seq(DownTokens) /\ MaxFileSize \in Nat
      BY FileTransferAssumption
    <3>3. size \in Nat
      BY <2>1, <3>2
    <3> QED
      BY <3>1, <3>2, <3>3
  <2>4. /\ job' \in [name : Name \union {""}, size : Nat]
        /\ job'.name = f /\ job'.size = size
    BY <1>3, <2>1, <2>3
  <2>5. count' \in 0..job'.size
    <3>1. count' = 0 /\ job'.size \in Nat
      BY <1>3, <2>3, <2>4
    <3> QED
      BY <3>1
  <2>6. /\ root \in [Name -> Seq(UpTokens) \union {Absent}]
        /\ \A g \in Name : root[g] # Absent => g \in Parola \/ root0[g] # Absent
        /\ root0 \in {start.root : start \in Starts}
    BY <1>0 DEF ServerOK
  <2>7. /\ root' \in [Name -> Seq(UpTokens) \union {Absent}]
        /\ root'[f] = <<>> /\ \A g \in Name \ {f} : root'[g] = root[g]
    BY <1>3, <2>1, <2>3, <2>6
  <2>8. \A g \in Name : root'[g] # Absent => g \in Parola \/ root0[g] # Absent
    BY <1>3, <2>6, <2>7
  <2>9. Len(root'[f]) = count' /\ root'[f] # Absent
    BY <1>3, <2>3, <2>7
  <2>10. ServerOK'
    BY <2>1, <2>2, <2>4, <2>5, <2>6, <2>7, <2>8, <2>9 DEF ServerOK
  <2> QED
    BY <1>0, <1>3, <2>2, <2>10, HandlerInv
<1> QED
  BY <1>1, <1>2, <1>3

LEMMA ExecQuitInv ==
    ASSUME TransferInv, ExecQuit
    PROVE  TransferInv' /\ UNCHANGED sends
<1>0. Streams /\ ServerOK /\ Command("QUIT") /\ Answer(OK, NoSize, "closed")
      /\ UNCHANGED <<job, count, root, sends>>
  BY Parts DEF ExecQuit
<1>1. FirstWord(c2s) \in UpTokens /\ UNCHANGED root0
  BY <1>0, CommandIs, CommandLeaves DEF Streams, UpTokens
<1>2. IsStream(s2c', DownTokens) /\ sv' \in {"recv", "closed"}
  BY <1>0, <1>1, AnswerIs DEF Streams
<1>3. ServerOK'
  BY <1>0, <1>1, <1>2, RefusedOK
<1> QED
  BY <1>0, <1>2, <1>3, HandlerInv

LEMMA ExecOtherInv ==
    ASSUME TransferInv, ExecOther
    PROVE  TransferInv' /\ UNCHANGED sends
<1>0. Streams /\ ClientOK /\ ServerOK
  BY Parts
<1>1. /\ HasLine(c2s) /\ sv = "recv" /\ c2s' = Drop(c2s, LineLength(c2s))
      /\ UNCHANGED <<conn, clVars, local, root0>>
  BY DEF ExecOther, fixed
<1>2. IsStream(c2s, UpTokens)
  BY <1>0 DEF Streams
<1>3. LineLength(c2s) \in 1..Len(c2s) /\ FirstWord(c2s) \in UpTokens
  BY <1>1, <1>2, PlainIsUp, LineIs
<1>4. LineLength(c2s) \in Nat /\ LineLength(c2s) <= Len(c2s)
  <2>1. Len(c2s) \in Nat
    BY <1>2, LenProperties DEF IsStream
  <2> QED
    BY <1>3, <2>1
<1>5. IsStream(c2s', UpTokens)
  BY <1>1, <1>2, <1>4, DropIs
<1>6. IsStream(s2c', DownTokens) /\ sv' \in {"recv", "closed"} /\ UNCHANGED <<job, count, root, sends>>
  <2>1. CASE UNCHANGED <<s2c, sv, job, count, root, sends>>
    BY <1>0, <1>1, <2>1 DEF Streams
  <2>2. CASE Refuse(COMMAND_NOT_IMPLEMENTED)
    BY <1>0, <1>3, <2>2, RefuseIs DEF Streams
  <2> QED
    BY <2>1, <2>2 DEF ExecOther
<1>7. Streams'
  BY <1>0, <1>1, <1>5, <1>6 DEF Streams
<1>8. ClientOK'
  BY <1>0, <1>1, ClientSame
<1>9. ServerOK'
  BY <1>0, <1>1, <1>6, RefusedOK
<1> QED
  BY <1>6, <1>7, <1>8, <1>9, PartsAfter

(* The loops of the server: a chunk sent, and a fragment stored.           *)

LEMMA RetrChunkIs ==
    ASSUME TransferInv, RetrChunk
    PROVE  TransferInv' /\ \E n \in 1..BufferSize : sends' = sends \union {n}
<1> DEFINE file == root[job.name]
           most == IF count = 0 THEN 1 ELSE BufferSize
           n == Smaller(most, Len(file) - count)
           chunk == SubSeq(file, count + 1, count + n)
<1>0. Streams /\ ClientOK /\ ServerOK /\ BufferSize \in Nat \ {0} /\ Absent \notin Seq(DownTokens)
  BY Parts, FileTransferAssumption
<1>1. /\ sv = "retr" /\ count < Len(file) /\ ServerSends(Payload(chunk), "retr")
      /\ count' = count + n /\ sends' = sends \union {n}
      /\ UNCHANGED <<c2s, conn, clVars, job, root, local, root0>>
  BY Zenon DEF RetrChunk, fixed
<1>2. /\ job.name \in Name /\ file \in Seq(UpTokens) /\ Len(file) = job.size
      /\ job \in [name : Name \union {""}, size : Nat] /\ count \in 0..job.size
  BY <1>0, <1>1 DEF ServerOK
<1>3. Len(file) \in Nat /\ count \in Nat
  <2>1. job.size \in Nat /\ count \in 0..job.size /\ Len(file) = job.size
    BY <1>2
  <2>2. count \in Nat
    BY <2>1
  <2> QED
    BY <2>1, <2>2
<1>4. n \in Nat /\ n # 0 /\ n <= BufferSize /\ count + n <= Len(file)
  <2>1. most \in Nat /\ most # 0 /\ most <= BufferSize
    BY <1>0
  <2>2. Len(file) - count \in Nat /\ Len(file) - count # 0
    BY <1>1, <1>3
  <2> HIDE DEF most, file
  <2>3. /\ n \in Nat /\ n <= most /\ n <= Len(file) - count
        /\ n \in {most, Len(file) - count}
    BY <2>1, <2>2, SmallerIs, Zenon
  <2> HIDE DEF n
  <2> QED
    BY <1>0, <1>3, <2>1, <2>2, <2>3
<1> HIDE DEF n, file
<1>5. chunk \in Seq(UpTokens)
  <2>1. count + n \in Nat /\ count <= count + n
    BY <1>3, <1>4
  <2> QED
    BY <1>2, <1>3, <1>4, <2>1, Piece
<1> HIDE DEF chunk
<1>6. IsStream(Payload(chunk), DownTokens)
  <2>1. IsStream(Payload(chunk), UpTokens)
    BY <1>5, PayloadIs
  <2>2. UpTokens \subseteq DownTokens
    BY DEF DownTokens
  <2> QED
    BY <2>1, <2>2, MoreStream, Zenon
<1>7. IsStream(s2c', DownTokens) /\ sv' \in {"retr", "closed"}
  BY <1>0, <1>1, <1>6, ServerSendsIs DEF Streams
<1>8. count' \in 0..job.size
  <2>1. count' = count + n /\ Len(file) = job.size
    BY <1>1, <1>2
  <2> QED
    BY <1>3, <1>4, <2>1
<1>9. Streams'
  BY <1>0, <1>1, <1>7 DEF Streams
<1>10. ClientOK'
  BY <1>0, <1>1, ClientSame
<1>11. ServerOK'
  BY <1>0, <1>1, <1>7, <1>8 DEF ServerOK
<1>12. n \in 1..BufferSize
  BY <1>0, <1>4
<1> QED
  BY <1>1, <1>9, <1>10, <1>11, <1>12, PartsAfter

LEMMA StorChunkInv ==
    ASSUME TransferInv, StorChunk
    PROVE  TransferInv' /\ UNCHANGED sends
<1> DEFINE size == Smaller(job.size - count, BufferSize)
           n == Received(c2s, size)
           piece == Tokens(SubSeq(c2s, 1, n))
<1>0. Streams /\ ClientOK /\ ServerOK /\ BufferSize \in Nat \ {0}
  BY Parts, FileTransferAssumption
<1>1. /\ sv = "stor" /\ count < job.size /\ c2s # <<>>
      /\ root' = [root EXCEPT ![job.name] = root[job.name] \o piece]
      /\ c2s' = Drop(c2s, n) /\ count' = count + n
      /\ UNCHANGED <<s2c, conn, clVars, sv, job, local, root0, sends>>
  BY DEF StorChunk, fixed
<1>2. /\ job.name \in Name /\ root[job.name] \in Seq(UpTokens) /\ Len(root[job.name]) = count
      /\ job.size \in Nat /\ count \in 0..job.size
      /\ root \in [Name -> Seq(UpTokens) \union {Absent}]
  BY <1>0, <1>1 DEF ServerOK
<1>3. IsStream(c2s, UpTokens) /\ c2s \in Seq(UpTokens \X BOOLEAN) /\ Len(c2s) \in Nat
  <2>1. IsStream(c2s, UpTokens) /\ c2s \in Seq(UpTokens \X BOOLEAN)
    BY <1>0 DEF Streams, IsStream
  <2> QED
    BY <2>1, LenProperties
<1>4. size \in Nat \ {0} /\ size <= job.size - count
  <2>1. job.size - count \in Nat \ {0} /\ BufferSize \in Nat
    BY <1>0, <1>1, <1>2
  <2>2. size \in Nat /\ size <= job.size - count /\ size \in {job.size - count, BufferSize}
    BY <2>1, SmallerIs, Zenon
  <2> QED
    BY <1>0, <2>1, <2>2
<1> HIDE DEF size
<1>5. n \in 1..size /\ n <= Len(c2s)
  BY <1>1, <1>3, <1>4, ReceivedIs
<1> HIDE DEF n
<1>6. n \in Nat /\ count + n \in 0..job.size
  <2>1. count \in Nat /\ job.size \in Nat
    BY <1>2
  <2>2. size \in Nat /\ n \in 1..size /\ size <= job.size - count
    BY <1>4, <1>5
  <2> QED
    BY <2>1, <2>2
<1>7. piece \in Seq(UpTokens) /\ Len(piece) = n
  <2>1. SubSeq(c2s, 0 + 1, n) \in Seq(UpTokens \X BOOLEAN) /\ Len(SubSeq(c2s, 0 + 1, n)) = n - 0
    BY <1>3, <1>5, <1>6, Piece
  <2>2. SubSeq(c2s, 1, n) \in Seq(UpTokens \X BOOLEAN) /\ Len(SubSeq(c2s, 1, n)) = n
    BY <1>6, <2>1
  <2> QED
    BY <2>2, TokensIs
<1> HIDE DEF piece
<1>8. root[job.name] \o piece \in Seq(UpTokens) /\ Len(root[job.name] \o piece) = count + n
  <2>1. /\ root[job.name] \o piece \in Seq(UpTokens)
        /\ Len(root[job.name] \o piece) = Len(root[job.name]) + Len(piece)
    BY <1>2, <1>7, ConcatProperties, Zenon
  <2> QED
    BY <1>2, <1>7, <2>1
<1>9. root[job.name] \o piece # Absent
  <2>1. UpTokens \subseteq DownTokens /\ Absent \notin Seq(DownTokens)
    BY FileTransferAssumption DEF DownTokens
  <2> QED
    BY <1>8, <2>1, SeqMonotonic
<1>10. IsStream(c2s', UpTokens)
  BY <1>1, <1>3, <1>5, <1>6, DropIs
<1>11. Streams'
  BY <1>0, <1>1, <1>10 DEF Streams
<1>12. ClientOK'
  BY <1>0, <1>1, ClientSame
<1>13. /\ root' \in [Name -> Seq(UpTokens) \union {Absent}]
       /\ root'[job.name] = root[job.name] \o piece
       /\ \A g \in Name \ {job.name} : root'[g] = root[g]
  BY <1>1, <1>2, <1>8
<1>14. \A g \in Name : root'[g] # Absent => g \in Parola \/ root0[g] # Absent
  BY <1>0, <1>1, <1>13 DEF ServerOK
<1>15. ServerOK'
  BY <1>0, <1>1, <1>6, <1>8, <1>9, <1>13, <1>14 DEF ServerOK
<1> QED
  BY <1>1, <1>11, <1>12, <1>15, PartsAfter

LEMMA ServerStops ==
    ASSUME TransferInv, RetrDone \/ StorDone \/ ServerRecvFails
    PROVE  TransferInv' /\ UNCHANGED sends
<1>0. Streams /\ ClientOK /\ ServerOK
  BY Parts
<1>1. /\ sv' \in {"recv", "closed"}
      /\ UNCHANGED <<c2s, s2c, conn, clVars, job, count, root, sends, local, root0>>
  BY DEF RetrDone, StorDone, ServerRecvFails, fixed
<1>2. Streams'
  BY <1>0, <1>1 DEF Streams
<1>3. ClientOK'
  BY <1>0, <1>1, ClientSame
<1>4. ServerOK'
  BY <1>0, <1>1, RefusedOK
<1> QED
  BY <1>1, <1>2, <1>3, <1>4, PartsAfter

LEMMA ServerStepInv ==
    ASSUME TransferInv, ServerStep
    PROVE  TransferInv'
BY ExecDeleInv, ExecListInv, ExecRetrInv, ExecStorInv, ExecQuitInv, ExecOtherInv,
   RetrChunkIs, StorChunkInv, ServerStops DEF ServerStep

-----------------------------------------------------------------------------
(* The connection.                                                         *)

LEMMA ConnectionInv ==
    ASSUME TransferInv, Close \/ Break
    PROVE  TransferInv'
<1>0. Streams /\ ClientOK /\ ServerOK
  BY Parts
<1>1. conn' = "down" /\ UNCHANGED <<clVars, svVars, local, root0>>
  BY DEF Close, Break, fixed
<1>2. Streams'
  <2>1. CASE Close
    BY <1>0, <2>1 DEF Close, Streams
  <2>2. CASE Break
    <3>1. /\ \E i \in {0} \union PayloadEnds(c2s) : c2s' = SubSeq(c2s, 1, i)
          /\ \E i \in {0} \union PayloadEnds(s2c) : s2c' = SubSeq(s2c, 1, i)
      BY <2>2 DEF Break
    <3>2. IsStream(c2s', UpTokens) /\ IsStream(s2c', DownTokens)
      BY <1>0, <3>1, CutIs DEF Streams
    <3> QED
      BY <1>1, <3>2 DEF Streams
  <2> QED
    BY <2>1, <2>2
<1>3. ClientOK'
  BY <1>0, <1>1, ClientSame
<1>4. ServerOK'
  BY <1>0, <1>1, ServerSame
<1> QED
  BY <1>2, <1>3, <1>4, PartsAfter

LEMMA TransferInvNext ==
    ASSUME TransferInv, [Next]_vars
    PROVE  TransferInv'
<1>1. CASE UNCHANGED vars
  <2>1. Streams'
    BY <1>1, Parts DEF vars, Streams
  <2>2. ClientOK' /\ ServerOK'
    <3>1. UNCHANGED <<clVars, svVars, local, root0>>
      BY <1>1 DEF vars, clVars, svVars
    <3> QED
      BY <3>1, Parts, ClientSame, ServerSame
  <2> QED
    BY <2>1, <2>2, PartsAfter
<1>2. CASE Next
  <2>1. CASE Done
    BY <1>1, <2>1 DEF Done
  <2> QED
    BY <1>2, <2>1, TypeInv, ClientStepInv, ServerStepInv, ConnectionInv DEF Next
<1> QED
  BY <1>1, <1>2

-----------------------------------------------------------------------------
(* Theorems                                                                *)

(* Whatever the user types, whatever goes wrong on his disk, whenever the  *)
(* connection breaks and however far the two programs are out of step:     *)
(* what a download has been announced is what the server has open, what an *)
(* upload has received is what it has stored, and no file gets into root/  *)
(* by a name that is not a parola.                                         *)
THEOREM TransferInvariant == Spec => []TransferInv
BY TransferInvInit, TransferInvNext, PTL DEF Spec

(* The types of FileTransfer, for all constants.                           *)
THEOREM TransferTypeCorrect == Spec => []TypeOK
BY TransferInvariant, PTL DEF TransferInv

(* An upload never makes a file longer than its request announced.         *)
THEOREM UploadsNeverOverrun == Spec => []NoOverrun
BY TransferInvariant, PTL DEF TransferInv

(* Nothing changes the files of the user or what may go wrong.             *)
LEMMA FixedStays ==
    ASSUME [Next]_vars
    PROVE  UNCHANGED fixed
<1>1. ASSUME NEW request, Ask(request) PROVE UNCHANGED fixed
  BY <1>1 DEF Ask
<1>2. ASSUME Type PROVE UNCHANGED fixed
  BY <1>1, <1>2 DEF Type, cmd_remote_list, cmd_quit, cmd_retr, cmd_dele, cmd_stor
<1>3. ASSUME TakeReply PROVE UNCHANGED fixed
  BY <1>3 DEF TakeReply
<1>4. ASSUME ClientStep PROVE UNCHANGED fixed
  <2>1. CASE ReplyToList \/ ReplyToRetr \/ ReplyToStor \/ ReplyToDele \/ ReplyToQuit
    BY <1>3, <2>1 DEF ReplyToList, ReplyToRetr, ReplyToStor, ReplyToDele, ReplyToQuit
  <2>2. CASE ClientReads \/ BodyDone \/ ClientRecvFails
    BY <2>2 DEF ClientReads, BodyDone, ClientRecvFails
  <2>3. CASE send_fragment
    BY <2>3, Zenon DEF send_fragment
  <2> QED
    BY <1>4, <2>1, <2>2, <2>3 DEF ClientStep
<1>5. ASSUME NEW cmd, Command(cmd) PROVE UNCHANGED fixed
  BY <1>5 DEF Command
<1>6. ASSUME ServerStep PROVE UNCHANGED fixed
  <2>1. CASE ExecDele \/ ExecList \/ ExecRetr \/ ExecStor \/ ExecQuit
    <3>1. \E cmd : Command(cmd)
      BY <2>1, Zenon DEF ExecDele, ExecList, ExecRetr, ExecStor, ExecQuit
    <3> QED
      BY <1>5, <3>1
  <2>2. CASE ExecOther
    BY <2>2, Zenon DEF ExecOther
  <2>3. CASE RetrChunk
    BY <2>3, Zenon DEF RetrChunk
  <2>4. CASE RetrDone \/ StorChunk \/ StorDone \/ ServerRecvFails
    BY <2>4, Zenon DEF RetrDone, StorChunk, StorDone, ServerRecvFails
  <2> QED
    BY <1>6, <2>1, <2>2, <2>3, <2>4 DEF ServerStep
<1>7. ASSUME Close \/ Break PROVE UNCHANGED fixed
  BY <1>7, Zenon DEF Close, Break
<1>8. ASSUME UNCHANGED vars PROVE UNCHANGED fixed
  BY <1>8 DEF vars, fixed
<1> QED
  BY <1>2, <1>4, <1>6, <1>7, <1>8 DEF Next, Done

(* A listing that fits the buffer, whatever root/ holds: what it may come  *)
(* to hold is what it held and the parolas.                                *)
ListingsFit ==
    \A start \in Starts :
        2 * Cardinality({f \in Name : f \in Parola \/ start.root[f] # Absent}) <= BufferSize

LEMMA BodiesFitNext ==
    ASSUME ListingsFit, TransferInv, sends \subseteq 1..BufferSize, [Next]_vars
    PROVE  sends' \subseteq 1..BufferSize
<1>1. CASE UNCHANGED sends
  BY <1>1
<1>2. CASE \E n \in 1..BufferSize : sends' = sends \union {n}
  BY <1>2
<1>3. CASE sends' = sends \union ({Len(Listing)} \ {0})
  <2> DEFINE S == {f \in Name : root[f] # Absent}
  <2>1. PICK start \in Starts : root0 = start.root
    BY DEF TransferInv
  <2> DEFINE T == {f \in Name : f \in Parola \/ start.root[f] # Absent}
  <2>2. S \in SUBSET T /\ IsFiniteSet(T)
    <3>1. S \in SUBSET T
      BY <2>1 DEF TransferInv
    <3>2. T \in SUBSET Name /\ IsFiniteSet(Name)
      BY FileTransferAssumption
    <3> QED
      BY <3>1, <3>2, FS_Subset
  <2>3. Cardinality(S) <= Cardinality(T) /\ Cardinality(T) \in Nat
    BY <2>2, FS_Subset, FS_CardinalityType
  <2>4. 2 * Cardinality(T) <= BufferSize
    BY DEF ListingsFit
  <2>5. Len(Listing) = 2 * Cardinality(S) /\ Cardinality(S) \in Nat
    BY ListingIs
  <2> HIDE DEF S, T
  <2>6. Len(Listing) \in Nat /\ Len(Listing) <= BufferSize /\ BufferSize \in Nat
    BY <2>3, <2>4, <2>5, FileTransferAssumption
  <2>7. {Len(Listing)} \ {0} \subseteq 1..BufferSize
    BY <2>6
  <2> QED
    BY <1>3, <2>7
<1>4. UNCHANGED sends \/ (\E n \in 1..BufferSize : sends' = sends \union {n})
      \/ sends' = sends \union ({Len(Listing)} \ {0})
  <2>1. CASE Type
    BY <2>1 DEF Type, cmd_remote_list, cmd_quit, cmd_retr, cmd_dele, cmd_stor, Ask
  <2>2. CASE ClientStep
    <3>1. CASE send_fragment
      BY <3>1, SendFragmentIs
    <3>2. CASE ~send_fragment
      BY <2>2, <3>2 DEF ClientStep, ReplyToList, ReplyToRetr, ReplyToStor, ReplyToDele,
         ReplyToQuit, TakeReply, ClientReads, BodyDone, ClientRecvFails
    <3> QED
      BY <3>1, <3>2
  <2>3. CASE ServerStep
    BY <2>3, ExecDeleInv, ExecListInv, ExecRetrInv, ExecStorInv, ExecQuitInv, ExecOtherInv,
       RetrChunkIs, StorChunkInv, ServerStops DEF ServerStep
  <2>4. CASE Close \/ Break \/ Done \/ UNCHANGED vars
    BY <2>4 DEF Close, Break, Done, vars
  <2> QED
    BY <2>1, <2>2, <2>3, <2>4 DEF Next
<1> QED
  BY <1>1, <1>2, <1>3, <1>4

LEMMA ShortNamesInit ==
    ASSUME Init
    PROVE  ShortNames
BY FileTransferAssumption DEF Init, ShortNames

LEMMA ShortNamesNext ==
    ASSUME ShortNames, [Next]_vars
    PROVE  ShortNames'
BY FixedStays DEF ShortNames, fixed

(* Requests without a name, or with one a file can have, fit.              *)
LEMMA ShortFits ==
    ASSUME NEW request, Extra(request) = 0
    PROVE  Fits(request)
<1>1. LineLimit \in Nat /\ LineLimit >= 5
  BY FileTransferAssumption
<1>2. 0 + 3 <= LineLimit
  BY <1>1
<1> QED
  BY <1>2, Zenon DEF Fits

LEMMA AskFits ==
    ASSUME NEW request, Ask(request), Fits(request) \/ "overlong" \in faults,
           oversize => "overlong" \in faults
    PROVE  (oversize => "overlong" \in faults)'
BY DEF Ask, Overruns, fixed

LEMMA RequestsFitNext ==
    ASSUME TransferInv, ShortNames, oversize => "overlong" \in faults, [Next]_vars
    PROVE  (oversize => "overlong" \in faults)'
<1>1. CASE Type
  <2>1. CASE cmd_remote_list \/ cmd_quit
    <3>1. \A cmd : Fits(Request(cmd, "", NoSize))
      BY ShortFits DEF Request, Extra
    <3> QED
      BY <2>1, <3>1, AskFits DEF cmd_remote_list, cmd_quit
  <2>2. ASSUME NEW f \in Name, cmd_retr(f) \/ cmd_dele(f)
        PROVE  (oversize => "overlong" \in faults)'
    <3>1. Fits(Request("RETR", f, NoSize)) <=> Fits(Request("DELE", f, NoSize))
      BY DEF Fits, Extra, Request
    <3> QED
      BY <2>2, <3>1, AskFits DEF cmd_retr, cmd_dele, Typeable
  <2>3. ASSUME NEW f \in Name, cmd_stor(f)
        PROVE  (oversize => "overlong" \in faults)'
    <3>1. local[f] # Absent /\ Ask(Request("STOR", f, Len(local[f])))
      BY <2>3 DEF cmd_stor
    <3>2. Fits(Request("STOR", f, Len(local[f])))
      BY <3>1, ShortFits DEF Request, Extra, ShortNames
    <3> QED
      BY <3>1, <3>2, AskFits
  <2> QED
    BY <1>1, <2>1, <2>2, <2>3 DEF Type
<1>2. CASE ClientStep
  <2>1. CASE send_fragment
    BY <2>1, FixedStays, Zenon DEF send_fragment, fixed
  <2>2. CASE ~send_fragment
    BY <1>2, <2>2, FixedStays DEF ClientStep, ReplyToList, ReplyToRetr, ReplyToStor, ReplyToDele,
       ReplyToQuit, TakeReply, ClientReads, BodyDone, ClientRecvFails, fixed
  <2> QED
    BY <2>1, <2>2
<1>3. CASE ServerStep
  <2>1. UNCHANGED clVars
    <3>1. CASE \E cmd : Command(cmd)
      BY <3>1 DEF Command
    <3>2. CASE ExecDele \/ ExecList \/ ExecRetr \/ ExecStor \/ ExecQuit
      BY <3>1, <3>2, Zenon DEF ExecDele, ExecList, ExecRetr, ExecStor, ExecQuit
    <3>3. CASE ExecOther \/ RetrChunk \/ RetrDone \/ StorChunk \/ StorDone \/ ServerRecvFails
      BY <3>3, Zenon DEF ExecOther, RetrChunk, RetrDone, StorChunk, StorDone, ServerRecvFails
    <3> QED
      BY <1>3, <3>2, <3>3 DEF ServerStep
  <2> QED
    BY <2>1, FixedStays DEF clVars, fixed
<1>4. CASE Close \/ Break \/ Done \/ UNCHANGED vars
  BY <1>4 DEF Close, Break, Done, vars, clVars, fixed
<1> QED
  BY <1>1, <1>2, <1>3, <1>4 DEF Next

(* What is passed to Crypto::send fits its buffer, provided that the       *)
(* largest listing does: fragments and chunks always fit, and a request    *)
(* does unless the user may type a name that no request can carry.         *)
THEOREM PayloadsFit ==
    ASSUME ListingsFit
    PROVE  Spec => []SendsFit
<1> DEFINE Inv == SendsFit /\ ShortNames
<1>1. Init => Inv
  BY ShortNamesInit DEF Init, SendsFit
<1>2. TransferInv /\ Inv /\ [Next]_vars => Inv'
  BY BodiesFitNext, RequestsFitNext, ShortNamesNext DEF SendsFit
<1>3. Inv => SendsFit
  OBVIOUS
<1> QED
  BY <1>1, <1>2, <1>3, TransferInvariant, PTL DEF Spec
=============================================================================
