--------------------------- MODULE HandshakeProofs ---------------------------
(***************************************************************************)
(* Proofs about Handshake for every set of certificates and every list of  *)
(* names: HandshakeInv is inductive, the peers agree on the keys, neither  *)
(* goes on with a peer that is turned down, and every step is one of the   *)
(* abstract key exchange.                                                  *)
(***************************************************************************)
EXTENDS Handshake, SequenceTheorems, TLAPS

-----------------------------------------------------------------------------
(* Lemmas about the operators of the model.                                *)

(* A torn string is no certificate, no signature and no nonce, and a       *)
(* signature is that of its signer and its text.                           *)
LEMMA TornIsTold ==
    ASSUME NEW s
    PROVE  /\ Torn(s)[1] = "torn" /\ IsTorn(Torn(s))
           /\ \A p : Torn(s) # Cert(p)
           /\ \A n : Torn(s) # Nonce(n)
           /\ \A p, text : Torn(s) # Sig(p, text)
BY DEF Torn, IsTorn, Cert, Nonce, Sig

LEMMA SigIsOf ==
    ASSUME NEW p, NEW q, NEW s, NEW t, Sig(p, s) = Sig(q, t)
    PROVE  p = q /\ s = t
<1>1. Sig(p, s)[2] = p /\ Sig(q, t)[2] = q /\ Sig(p, s)[3] = s /\ Sig(q, t)[3] = t
  BY DEF Sig
<1> QED
  BY <1>1

LEMMA SignedTextIsOf ==
    ASSUME NEW a1, NEW a2, NEW a3, NEW a4, NEW b1, NEW b2, NEW b3, NEW b4,
           SignedText(a1, a2, a3, a4) = SignedText(b1, b2, b3, b4)
    PROVE  a1 = b1 /\ a2 = b2 /\ a3 = b3 /\ a4 = b4
BY DEF SignedText

(* The places of a sequence of at least one string.                        *)
LEMMA Places ==
    ASSUME NEW n \in Nat
    PROVE  /\ n + 1 = 1 => n = 0
           /\ n + 1 = 2 => n = 1
           /\ n + 1 = 3 => n = 2
           /\ n + 1 = 6 => n = 5
OBVIOUS

LEMMA NotEmpty ==
    ASSUME NEW S, NEW s \in Seq(S), Len(s) >= 1
    PROVE  s # <<>>
OBVIOUS

LEMMA SixStrings ==
    ASSUME NEW S, NEW s1 \in S, NEW s2 \in S, NEW s3 \in S,
           NEW s4 \in S, NEW s5 \in S, NEW s6 \in S
    PROVE  /\ <<s1, s2, s3, s4, s5, s6>> \in Seq(S)
           /\ <<>> \o <<s1, s2, s3, s4, s5, s6>> = <<s1, s2, s3, s4, s5, s6>>
OBVIOUS

(* The strings of M2.                                                      *)
M2Text(nonce) == SignedText(Seal(Ks, user), Seal(Ka, user), Plain(Iv), nonce)

LEMMA M2Strings ==
    ASSUME NEW n
    PROVE  /\ M2(n) = <<Cert(host), Seal(Ks, user), Seal(Ka, user), Plain(Iv),
                        Sig(host, M2Text(n)), Nonce(Nb)>>
           /\ Len(M2(n)) = 6
BY DEF M2, M2Text

LEMMA ToClientStrings ==
    /\ ToClient(1) = Cert(host)
    /\ ToClient(2) = Seal(Ks, user) /\ ToClient(3) = Seal(Ka, user)
    /\ ToClient(4) = Plain(Iv)
    /\ ToClient(5) = Sig(host, M2Text(sgot[2]))
    /\ ToClient(6) = Nonce(Nb)
BY M2Strings DEF ToClient

(* Whatever a peer may send is of the right kind and in Text, torn or not. *)
LEMMA SentIsText ==
    ASSUME user \in Peer, host \in Peer, sgot[2] \in Nonces
    PROVE  \A i \in 1..6 : /\ ToClient(i) \in Text /\ Torn(ToClient(i)) \in Text
                           /\ ToClient(i)[1] = Kinds[i]
<1>1. \A i \in 1..6 : ToClient(i) \in Whole
  BY ToClientStrings DEF Whole, M2Text
<1>2. \A i \in 1..6 : ToClient(i)[1] = Kinds[i]
  BY ToClientStrings DEF Kinds, Cert, Seal, Plain, Sig, Nonce
<1> QED
  BY <1>1, <1>2 DEF Text

LEMMA NoncesAreText ==
    /\ Nonce(Na) \in Nonces /\ Torn(Nonce(Na)) \in Nonces
    /\ Nonce(Nb) \in Nonces /\ Torn(Nonce(Nb)) \in Nonces
    /\ Nonces \subseteq Text
    /\ \A p \in Peer : Cert(p) \in Text /\ \A n \in Nonces : Sig(p, n) \in Text
BY DEF Nonces, Text, Whole

-----------------------------------------------------------------------------
(* The initial state satisfies the invariant.                              *)
LEMMA InitInv == Init => HandshakeInv
<1> SUFFICES ASSUME Init PROVE HandshakeInv
  OBVIOUS
<1> USE DEF Init
<1>1. TypeOK
  BY DEF TypeOK
<1>2. Agreement /\ OnlyTrusted
  BY DEF Agreement, OnlyTrusted
<1>3. KeptInv /\ InFlightInv
  BY DEF KeptInv, InFlightInv
<1> QED
  BY <1>1, <1>2, <1>3 DEF HandshakeInv

-----------------------------------------------------------------------------
(* The client.                                                             *)

(* The string a client takes is the one the server sent for its place.     *)
LEMMA ClientTakesRight ==
    ASSUME HandshakeInv, NEW place \in 1..6, ClientTakes(place)
    PROVE  /\ place = Len(cgot) + 1 /\ Len(sgot) >= 2 /\ sgot[2] \in Nonces
           /\ Head(s2c) \in Text /\ Arrives(Head(s2c), ToClient(place))
           /\ s2c' \in Seq(Text) /\ Len(s2c') = Len(s2c) - 1
           /\ \A k \in 1..Len(s2c') : s2c'[k] = s2c[k + 1]
           /\ conn = "up" => s2c' \in Seq(Whole)
<1> USE DEF HandshakeInv, TypeOK
<1>1. /\ cl = "M2" /\ s2c # <<>> /\ s2c' = Tail(s2c) /\ place = Len(cgot) + 1
  BY DEF ClientTakes
<1>2. Len(sgot) >= 2 /\ Arrives(sgot[2], Nonce(Na))
  BY <1>1 DEF KeptInv
<1>3. sgot[2] \in Nonces
  BY <1>2, NoncesAreText DEF Arrives
<1>4. /\ Head(s2c) = s2c[1] /\ Head(s2c) \in Text
      /\ s2c' \in Seq(Text) /\ Len(s2c') = Len(s2c) - 1
      /\ \A k \in 1..Len(s2c') : s2c'[k] = s2c[k + 1]
  BY <1>1
<1>5. Arrives(s2c[1], ToClient(Len(cgot) + 1))
  BY <1>1 DEF InFlightInv
<1>6. conn = "up" => s2c' \in Seq(Whole)
  BY <1>1 DEF InFlightInv
<1> QED
  BY <1>1, <1>2, <1>3, <1>4, <1>5, <1>6

(* A client that keeps a string and reads on.                              *)
LEMMA ClientKeepsInv ==
    ASSUME HandshakeInv, NEW place \in 1..5, ClientTakes(place), ClientKeeps,
           place = 1 => VerifyCert(Head(s2c), Servers),
           UNCHANGED <<c2s, cl, ckeys>>
    PROVE  HandshakeInv'
<1> USE DEF HandshakeInv
<1>1. /\ place = Len(cgot) + 1 /\ Len(sgot) >= 2 /\ sgot[2] \in Nonces
      /\ Head(s2c) \in Text /\ Arrives(Head(s2c), ToClient(place))
      /\ s2c' \in Seq(Text) /\ Len(s2c') = Len(s2c) - 1
      /\ \A k \in 1..Len(s2c') : s2c'[k] = s2c[k + 1]
  BY ClientTakesRight
<1>0. conn = "up" => s2c' \in Seq(Whole)
  BY ClientTakesRight
<1>2. /\ cl = "M2" /\ UNCHANGED <<user, host, conn, sv, sgot, skeys>>
  BY DEF ClientTakes, svVars
<1>3. /\ cgot' \in Seq(Text) /\ Len(cgot') = place /\ cgot'[place] = Head(s2c)
      /\ \A i \in 1..Len(cgot) : cgot'[i] = cgot[i]
      /\ cgot \in Seq(Text) /\ Len(cgot) \in Nat
  BY <1>1 DEF ClientKeeps, TypeOK
<1>4. \A i : ToClient(i)' = ToClient(i)
  BY <1>2 DEF ToClient, M2
<1>5. \A i \in 1..Len(cgot') : Arrives(cgot'[i], ToClient(i))
  <2> SUFFICES ASSUME NEW i \in 1..Len(cgot') PROVE Arrives(cgot'[i], ToClient(i))
    OBVIOUS
  <2>1. CASE i = place
    BY <2>1, <1>1, <1>3
  <2>2. CASE i # place
    BY <2>2, <1>1, <1>3 DEF KeptInv
  <2> QED
    BY <2>1, <2>2
<1>6. \A i \in 1..Len(cgot') : cgot'[i][1] \in {Kinds[i], "torn"}
  <2> SUFFICES ASSUME NEW i \in 1..Len(cgot') PROVE cgot'[i][1] \in {Kinds[i], "torn"}
    OBVIOUS
  <2>1. i \in 1..6
    BY <1>1, <1>3
  <2>2. ToClient(i)[1] = Kinds[i]
    BY <1>1, <2>1, SentIsText, HandshakeAssumption DEF TypeOK
  <2>3. cgot'[i] \in {ToClient(i), Torn(ToClient(i))}
    BY <1>5 DEF Arrives
  <2> QED
    BY <2>2, <2>3, TornIsTold
<1>7. TypeOK'
  <2>1. cgot' \in Seq(Text) /\ Len(cgot') <= 6
    BY <1>3
  <2>2. UNCHANGED <<user, host, conn, cl, sv, c2s, sgot, ckeys, skeys>> /\ s2c' \in Seq(Text)
    BY <1>1, <1>2
  <2> QED
    BY <1>6, <2>1, <2>2 DEF TypeOK
<1>8. cgot'[1] = Cert(host) /\ VerifyCert(Cert(host), Servers)
  <2>1. CASE place = 1
    BY <2>1, <1>1, <1>3, TornIsTold, ToClientStrings DEF Arrives, VerifyCert
  <2>2. CASE place # 1
    BY <2>2, <1>1, <1>3 DEF KeptInv
  <2> QED
    BY <2>1, <2>2
<1>9. Agreement' /\ OnlyTrusted'
  BY <1>2 DEF Agreement, OnlyTrusted, Trusted, VerifyCert
<1>10. KeptInv'
  <2>1. \A i \in 1..Len(cgot') : Arrives(cgot[i], ToClient(i))'
    BY <1>2, <1>4, <1>5 DEF Arrives
  <2>2. Len(sgot') >= 2 => Arrives(sgot[2], Nonce(Na))'
    BY <1>2 DEF Arrives, KeptInv
  <2>3. /\ VerifyCert(Cert(user), Clients)' <=> VerifyCert(Cert(user), Clients)
        /\ VerifyCert(Cert(host), Servers)'
        /\ cgot'[1] = Cert(host)'
    BY <1>2, <1>8 DEF VerifyCert, IsTorn, Cert
  <2>4. sgot' # <<>> => sgot'[1] = Cert(user)' /\ VerifyCert(Cert(user), Clients)'
    BY <1>2, <2>3 DEF KeptInv, Cert
  <2>5. /\ Len(cgot') <= 5 /\ cl' = "M2" /\ Len(sgot') >= 2
        /\ skeys' = <<Ks, Ka, Iv>>
        /\ sv' = "M1" => Len(sgot') <= 1
        /\ sv' = "M3" => Len(sgot') = 2
    BY <1>1, <1>2, <1>3 DEF KeptInv
  <2> QED
    BY <2>1, <2>2, <2>3, <2>4, <2>5 DEF KeptInv
<1>11. InFlightInv'
  <2>1. \A k \in 1..Len(s2c') : Arrives(s2c[k], ToClient(Len(cgot) + k))'
    <3> SUFFICES ASSUME NEW k \in 1..Len(s2c')
                 PROVE  Arrives(s2c[k], ToClient(Len(cgot) + k))'
      OBVIOUS
    <3>1. k + 1 \in 1..Len(s2c)
      BY <1>1 DEF TypeOK
    <3>2. Arrives(s2c[k + 1], ToClient(Len(cgot) + (k + 1)))
      BY <1>2, <3>1 DEF InFlightInv
    <3>3. s2c'[k] = s2c[k + 1] /\ Len(cgot') + k = Len(cgot) + (k + 1)
      BY <1>1, <1>3
    <3>4. ToClient(Len(cgot) + k)' = ToClient(Len(cgot) + (k + 1))
      BY <3>3, <1>2 DEF ToClient, M2
    <3> QED
      BY <3>2, <3>3, <3>4, <1>2 DEF Arrives
  <2>2. sv \in {"M1", "M3"} => \A k \in 1..Len(c2s) : Arrives(c2s[k], ToServer(Len(sgot) + k))'
    <3> SUFFICES ASSUME sv \in {"M1", "M3"}, NEW k \in 1..Len(c2s)
                 PROVE  Arrives(c2s[k], ToServer(Len(sgot) + k))'
      OBVIOUS
    <3>1. Len(sgot) + k \in 1..2
      BY <1>2 DEF InFlightInv, TypeOK
    <3>2. ToServer(Len(sgot) + k)' = ToServer(Len(sgot) + k)
      BY <3>1, <1>2 DEF ToServer
    <3> QED
      BY <3>2, <1>2 DEF InFlightInv, Arrives
  <2>3. /\ Len(cgot') + Len(s2c') = Len(cgot) + Len(s2c)
        /\ Len(cgot') + Len(s2c') \in Nat
    BY <1>1, <1>3 DEF TypeOK
  <2>4. conn' = "up" => c2s' \in Seq(Whole) /\ s2c' \in Seq(Whole)
    BY <1>0, <1>2 DEF InFlightInv
  <2> QED
    BY <1>2, <2>1, <2>2, <2>3, <2>4 DEF InFlightInv
<1> QED
  BY <1>7, <1>9, <1>10, <1>11

(* A client that gives up, with or without a look at what came.            *)
LEMMA ClientGivesUpInv ==
    ASSUME HandshakeInv, cl = "M2" \/ (cl = "M1" /\ conn = "down"),
           cl' \in {"failed", "crashed"}, s2c' = s2c \/ (s2c # <<>> /\ s2c' = Tail(s2c)), s2c' \in Seq(Text),
           UNCHANGED <<user, host, c2s, conn, cgot, ckeys, sv, sgot, skeys>>
    PROVE  HandshakeInv'
<1> USE DEF HandshakeInv
<1>1. \A i : ToClient(i)' = ToClient(i) /\ ToServer(i)' = ToServer(i)
  BY DEF ToClient, ToServer, M2
<1>2. TypeOK'
  BY DEF TypeOK
<1>3. Agreement' /\ OnlyTrusted'
  BY DEF Agreement, OnlyTrusted, Trusted, VerifyCert
<1>4. KeptInv'
  <2>1. \A i \in 1..Len(cgot) : Arrives(cgot[i], ToClient(i))'
    BY <1>1 DEF Arrives, KeptInv
  <2>2. s2c' # <<>> => s2c # <<>>
    BY DEF TypeOK
  <2> QED
    BY <2>1, <2>2 DEF KeptInv, VerifyCert, IsTorn, Arrives
<1>5. InFlightInv'
  <2>1. \A k \in 1..Len(c2s) : ToServer(Len(sgot) + k)' = ToServer(Len(sgot) + k)
    BY DEF ToServer
  <2>2. conn' = "up" => c2s' \in Seq(Whole) /\ s2c' \in Seq(Whole)
    <3> SUFFICES ASSUME conn = "up"
                 PROVE  c2s' \in Seq(Whole) /\ s2c' \in Seq(Whole)
      OBVIOUS
    <3>1. c2s \in Seq(Whole) /\ s2c \in Seq(Whole)
      BY DEF InFlightInv
    <3>2. s2c # <<>> => Tail(s2c) \in Seq(Whole)
      BY <3>1, HeadTailProperties
    <3> QED
      BY <3>1, <3>2
  <2> QED
    BY <2>1, <2>2 DEF InFlightInv, TypeOK, Arrives
<1> QED
  BY <1>2, <1>3, <1>4, <1>5

(* M1 is all that the client has sent, or it is lost.                      *)
LEMMA ClientM1Inv ==
    ASSUME HandshakeInv, ClientM1
    PROVE  HandshakeInv'
<1> USE DEF HandshakeInv
<1>1. /\ cl = "M1" /\ UNCHANGED <<user, host, s2c, conn, cgot, ckeys, sv, sgot, skeys>>
      /\ c2s = <<>> /\ sgot = <<>> /\ cgot = <<>> /\ s2c = <<>>
  BY DEF ClientM1, svVars, KeptInv, TypeOK
<1>2. CASE cl' = "failed" /\ c2s' = c2s /\ conn = "down"
  BY <1>1, <1>2, ClientGivesUpInv DEF TypeOK
<1>3. CASE /\ cl' = "M2"
           /\ \/ conn = "up" /\ c2s' = <<Cert(user), Nonce(Na)>>
              \/ conn = "down" /\ c2s' = <<>>
  <2>1. c2s' \in Seq(Text)
    <3>1. Cert(user) \in Text /\ Nonce(Na) \in Text
      BY NoncesAreText, HandshakeAssumption DEF TypeOK
    <3>2. <<Cert(user), Nonce(Na)>> \in Seq(Text) /\ <<>> \in Seq(Text)
      BY <3>1
    <3> QED
      BY <1>3, <3>2
  <2>6. conn' = "up" => c2s' \in Seq(Whole) /\ s2c' \in Seq(Whole)
    <3>1. Cert(user) \in Whole /\ Nonce(Na) \in Whole
      BY HandshakeAssumption DEF TypeOK, Whole
    <3>2. <<Cert(user), Nonce(Na)>> \in Seq(Whole) /\ <<>> \in Seq(Whole)
      BY <3>1
    <3> QED
      BY <1>1, <1>3, <3>2
  <2>2. TypeOK'
    BY <1>1, <1>3, <2>1 DEF TypeOK
  <2>3. Agreement' /\ OnlyTrusted'
    BY <1>1, <1>3 DEF Agreement, OnlyTrusted
  <2>4. KeptInv'
    BY <1>1, <1>3 DEF KeptInv
  <2>5. \A k \in 1..Len(c2s') : Arrives(c2s[k], ToServer(Len(sgot) + k))'
    BY <1>1, <1>3 DEF Arrives, ToServer
  <2> QED
    BY <1>1, <1>3, <2>2, <2>3, <2>4, <2>5, <2>6 DEF InFlightInv
<1>4. ClientSends(<<Cert(user), Nonce(Na)>>, "M2")
  BY DEF ClientM1
<1>5. c2s \o <<Cert(user), Nonce(Na)>> = <<Cert(user), Nonce(Na)>>
  BY <1>1
<1> QED
  BY <1>1, <1>2, <1>3, <1>4, <1>5 DEF ClientSends

(* The signature of M2 is right only if no string before it is torn and    *)
(* the server got the client's nonce: then the keys are the server's.      *)
LEMMA SignatureTells ==
    ASSUME HandshakeInv, Len(cgot) = 5,
           cgot[5] = Sig(cgot[1][2], SignedText(cgot[2], cgot[3], cgot[4], Nonce(Na)))
    PROVE  Opened(cgot) = <<Ks, Ka, Iv>> /\ Len(sgot) >= 2
<1>1. \A i \in 1..5 : Arrives(cgot[i], ToClient(i))
  BY DEF HandshakeInv, KeptInv
<1>2. cgot[5] = ToClient(5)
  BY <1>1, TornIsTold DEF Arrives
<1>3. SignedText(cgot[2], cgot[3], cgot[4], Nonce(Na)) = M2Text(sgot[2])
  <2> DEFINE text == SignedText(cgot[2], cgot[3], cgot[4], Nonce(Na))
             sent == M2Text(sgot[2])
             who  == cgot[1][2]
  <2>1. Sig(who, text) = Sig(host, sent)
    BY <1>2, ToClientStrings
  <2> HIDE DEF text, sent, who
  <2>2. text = sent
    BY <2>1, SigIsOf
  <2> QED
    BY <2>2 DEF text, sent
<1>4. cgot[2] = Seal(Ks, user) /\ cgot[3] = Seal(Ka, user) /\ cgot[4] = Plain(Iv)
  BY <1>3, SignedTextIsOf DEF M2Text
<1>5. Len(sgot) >= 2
  <2>1. cgot # <<>>
    OBVIOUS
  <2> QED
    BY <2>1 DEF HandshakeInv, KeptInv
<1> QED
  BY <1>4, <1>5 DEF Opened, Open, Seal, Plain

(* While the connection is up nothing is torn, and the signature is right. *)
LEMMA SignatureHolds ==
    ASSUME HandshakeInv, Len(cgot) = 5, conn = "up"
    PROVE  cgot[5] = Sig(cgot[1][2], SignedText(cgot[2], cgot[3], cgot[4], Nonce(Na)))
<1>1. \A i \in 1..5 : cgot[i] = ToClient(i)
  BY DEF HandshakeInv, KeptInv, Arrives
<1>2. Len(sgot) >= 2 /\ sgot[2] = Nonce(Na)
  <2>1. cgot # <<>>
    OBVIOUS
  <2> QED
    BY <2>1 DEF HandshakeInv, KeptInv, Arrives
<1>3. cgot[1][2] = host
  BY <1>1, ToClientStrings DEF Cert
<1> QED
  BY <1>1, <1>2, <1>3, ToClientStrings DEF M2Text

(* The last string of M2: the client agrees and sends M3, or gives up.     *)
LEMMA RecvServerNonceInv ==
    ASSUME HandshakeInv, RecvServerNonce
    PROVE  HandshakeInv'
<1> USE DEF HandshakeInv
<1>0. ClientTakes(6) /\ ClientKeeps
  BY DEF RecvServerNonce
<1>1. /\ Len(cgot) = 5 /\ Len(sgot) >= 2 /\ sgot[2] \in Nonces
      /\ Head(s2c) \in Text /\ Arrives(Head(s2c), ToClient(6))
      /\ s2c' \in Seq(Text) /\ (conn = "up" => s2c' \in Seq(Whole))
  <2>1. 6 \in 1..6 /\ cgot \in Seq(Text)
    BY DEF TypeOK
  <2>2. Len(cgot) + 1 = 6
    BY <1>0 DEF ClientTakes
  <2>3. /\ Len(sgot) >= 2 /\ sgot[2] \in Nonces
        /\ Head(s2c) \in Text /\ Arrives(Head(s2c), ToClient(6))
        /\ s2c' \in Seq(Text) /\ (conn = "up" => s2c' \in Seq(Whole))
    BY <1>0, <2>1, ClientTakesRight, Zenon
  <2>4. Len(cgot) = 5
    <3>1. Len(cgot) \in Nat
      BY <2>1, LenProperties
    <3> DEFINE n == Len(cgot)
    <3>2. n \in Nat /\ n + 1 = 6
      BY <3>1, <2>2
    <3> HIDE DEF n
    <3>3. n = 5
      BY <3>2
    <3> QED
      BY <3>3 DEF n
  <2> QED
    BY <2>3, <2>4
<1>2. /\ cl = "M2" /\ UNCHANGED <<user, host, conn, sv, sgot, skeys>>
  BY <1>0 DEF ClientTakes, svVars
<1>3. /\ cgot' \in Seq(Text) /\ Len(cgot') = 6 /\ cgot'[6] = Head(s2c)
      /\ \A i \in 1..5 : cgot'[i] = cgot[i]
      /\ cgot \in Seq(Text)
  <2>1. cgot \in Seq(Text) /\ cgot' = Append(cgot, Head(s2c))
    BY <1>0 DEF ClientKeeps, TypeOK
  <2>2. /\ cgot' \in Seq(Text) /\ Len(cgot') = Len(cgot) + 1
        /\ cgot'[Len(cgot) + 1] = Head(s2c)
        /\ \A i \in 1..Len(cgot) : cgot'[i] = cgot[i]
    <3>1. cgot \in Seq(Text) /\ Head(s2c) \in Text
      BY <2>1, <1>1
    <3>2. /\ Append(cgot, Head(s2c)) \in Seq(Text)
          /\ Len(Append(cgot, Head(s2c))) = Len(cgot) + 1
          /\ Append(cgot, Head(s2c))[Len(cgot) + 1] = Head(s2c)
          /\ \A i \in 1..Len(cgot) : Append(cgot, Head(s2c))[i] = cgot[i]
      BY <3>1, AppendProperties
    <3> QED
      BY <2>1, <3>2
  <2>3. Len(cgot) + 1 = 6 /\ Len(cgot) = 5
    BY <1>1
  <2> QED
    BY <2>1, <2>2, <2>3
<1>4. /\ \A i : ToClient(i)' = ToClient(i)
      /\ \A i \in 1..2 : ToServer(i)' = ToServer(i)
      /\ ToServer(3)' = Sig(user, Head(s2c))
  BY <1>2, <1>3 DEF ToClient, M2, ToServer
<1>5. \A i \in 1..6 : Arrives(cgot'[i], ToClient(i))
  <2> SUFFICES ASSUME NEW i \in 1..6 PROVE Arrives(cgot'[i], ToClient(i))
    OBVIOUS
  <2>1. CASE i = 6
    BY <2>1, <1>1, <1>3
  <2>2. CASE i \in 1..5
    BY <2>2, <1>1, <1>3 DEF KeptInv
  <2> QED
    BY <2>1, <2>2
<1>6. \A i \in 1..6 : cgot'[i][1] \in {Kinds[i], "torn"}
  <2> SUFFICES ASSUME NEW i \in 1..6 PROVE cgot'[i][1] \in {Kinds[i], "torn"}
    OBVIOUS
  <2>1. ToClient(i)[1] = Kinds[i]
    BY <1>1, SentIsText, HandshakeAssumption DEF TypeOK
  <2>2. cgot'[i] \in {ToClient(i), Torn(ToClient(i))}
    BY <1>5 DEF Arrives
  <2> QED
    BY <2>1, <2>2, TornIsTold
<1>7. \/ /\ cl' = "failed" /\ c2s' = c2s /\ ckeys' \in {ckeys, <<Ks, Ka, Iv>>}
      \/ /\ cl' = "secured" /\ ckeys' = <<Ks, Ka, Iv>>
         /\ \/ conn = "up" /\ c2s' = Append(c2s, Sig(user, Head(s2c)))
            \/ conn = "down" /\ c2s' = c2s
  <2>1. CASE cgot[5] = Sig(cgot[1][2], SignedText(cgot[2], cgot[3], cgot[4], Nonce(Na)))
    <3>1. ckeys' = <<Ks, Ka, Iv>> /\ ClientSends(<<Sig(user, Head(s2c))>>, "secured")
      BY <2>1, <1>1, SignatureTells DEF RecvServerNonce
    <3>2. c2s \o <<Sig(user, Head(s2c))>> = Append(c2s, Sig(user, Head(s2c)))
      BY DEF TypeOK
    <3> QED
      BY <3>1, <3>2 DEF ClientSends
  <2>2. CASE cgot[5] # Sig(cgot[1][2], SignedText(cgot[2], cgot[3], cgot[4], Nonce(Na)))
    BY <2>2 DEF RecvServerNonce
  <2> QED
    BY <2>1, <2>2
<1>8. c2s' \in Seq(Text) /\ (conn = "up" => c2s' \in Seq(Whole))
  <2>1. Head(s2c) \in Nonces
    BY <1>1, ToClientStrings, NoncesAreText DEF Arrives
  <2>2. Sig(user, Head(s2c)) \in Whole /\ Sig(user, Head(s2c)) \in Text
    BY <2>1, NoncesAreText, HandshakeAssumption DEF TypeOK, Whole
  <2>3. c2s \in Seq(Text) /\ Append(c2s, Sig(user, Head(s2c))) \in Seq(Text)
    BY <2>2 DEF TypeOK
  <2>4. CASE conn = "up"
    <3>1. c2s \in Seq(Whole) /\ Append(c2s, Sig(user, Head(s2c))) \in Seq(Whole)
      BY <2>2, <2>4 DEF InFlightInv
    <3> QED
      BY <1>7, <2>3, <3>1
  <2>5. CASE conn # "up"
    BY <1>7, <2>3, <2>5
  <2> QED
    BY <2>4, <2>5
<1>9. TypeOK'
  BY <1>1, <1>2, <1>3, <1>6, <1>7, <1>8 DEF TypeOK
<1>10. skeys = <<Ks, Ka, Iv>>
  BY <1>1 DEF KeptInv
<1>11. /\ VerifyCert(Cert(user), Clients) /\ VerifyCert(Cert(host), Servers)
       /\ cgot[1] = Cert(host) /\ sgot[1] = Cert(user)
  <2>1. Len(cgot) = 5
    BY <1>1
  <2>2. cgot # <<>>
    BY <2>1
  <2>3. Len(sgot) >= 2
    BY <1>1
  <2>4. sgot # <<>>
    BY <2>3
  <2> QED
    BY <2>2, <2>4 DEF KeptInv
<1>12. Agreement' /\ OnlyTrusted'
  BY <1>2, <1>7, <1>10, <1>11, HandshakeAssumption
     DEF Agreement, OnlyTrusted, Trusted, VerifyCert, Cert, IsTorn
<1>13. KeptInv'
  <2>1. \A i \in 1..Len(cgot') : Arrives(cgot[i], ToClient(i))'
    BY <1>2, <1>3, <1>4, <1>5 DEF Arrives
  <2>2. Arrives(sgot[2], Nonce(Na))'
    BY <1>1, <1>2 DEF Arrives, KeptInv
  <2>3. /\ VerifyCert(Cert(user), Clients)' /\ VerifyCert(Cert(host), Servers)'
        /\ cgot'[1] = Cert(host)' /\ sgot'[1] = Cert(user)'
    <3>1. cgot'[1] = cgot[1] /\ sgot' = sgot /\ user' = user /\ host' = host
      BY <1>2, <1>3
    <3>2. Cert(user)' = Cert(user) /\ Cert(host)' = Cert(host)
      BY <3>1 DEF Cert
    <3>3. VerifyCert(Cert(user), Clients)' /\ VerifyCert(Cert(host), Servers)'
      BY <3>2, <1>11 DEF VerifyCert, IsTorn
    <3> QED
      BY <3>1, <3>2, <3>3, <1>11
  <2>4. /\ skeys' = <<Ks, Ka, Iv>> /\ Len(sgot') >= 2 /\ Len(cgot') = 6
        /\ cl' \in {"failed", "secured"}
        /\ sv' = "M1" => Len(sgot') <= 1
        /\ sv' = "M3" => Len(sgot') = 2
    BY <1>1, <1>2, <1>3, <1>7, <1>10 DEF KeptInv
  <2> QED
    BY <2>1, <2>2, <2>3, <2>4 DEF KeptInv
<1>14. InFlightInv'
  <2> SUFFICES ASSUME sv \in {"M1", "M3"}
               PROVE  /\ Len(sgot') + Len(c2s') <= IF cl' = "secured" THEN 3 ELSE 2
                      /\ conn' = "up" => Len(sgot') + Len(c2s')
                                           = IF cl' = "secured" THEN 3 ELSE 2
                      /\ \A k \in 1..Len(c2s') : Arrives(c2s[k], ToServer(Len(sgot) + k))'
    BY <1>1, <1>2, <1>7, <1>8 DEF InFlightInv
  <2>1. /\ Len(sgot) + Len(c2s) <= 2
        /\ conn = "up" => Len(sgot) + Len(c2s) = 2
        /\ \A k \in 1..Len(c2s) : Arrives(c2s[k], ToServer(Len(sgot) + k))
    BY <1>2 DEF InFlightInv
  <2>2. Len(sgot) \in Nat /\ Len(c2s) \in Nat
    BY DEF TypeOK
  <2>3. \A k \in 1..Len(c2s) :
            /\ Len(sgot) + k \in 1..2
            /\ ToServer(Len(sgot) + k)' = ToServer(Len(sgot) + k)
            /\ Arrives(c2s[k], ToServer(Len(sgot) + k))
    BY <2>1, <2>2, <1>1, <1>2, <1>4 DEF ToServer
  <2>4. CASE c2s' = c2s /\ (conn = "down" \/ cl' = "failed")
    <3>1. \A k \in 1..Len(c2s') : Arrives(c2s[k], ToServer(Len(sgot) + k))'
      BY <2>3, <2>4, <1>2 DEF Arrives
    <3> QED
      BY <2>1, <2>2, <2>4, <3>1, <1>2, <1>7
  <2>5. CASE cl' = "secured" /\ conn = "up" /\ c2s' = Append(c2s, Sig(user, Head(s2c)))
    <3>1. Len(c2s') = Len(c2s) + 1 /\ c2s'[Len(c2s) + 1] = Sig(user, Head(s2c))
      BY <2>5 DEF TypeOK
    <3>2. Len(sgot) + (Len(c2s) + 1) = 3
      BY <2>1, <2>2, <2>5
    <3>3. ASSUME NEW k \in 1..Len(c2s')
          PROVE  Arrives(c2s[k], ToServer(Len(sgot) + k))'
      <4>1. CASE k \in 1..Len(c2s)
        <5>1. c2s'[k] = c2s[k]
          BY <2>5, <4>1 DEF TypeOK
        <5> QED
          BY <5>1, <2>3, <4>1, <1>2 DEF Arrives
      <4>2. CASE k = Len(c2s) + 1
        <5>1. Len(sgot') + k = 3
          BY <4>2, <3>2, <1>2
        <5>2. ToServer(Len(sgot) + k)' = Sig(user, Head(s2c))
          BY <5>1, <1>4 DEF ToServer
        <5> QED
          BY <4>2, <5>2, <3>1 DEF Arrives
      <4> QED
        BY <4>1, <4>2, <3>1, <2>2
    <3> QED
      BY <2>5, <3>1, <3>2, <3>3, <1>2
  <2> QED
    BY <1>7, <2>4, <2>5
<1> QED
  BY <1>9, <1>12, <1>13, <1>14

-----------------------------------------------------------------------------
(* The server.                                                             *)

(* The string a server takes is the one the client sent for its place.     *)
LEMMA ServerTakesRight ==
    ASSUME HandshakeInv, NEW phase \in {"M1", "M3"}, NEW place \in 1..3,
           ServerTakes(phase, place)
    PROVE  /\ place = Len(sgot) + 1 /\ Len(sgot) \in Nat /\ cl # "M1"
           /\ Head(c2s) \in Text /\ Arrives(Head(c2s), ToServer(place))
           /\ c2s' \in Seq(Text) /\ Len(c2s') = Len(c2s) - 1
           /\ \A k \in 1..Len(c2s') : c2s'[k] = c2s[k + 1]
           /\ conn = "up" => c2s' \in Seq(Whole)
           /\ place = 3 => cl = "secured"
<1> USE DEF HandshakeInv
<1>1. /\ sv = phase /\ c2s # <<>> /\ c2s' = Tail(c2s) /\ place = Len(sgot) + 1
  BY DEF ServerTakes
<1>2. c2s \in Seq(Text) /\ Len(sgot) \in Nat /\ Len(c2s) \in Nat /\ Len(c2s) >= 1
  BY <1>1 DEF TypeOK
<1>3. cl # "M1"
  BY <1>1 DEF KeptInv
<1>4. /\ Head(c2s) = c2s[1] /\ Head(c2s) \in Text
      /\ c2s' \in Seq(Text) /\ Len(c2s') = Len(c2s) - 1
      /\ \A k \in 1..Len(c2s') : c2s'[k] = c2s[k + 1]
  BY <1>1, <1>2
<1>5. Arrives(c2s[1], ToServer(Len(sgot) + 1))
  BY <1>1, <1>2 DEF InFlightInv
<1>6. conn = "up" => c2s' \in Seq(Whole)
  BY <1>1 DEF InFlightInv
<1>7. place = 3 => cl = "secured"
  BY <1>1, <1>2 DEF InFlightInv
<1> QED
  BY <1>1, <1>2, <1>3, <1>4, <1>5, <1>6, <1>7

(* A server that gives up, with or without a look at what came.            *)
LEMMA ServerGivesUpInv ==
    ASSUME HandshakeInv, sv \in {"M1", "M3"}, sv' = "failed",
           c2s' = c2s \/ (c2s # <<>> /\ c2s' = Tail(c2s)),
           UNCHANGED <<user, host, s2c, conn, cl, cgot, ckeys, sgot, skeys>>
    PROVE  HandshakeInv'
<1> USE DEF HandshakeInv
<1>1. \A i : ToClient(i)' = ToClient(i)
  BY DEF ToClient, M2
<1>2. c2s' \in Seq(Text) /\ (conn = "up" => c2s' \in Seq(Whole))
  <2>1. c2s \in Seq(Text) /\ (conn = "up" => c2s \in Seq(Whole))
    BY DEF TypeOK, InFlightInv
  <2>2. c2s # <<>> => Tail(c2s) \in Seq(Text)
    BY <2>1, HeadTailProperties
  <2>3. c2s # <<>> /\ conn = "up" => Tail(c2s) \in Seq(Whole)
    BY <2>1, HeadTailProperties
  <2> QED
    BY <2>1, <2>2, <2>3
<1>3. TypeOK'
  BY <1>2 DEF TypeOK
<1>4. Agreement' /\ OnlyTrusted'
  BY DEF Agreement, OnlyTrusted, Trusted, VerifyCert
<1>5. KeptInv'
  <2>1. \A i \in 1..Len(cgot) : Arrives(cgot[i], ToClient(i))'
    BY <1>1 DEF Arrives, KeptInv
  <2>2. cl = "M1" => c2s' = <<>> /\ sgot = <<>>
    BY DEF KeptInv
  <2> QED
    BY <2>1, <2>2 DEF KeptInv, VerifyCert, IsTorn, Arrives
<1>6. InFlightInv'
  <2>1. \A k \in 1..Len(s2c) : ToClient(Len(cgot) + k)' = ToClient(Len(cgot) + k)
    BY DEF ToClient, M2
  <2> QED
    BY <1>2, <2>1 DEF InFlightInv, Arrives
<1> QED
  BY <1>3, <1>4, <1>5, <1>6

(* The strings that follow the one a server took stay where they are.      *)
LEMMA StillInFlight ==
    ASSUME HandshakeInv, sv \in {"M1", "M3"}, c2s # <<>>, c2s' = Tail(c2s),
           sgot' = Append(sgot, Head(c2s)), UNCHANGED <<user, cgot, conn>>,
           cl = "secured" \/ Len(sgot) <= 1
    PROVE  /\ Len(sgot') + Len(c2s') = Len(sgot) + Len(c2s)
           /\ \A k \in 1..Len(c2s') : Arrives(c2s[k], ToServer(Len(sgot) + k))'
<1> USE DEF HandshakeInv
<1>1. /\ c2s \in Seq(Text) /\ sgot \in Seq(Text) /\ Len(c2s) \in Nat /\ Len(sgot) \in Nat
      /\ Head(c2s) \in Text
  BY DEF TypeOK
<1>2. /\ Len(sgot') = Len(sgot) + 1 /\ Len(c2s') = Len(c2s) - 1
      /\ \A k \in 1..Len(c2s') : c2s'[k] = c2s[k + 1]
  BY <1>1
<1>3. ASSUME NEW k \in 1..Len(c2s')
      PROVE  Arrives(c2s[k], ToServer(Len(sgot) + k))'
  <2>1. k + 1 \in 1..Len(c2s) /\ c2s'[k] = c2s[k + 1]
    BY <1>1, <1>2
  <2>2. Arrives(c2s[k + 1], ToServer(Len(sgot) + (k + 1)))
    BY <2>1 DEF InFlightInv
  <2>3. Len(sgot') + k = Len(sgot) + (k + 1)
    BY <1>1, <1>2
  <2>4. ToServer(Len(sgot) + k)' = ToServer(Len(sgot) + (k + 1))
    BY <2>3 DEF ToServer, Cert
  <2> QED
    BY <2>1, <2>2, <2>4 DEF Arrives
<1> QED
  BY <1>1, <1>2, <1>3

(* The client's certificate is kept if it is good.                         *)
LEMMA RecvClientCertInv ==
    ASSUME HandshakeInv, RecvClientCert
    PROVE  HandshakeInv'
<1> USE DEF HandshakeInv
<1>1. /\ ServerTakes("M1", 1) /\ sv = "M1"
      /\ UNCHANGED <<user, host, s2c, conn, cl, cgot, ckeys, skeys>>
      /\ c2s # <<>> /\ c2s' = Tail(c2s)
  BY DEF RecvClientCert, ServerTakes, clVars
<1>2. CASE ~VerifyCert(Head(c2s), Clients)
  BY <1>1, <1>2, ServerGivesUpInv DEF RecvClientCert
<1>3. CASE VerifyCert(Head(c2s), Clients)
  <2>1. sgot' = Append(sgot, Head(c2s)) /\ sv' = "M1"
    BY <1>1, <1>3 DEF RecvClientCert
  <2>2. /\ Len(sgot) = 0 /\ cl # "M1" /\ Head(c2s) \in Text
        /\ Arrives(Head(c2s), ToServer(1)) /\ c2s' \in Seq(Text)
    <3>1. 1 = Len(sgot) + 1 /\ Len(sgot) \in Nat
      BY <1>1, ServerTakesRight
    <3>2. /\ cl # "M1" /\ Head(c2s) \in Text
          /\ Arrives(Head(c2s), ToServer(1)) /\ c2s' \in Seq(Text)
      BY <1>1, ServerTakesRight
    <3> QED
      BY <3>1, <3>2
  <2>3. conn = "up" => c2s' \in Seq(Whole)
    BY <1>1, ServerTakesRight
  <2>4. Head(c2s) = Cert(user) /\ VerifyCert(Cert(user), Clients)
    BY <1>3, <2>2, TornIsTold DEF Arrives, VerifyCert, ToServer
  <2>5. sgot = <<>> /\ sgot' = <<Cert(user)>> /\ sgot' \in Seq(Text) /\ Len(sgot') = 1
    BY <2>1, <2>2, <2>4 DEF TypeOK
  <2>6. cgot = <<>> /\ s2c = <<>> /\ cl # "secured" /\ Len(cgot) = 0 /\ Len(s2c) = 0
    BY <2>2 DEF KeptInv
  <2>7. TypeOK'
    BY <1>1, <2>1, <2>2, <2>5 DEF TypeOK
  <2>8. Agreement' /\ OnlyTrusted'
    BY <1>1, <2>1, <2>6 DEF Agreement, OnlyTrusted
  <2>9. KeptInv'
    <3>1. sgot'[1] = Cert(user)' /\ VerifyCert(Cert(user), Clients)'
      BY <1>1, <2>4, <2>5 DEF VerifyCert, IsTorn, Cert
    <3>2. skeys = NoKeys
      BY <2>2 DEF KeptInv
    <3> QED
      BY <1>1, <2>1, <2>2, <2>5, <2>6, <3>1, <3>2 DEF KeptInv
  <2>10. InFlightInv'
    <3>1. /\ Len(sgot') + Len(c2s') = Len(sgot) + Len(c2s)
          /\ \A k \in 1..Len(c2s') : Arrives(c2s[k], ToServer(Len(sgot) + k))'
      BY <1>1, <2>1, <2>2, StillInFlight
    <3>2. conn = "up" => s2c \in Seq(Whole)
      BY DEF InFlightInv
    <3> QED
      BY <1>1, <2>1, <2>2, <2>3, <2>5, <2>6, <3>1, <3>2 DEF InFlightInv
  <2> QED
    BY <2>7, <2>8, <2>9, <2>10
<1> QED
  BY <1>2, <1>3

(* All of M2 is made of strings that may be sent.                          *)
LEMMA M2IsText ==
    ASSUME user \in Peer, host \in Peer, NEW n \in Nonces
    PROVE  /\ M2(n) \in Seq(Whole) /\ M2(n) \in Seq(Text)
           /\ <<>> \o M2(n) = M2(n)
<1>1. /\ Cert(host) \in Whole /\ Seal(Ks, user) \in Whole /\ Seal(Ka, user) \in Whole
      /\ Plain(Iv) \in Whole /\ Sig(host, M2Text(n)) \in Whole /\ Nonce(Nb) \in Whole
  BY DEF Whole, M2Text
<1>2. Whole \subseteq Text
  BY DEF Text
<1>3. M2(n) = <<Cert(host), Seal(Ks, user), Seal(Ka, user), Plain(Iv),
                Sig(host, M2Text(n)), Nonce(Nb)>>
  BY M2Strings
<1>4. /\ Cert(host) \in Text /\ Seal(Ks, user) \in Text /\ Seal(Ka, user) \in Text
      /\ Plain(Iv) \in Text /\ Sig(host, M2Text(n)) \in Text /\ Nonce(Nb) \in Text
  BY <1>1, <1>2
<1> DEFINE c == Cert(host)  v == Plain(Iv)  w == Nonce(Nb)
           e == Seal(Ks, user)  f == Seal(Ka, user)  g == Sig(host, M2Text(n))
           U == Whole  T == Text
<1>7. /\ M2(n) = <<c, e, f, v, g, w>>
      /\ c \in U /\ e \in U /\ f \in U /\ v \in U /\ g \in U /\ w \in U
      /\ c \in T /\ e \in T /\ f \in T /\ v \in T /\ g \in T /\ w \in T
  BY <1>1, <1>3, <1>4
<1> HIDE DEF c, e, f, g, v, w, U, T
<1>8. /\ <<c, e, f, v, g, w>> \in Seq(U) /\ <<c, e, f, v, g, w>> \in Seq(T)
      /\ <<>> \o <<c, e, f, v, g, w>> = <<c, e, f, v, g, w>>
  BY <1>7, SixStrings
<1>5. M2(n) \in Seq(Whole) /\ <<>> \o M2(n) = M2(n)
  BY <1>7, <1>8 DEF U
<1>6. M2(n) \in Seq(Text)
  BY <1>7, <1>8 DEF T
<1> QED
  BY <1>5, <1>6

(* The client's nonce: the server makes the keys and sends M2.             *)
LEMMA RecvClientNonceInv ==
    ASSUME HandshakeInv, RecvClientNonce
    PROVE  HandshakeInv'
<1> USE DEF HandshakeInv
<1>1. /\ ServerTakes("M1", 2) /\ sv = "M1"
      /\ UNCHANGED <<user, host, conn, cl, cgot, ckeys>>
      /\ c2s # <<>> /\ c2s' = Tail(c2s)
      /\ sgot' = Append(sgot, Head(c2s)) /\ skeys' = <<Ks, Ka, Iv>>
  BY DEF RecvClientNonce, ServerTakes, clVars
<1>2. 2 = Len(sgot) + 1 /\ Len(sgot) \in Nat
  BY <1>1, ServerTakesRight
<1>3. /\ Len(sgot) = 1 /\ cl # "M1" /\ Head(c2s) \in Text
      /\ Arrives(Head(c2s), Nonce(Na)) /\ c2s' \in Seq(Text)
  <2>1. /\ cl # "M1" /\ Head(c2s) \in Text
        /\ Arrives(Head(c2s), ToServer(2)) /\ c2s' \in Seq(Text)
    BY <1>1, ServerTakesRight
  <2>2. ToServer(2) = Nonce(Na)
    BY DEF ToServer
  <2>3. Len(sgot) = 1
    BY <1>2, Places, Zenon
  <2> QED
    BY <2>1, <2>2, <2>3
<1>4. conn = "up" => c2s' \in Seq(Whole)
  BY <1>1, ServerTakesRight
<1>5. /\ sgot' \in Seq(Text) /\ Len(sgot') = 2
      /\ sgot'[1] = sgot[1] /\ sgot'[2] = Head(c2s)
  <2>1. sgot \in Seq(Text)
    BY DEF TypeOK
  <2>2. /\ sgot' \in Seq(Text) /\ Len(sgot') = Len(sgot) + 1
        /\ sgot'[Len(sgot) + 1] = Head(c2s)
        /\ \A i \in 1..Len(sgot) : sgot'[i] = sgot[i]
    <3>1. Head(c2s) \in Text /\ sgot' = Append(sgot, Head(c2s))
      BY <1>1, <1>3
    <3>2. /\ Append(sgot, Head(c2s)) \in Seq(Text)
          /\ Len(Append(sgot, Head(c2s))) = Len(sgot) + 1
          /\ Append(sgot, Head(c2s))[Len(sgot) + 1] = Head(c2s)
          /\ \A i \in 1..Len(sgot) : Append(sgot, Head(c2s))[i] = sgot[i]
      BY <2>1, <3>1, AppendProperties
    <3> QED
      BY <3>1, <3>2
  <2>3. Len(sgot) = 1
    BY <1>3
  <2> QED
    BY <2>2, <2>3
<1>6. Head(c2s) \in Nonces
  BY <1>3, NoncesAreText DEF Arrives
<1>7. /\ cgot = <<>> /\ s2c = <<>> /\ cl # "secured" /\ skeys = NoKeys
      /\ sgot[1] = Cert(user) /\ VerifyCert(Cert(user), Clients)
  <2>1. sgot \in Seq(Text) /\ Len(sgot) >= 1
    BY <1>3 DEF TypeOK
  <2>2. sgot # <<>>
    BY <2>1, NotEmpty
  <2> QED
    BY <1>3, <2>2 DEF KeptInv
<1>8. \/ conn = "up" /\ s2c' = M2(Head(c2s)) /\ sv' = "M3"
      \/ conn = "down" /\ s2c' = <<>> /\ sv' \in {"M3", "failed"}
  <2>1. <<>> \o M2(Head(c2s)) = M2(Head(c2s))
    BY <1>6, M2IsText, HandshakeAssumption DEF TypeOK
  <2>2. ServerSends(M2(Head(c2s)), "M3")
    BY DEF RecvClientNonce
  <2> HIDE DEF HandshakeInv
  <2> QED
    BY <2>1, <2>2, <1>7 DEF ServerSends
<1>9. s2c' \in Seq(Text) /\ (conn = "up" => s2c' \in Seq(Whole))
  <2>1. M2(Head(c2s)) \in Seq(Whole) /\ M2(Head(c2s)) \in Seq(Text)
    BY <1>6, M2IsText, HandshakeAssumption DEF TypeOK
  <2>2. <<>> \in Seq(Text)
    OBVIOUS
  <2> QED
    BY <1>8, <2>1, <2>2
<1>10. TypeOK'
  BY <1>1, <1>3, <1>5, <1>8, <1>9 DEF TypeOK
<1>11. Agreement' /\ OnlyTrusted'
  BY <1>1, <1>7, <1>8 DEF Agreement, OnlyTrusted
<1>12. KeptInv'
  <2>1. sgot'[1] = Cert(user)' /\ VerifyCert(Cert(user), Clients)'
    BY <1>1, <1>5, <1>7 DEF VerifyCert, IsTorn, Cert
  <2>2. Arrives(sgot[2], Nonce(Na))'
    BY <1>1, <1>3, <1>5 DEF Arrives, Nonce
  <2>3. cgot' = <<>> /\ Len(cgot') = 0 /\ cl' \notin {"M1", "secured"} /\ sv' # "M1"
    BY <1>1, <1>3, <1>7, <1>8
  <2> QED
    BY <1>1, <1>5, <2>1, <2>2, <2>3 DEF KeptInv
<1>13. InFlightInv'
  <2>1. /\ Len(sgot') + Len(c2s') = Len(sgot) + Len(c2s)
        /\ \A k \in 1..Len(c2s') : Arrives(c2s[k], ToServer(Len(sgot) + k))'
    BY <1>1, <1>3, StillInFlight
  <2>2. /\ Len(sgot) + Len(c2s) <= 2
        /\ conn = "up" => Len(sgot) + Len(c2s) = 2
    BY <1>1, <1>3, <1>7 DEF InFlightInv
  <2>3. Len(cgot') = 0 /\ Len(s2c') \in {0, 6} /\ (conn = "up" => Len(s2c') = 6)
    BY <1>1, <1>7, <1>8, M2Strings
  <2>4. ASSUME NEW k \in 1..Len(s2c')
        PROVE  Arrives(s2c[k], ToClient(Len(cgot) + k))'
    <3>1. k \in Nat /\ s2c' # <<>>
      BY <2>3
    <3>2. s2c' = M2(Head(c2s))
      BY <1>8, <3>1
    <3>3. M2(sgot[2])' = M2(Head(c2s))
      BY <1>1, <1>5 DEF M2
    <3>4. ToClient(Len(cgot) + k)' = s2c'[k]
      BY <2>3, <3>1, <3>2, <3>3 DEF ToClient
    <3> QED
      BY <3>4 DEF Arrives
  <2>5. conn' = "up" => c2s' \in Seq(Whole) /\ s2c' \in Seq(Whole)
    BY <1>1, <1>4, <1>9
  <2>6. Len(cgot') + Len(s2c') <= 6 /\ (conn = "up" => Len(cgot') + Len(s2c') = 6)
    <3> DEFINE a == Len(cgot')  b == Len(s2c')
    <3>1. a = 0 /\ b \in {0, 6} /\ (conn = "up" => b = 6)
      BY <2>3
    <3> HIDE DEF a, b
    <3>2. a + b <= 6 /\ (conn = "up" => a + b = 6)
      BY <3>1
    <3> QED
      BY <3>2 DEF a, b
  <2>7. cl' # "secured" /\ conn' = conn
    BY <1>1, <1>7
  <2> QED
    BY <2>1, <2>2, <2>4, <2>5, <2>6, <2>7 DEF InFlightInv
<1> QED
  BY <1>10, <1>11, <1>12, <1>13

(* M3: the server agrees, or gives up.                                     *)
LEMMA RecvSignedNonceInv ==
    ASSUME HandshakeInv, RecvSignedNonce
    PROVE  HandshakeInv'
<1> USE DEF HandshakeInv
<1>1. /\ ServerTakes("M3", 3) /\ sv = "M3"
      /\ UNCHANGED <<user, host, s2c, conn, cl, cgot, ckeys, skeys>>
      /\ c2s # <<>> /\ c2s' = Tail(c2s)
      /\ sgot' = Append(sgot, Head(c2s)) /\ sv' \in {"secured", "failed"}
  BY DEF RecvSignedNonce, ServerTakes, clVars
<1>2. 3 = Len(sgot) + 1 /\ Len(sgot) \in Nat
  BY <1>1, ServerTakesRight
<1>3. /\ cl = "secured" /\ Head(c2s) \in Text /\ c2s' \in Seq(Text)
      /\ (conn = "up" => c2s' \in Seq(Whole))
  BY <1>1, ServerTakesRight
<1>4. /\ Len(sgot) = 2 /\ sgot' \in Seq(Text) /\ Len(sgot') = 3
      /\ sgot'[1] = sgot[1] /\ sgot'[2] = sgot[2]
  <2>1. sgot \in Seq(Text)
    BY DEF TypeOK
  <2>2. Len(sgot) = 2
    BY <1>2, Places, Zenon
  <2>3. /\ sgot' \in Seq(Text) /\ Len(sgot') = Len(sgot) + 1
        /\ \A i \in 1..Len(sgot) : sgot'[i] = sgot[i]
    <3>1. Head(c2s) \in Text /\ sgot' = Append(sgot, Head(c2s))
      BY <1>1, <1>3
    <3>2. /\ Append(sgot, Head(c2s)) \in Seq(Text)
          /\ Len(Append(sgot, Head(c2s))) = Len(sgot) + 1
          /\ \A i \in 1..Len(sgot) : Append(sgot, Head(c2s))[i] = sgot[i]
      BY <2>1, <3>1, AppendProperties
    <3> QED
      BY <3>1, <3>2
  <2> QED
    BY <2>2, <2>3
<1>5. \A i : ToClient(i)' = ToClient(i)
  BY <1>1, <1>4 DEF ToClient, M2
<1>6. TypeOK'
  BY <1>1, <1>3, <1>4 DEF TypeOK
<1>7. Agreement' /\ OnlyTrusted'
  BY <1>1, <1>3 DEF Agreement, OnlyTrusted, Trusted, VerifyCert
<1>8. KeptInv'
  <2>1. \A i \in 1..Len(cgot) : Arrives(cgot[i], ToClient(i))'
    BY <1>1, <1>5 DEF Arrives, KeptInv
  <2>2. sgot \in Seq(Text) /\ Len(sgot) >= 1
    BY <1>4 DEF TypeOK
  <2>3. sgot # <<>>
    BY <2>2, NotEmpty
  <2>4. /\ sgot[1] = Cert(user) /\ VerifyCert(Cert(user), Clients)
        /\ Arrives(sgot[2], Nonce(Na)) /\ skeys = <<Ks, Ka, Iv>>
    BY <2>3, <1>4 DEF KeptInv
  <2>5. /\ sgot'[1] = Cert(user)' /\ VerifyCert(Cert(user), Clients)'
        /\ Arrives(sgot[2], Nonce(Na))' /\ skeys' = <<Ks, Ka, Iv>>
    BY <2>4, <1>1, <1>4 DEF VerifyCert, IsTorn, Cert, Arrives, Nonce
  <2>6. cgot' # <<>> => cgot'[1] = Cert(host)' /\ VerifyCert(Cert(host), Servers)'
    BY <1>1 DEF KeptInv, VerifyCert, IsTorn, Cert
  <2>7. Len(cgot') = 6 /\ cl' = "secured" /\ sv' \notin {"M1", "M3"}
    BY <1>1, <1>3 DEF KeptInv
  <2> QED
    BY <1>1, <1>4, <2>1, <2>5, <2>6, <2>7 DEF KeptInv
<1>9. InFlightInv'
  <2>1. conn = "up" => s2c \in Seq(Whole)
    BY DEF InFlightInv
  <2> QED
    BY <1>1, <1>3, <2>1 DEF InFlightInv
<1> QED
  BY <1>6, <1>7, <1>8, <1>9

-----------------------------------------------------------------------------
(* The connection.                                                         *)

(* What remains of some strings is some of them, the last perhaps torn.    *)
LEMMA RemainsOf ==
    ASSUME NEW s \in Seq(Whole), NEW t \in Remains(s)
    PROVE  /\ t \in Seq(Text) /\ Len(t) <= Len(s)
           /\ \A k \in 1..Len(t) : t[k] = s[k] \/ t[k] = Torn(s[k])
<1>1. s \in Seq(Text) /\ \A k \in 1..Len(s) : Torn(s[k]) \in Text
  BY DEF Text
<1>2. ASSUME NEW n \in 0..Len(s)
      PROVE  /\ SubSeq(s, 1, n) \in Seq(Text) /\ Len(SubSeq(s, 1, n)) = n
             /\ \A k \in 1..n : SubSeq(s, 1, n)[k] = s[k]
  BY <1>1
<1>3. CASE t \in {SubSeq(s, 1, i) : i \in 0..Len(s)}
  <2>1. PICK n \in 0..Len(s) : t = SubSeq(s, 1, n)
    BY <1>3
  <2> QED
    BY <2>1, <1>2
<1>4. CASE t \in {Append(SubSeq(s, 1, i - 1), Torn(s[i])) : i \in 1..Len(s)}
  <2>1. PICK n \in 1..Len(s) : t = Append(SubSeq(s, 1, n - 1), Torn(s[n]))
    BY <1>4
  <2> DEFINE u == SubSeq(s, 1, n - 1)
  <2>2. n - 1 \in 0..Len(s)
    OBVIOUS
  <2>3. u \in Seq(Text) /\ Len(u) = n - 1 /\ \A k \in 1..n - 1 : u[k] = s[k]
    BY <2>2, <1>2
  <2>4. Torn(s[n]) \in Text /\ t = Append(u, Torn(s[n]))
    BY <1>1, <2>1
  <2> HIDE DEF u
  <2> QED
    BY <2>3, <2>4
<1> QED
  BY <1>3, <1>4 DEF Remains

(* The connection goes down: of what was in flight, the rest arrives.      *)
LEMMA BreakInv ==
    ASSUME HandshakeInv, Break
    PROVE  HandshakeInv'
<1> USE DEF HandshakeInv
<1>1. /\ conn = "up" /\ conn' = "down"
      /\ c2s' \in Remains(c2s) /\ s2c' \in Remains(s2c)
      /\ UNCHANGED <<user, host, cl, sv, cgot, sgot, ckeys, skeys>>
  BY DEF Break, clVars, svVars
<1>2. c2s \in Seq(Whole) /\ s2c \in Seq(Whole)
  BY <1>1 DEF InFlightInv
<1>3. /\ c2s' \in Seq(Text) /\ Len(c2s') <= Len(c2s)
      /\ \A k \in 1..Len(c2s') : c2s'[k] = c2s[k] \/ c2s'[k] = Torn(c2s[k])
  BY <1>1, <1>2, RemainsOf
<1>4. /\ s2c' \in Seq(Text) /\ Len(s2c') <= Len(s2c)
      /\ \A k \in 1..Len(s2c') : s2c'[k] = s2c[k] \/ s2c'[k] = Torn(s2c[k])
  BY <1>1, <1>2, RemainsOf
<1>5. \A i : ToClient(i)' = ToClient(i) /\ ToServer(i)' = ToServer(i)
  BY <1>1 DEF ToClient, ToServer, M2, Cert, Sig
<1>6. TypeOK'
  BY <1>1, <1>3, <1>4 DEF TypeOK
<1>7. Agreement' /\ OnlyTrusted'
  BY <1>1 DEF Agreement, OnlyTrusted, Trusted, VerifyCert
<1>8. /\ c2s = <<>> => c2s' = <<>>
      /\ s2c = <<>> => s2c' = <<>>
  BY <1>3, <1>4
<1>9. KeptInv'
  <2>1. \A i \in 1..Len(cgot) : Arrives(cgot[i], ToClient(i))'
    BY <1>1, <1>5 DEF Arrives, KeptInv
  <2>2. Len(sgot) >= 2 => Arrives(sgot[2], Nonce(Na))'
    BY <1>1 DEF Arrives, KeptInv, Nonce
  <2>3. /\ VerifyCert(Cert(user), Clients)' <=> VerifyCert(Cert(user), Clients)
        /\ VerifyCert(Cert(host), Servers)' <=> VerifyCert(Cert(host), Servers)
        /\ Cert(user)' = Cert(user) /\ Cert(host)' = Cert(host)
    BY <1>1 DEF VerifyCert, IsTorn, Cert
  <2> QED
    BY <1>1, <1>8, <2>1, <2>2, <2>3 DEF KeptInv
<1>10. InFlightInv'
  <2>1. ASSUME cl = "M2", NEW k \in 1..Len(s2c')
        PROVE  Arrives(s2c[k], ToClient(Len(cgot) + k))'
    <3>1. k \in 1..Len(s2c)
      BY <1>4 DEF TypeOK
    <3>2. s2c[k] = ToClient(Len(cgot) + k)
      BY <2>1, <3>1, <1>1 DEF InFlightInv, Arrives
    <3>3. ToClient(Len(cgot) + k)' = ToClient(Len(cgot) + k)
      BY <1>1 DEF ToClient, M2
    <3> QED
      BY <1>1, <1>4, <3>2, <3>3 DEF Arrives
  <2>2. ASSUME sv \in {"M1", "M3"}, NEW k \in 1..Len(c2s')
        PROVE  Arrives(c2s[k], ToServer(Len(sgot) + k))'
    <3>1. k \in 1..Len(c2s)
      BY <1>3 DEF TypeOK
    <3>2. c2s[k] = ToServer(Len(sgot) + k)
      BY <2>2, <3>1, <1>1 DEF InFlightInv, Arrives
    <3>3. ToServer(Len(sgot) + k)' = ToServer(Len(sgot) + k)
      BY <1>1 DEF ToServer, Cert, Sig
    <3> QED
      BY <1>1, <1>3, <3>2, <3>3 DEF Arrives
  <2>3. cl = "M2" => Len(cgot) + Len(s2c') <= 6
    BY <1>4 DEF TypeOK, InFlightInv
  <2>4. sv \in {"M1", "M3"} =>
          Len(sgot) + Len(c2s') <= IF cl = "secured" THEN 3 ELSE 2
    BY <1>3 DEF TypeOK, InFlightInv
  <2> QED
    BY <1>1, <2>1, <2>2, <2>3, <2>4 DEF InFlightInv
<1> QED
  BY <1>6, <1>7, <1>9, <1>10

-----------------------------------------------------------------------------
(* Nothing changes: the invariant stays.                                   *)
LEMMA NothingChanges ==
    ASSUME HandshakeInv, UNCHANGED vars
    PROVE  HandshakeInv'
<1>1. UNCHANGED <<user, host, c2s, s2c, conn, cl, sv, cgot, sgot, ckeys, skeys>>
  BY DEF vars
<1>2. TypeOK' /\ Agreement' /\ OnlyTrusted'
  BY <1>1 DEF HandshakeInv, TypeOK, Agreement, OnlyTrusted, Trusted, VerifyCert
<1>3. KeptInv'
  BY <1>1 DEF HandshakeInv, KeptInv, Arrives, ToClient, M2, VerifyCert, IsTorn, Cert
<1>4. InFlightInv'
  BY <1>1 DEF HandshakeInv, InFlightInv, Arrives, ToClient, ToServer, M2, Cert, Sig
<1> QED
  BY <1>2, <1>3, <1>4 DEF HandshakeInv

(* A step of the client preserves the invariant.                           *)
LEMMA ClientInv ==
    ASSUME HandshakeInv, ClientStep
    PROVE  HandshakeInv'
<1>1. CASE ClientM1
  BY <1>1, ClientM1Inv
<1>2. CASE RecvServerCert
  <2>1. ClientTakes(1) /\ UNCHANGED <<c2s, ckeys>>
    BY <1>2 DEF RecvServerCert
  <2>2. CASE VerifyCert(Head(s2c), Servers)
    <3>1. ClientKeeps /\ UNCHANGED cl /\ 1 \in 1..5
      BY <1>2, <2>2 DEF RecvServerCert
    <3> QED
      BY <2>1, <2>2, <3>1, ClientKeepsInv
  <2>3. CASE ~VerifyCert(Head(s2c), Servers)
    <3>1. cl' = "failed" /\ UNCHANGED cgot
      BY <1>2, <2>3 DEF RecvServerCert
    <3>2. s2c' \in Seq(Text) /\ 1 \in 1..6
      BY <2>1, HeadTailProperties DEF ClientTakes, HandshakeInv, TypeOK
    <3> QED
      BY <2>1, <3>1, <3>2, ClientGivesUpInv DEF ClientTakes, svVars
  <2> QED
    BY <2>2, <2>3
<1>3. CASE RecvSeal
  <2>1. PICK place \in 2..3 : ClientTakes(place)
    BY <1>3 DEF RecvSeal
  <2>2. UNCHANGED <<c2s, ckeys>>
    BY <1>3 DEF RecvSeal
  <2>3. CASE ClientKeeps /\ UNCHANGED cl
    <3>1. place \in 1..5 /\ place # 1
      OBVIOUS
    <3> QED
      BY <2>1, <2>2, <2>3, <3>1, ClientKeepsInv
  <2>4. CASE cl' = "crashed" /\ UNCHANGED cgot
    <3>1. s2c' \in Seq(Text)
      BY <2>1, HeadTailProperties DEF ClientTakes, HandshakeInv, TypeOK
    <3> QED
      BY <2>1, <2>2, <2>4, <3>1, ClientGivesUpInv DEF ClientTakes, svVars
  <2> QED
    BY <1>3, <2>3, <2>4 DEF RecvSeal
<1>4. CASE RecvIvAndSignature
  <2>1. PICK place \in 4..5 : ClientTakes(place)
    BY <1>4 DEF RecvIvAndSignature
  <2>2. ClientKeeps /\ UNCHANGED <<c2s, cl, ckeys>>
    BY <1>4 DEF RecvIvAndSignature
  <2>3. place \in 1..5 /\ place # 1
    OBVIOUS
  <2> QED
    BY <2>1, <2>2, <2>3, ClientKeepsInv
<1>5. CASE RecvServerNonce
  BY <1>5, RecvServerNonceInv
<1>6. CASE ClientStarved
  <2>1. s2c' \in Seq(Text)
    BY <1>6 DEF ClientStarved, HandshakeInv, TypeOK
  <2> QED
    BY <1>6, <2>1, ClientGivesUpInv DEF ClientStarved, svVars
<1> QED
  BY <1>1, <1>2, <1>3, <1>4, <1>5, <1>6 DEF ClientStep

(* A step of the server preserves the invariant.                           *)
LEMMA ServerInv ==
    ASSUME HandshakeInv, ServerStep
    PROVE  HandshakeInv'
<1>1. CASE ServerStarved
  BY <1>1, ServerGivesUpInv DEF ServerStarved, clVars
<1> QED
  BY <1>1, RecvClientCertInv, RecvClientNonceInv, RecvSignedNonceInv DEF ServerStep

(* Both programs count the strings they exchange alike: whatever a peer    *)
(* keeps is what the other sent in that place, or a torn string of a       *)
(* connection that is down, and which the signatures tell.                 *)
THEOREM HandshakeInvariant == Spec => []HandshakeInv
<1>1. HandshakeInv /\ [Next]_vars => HandshakeInv'
  <2> SUFFICES ASSUME HandshakeInv, [Next]_vars
               PROVE  HandshakeInv'
    OBVIOUS
  <2> QED
    BY ClientInv, ServerInv, BreakInv, NothingChanges DEF Next, Close, Done
<1> QED
  BY InitInv, <1>1, PTL DEF Spec

(* Every variable has its type, and a string is read as what it was sent.  *)
THEOREM HandshakeTypeCorrect == Spec => []TypeOK
<1>1. HandshakeInv => TypeOK
  BY DEF HandshakeInv
<1> QED
  BY HandshakeInvariant, <1>1, PTL

(* A client that goes on has the keys the server made for it, and a server *)
(* that goes on has such a client.                                         *)
THEOREM PeersAgree == Spec => []Agreement
<1>1. HandshakeInv => Agreement
  BY DEF HandshakeInv
<1> QED
  BY HandshakeInvariant, <1>1, PTL

(* Neither program goes on with a peer that one of the two turns down.     *)
THEOREM PeersAreTrusted == Spec => []OnlyTrusted
<1>1. HandshakeInv => OnlyTrusted
  BY DEF HandshakeInv
<1> QED
  BY HandshakeInvariant, <1>1, PTL

-----------------------------------------------------------------------------
(* The handshake implements the abstract key exchange.                     *)

(* What the abstract exchange sees stays when who runs, whether the link   *)
(* is up, the keys and both outcomes do.                                   *)
LEMMA Unseen ==
    ASSUME UNCHANGED <<user, host, conn, skeys, ckeys>>,
           Outcome(cl)' = Outcome(cl), Outcome(sv)' = Outcome(sv),
           (cl' = "secured") = (cl = "secured")
    PROVE  UNCHANGED KX!vars
<1>1. Trusted' = Trusted
  BY DEF Trusted, VerifyCert, IsTorn, Cert
<1> QED
  BY <1>1 DEF KX!vars

LEMMA ClientFailure ==
    ASSUME cl \in {"M1", "M2"}, cl' \in {"failed", "crashed"},
           ~Trusted \/ conn = "down",
           UNCHANGED <<user, host, conn, sv, skeys>>
    PROVE  KX!ClientFails
<1>1. Trusted' = Trusted
  BY DEF Trusted, VerifyCert, IsTorn, Cert
<1> QED
  BY <1>1 DEF KX!ClientFails, KX!Hopeless, Outcome

LEMMA ServerFailure ==
    ASSUME sv \in {"M1", "M3"}, sv' = "failed",
           ~Trusted \/ conn = "down",
           UNCHANGED <<user, host, conn, cl, ckeys, skeys>>
    PROVE  KX!ServerFails
<1>1. Trusted' = Trusted
  BY DEF Trusted, VerifyCert, IsTorn, Cert
<1> QED
  BY <1>1 DEF KX!ServerFails, KX!Hopeless, Outcome

(* A client that turns the server's certificate down has reason to.        *)
LEMMA CertStep ==
    ASSUME HandshakeInv, RecvServerCert
    PROVE  KX!ClientFails \/ UNCHANGED KX!vars
<1>1. /\ ClientTakes(1) /\ cl = "M2"
      /\ UNCHANGED <<user, host, conn, sv, sgot, skeys, ckeys>>
  BY DEF RecvServerCert, ClientTakes, svVars
<1>2. Arrives(Head(s2c), Cert(host))
  <2>1. 1 \in 1..6
    OBVIOUS
  <2> QED
    BY <1>1, <2>1, ClientTakesRight, ToClientStrings
<1>3. CASE VerifyCert(Head(s2c), Servers)
  BY <1>1, <1>3, Unseen DEF RecvServerCert
<1>4. CASE ~VerifyCert(Head(s2c), Servers)
  <2>1. ~Trusted \/ conn = "down"
    BY <1>2, <1>4 DEF Arrives, Trusted
  <2> QED
    BY <1>1, <1>4, <2>1, ClientFailure DEF RecvServerCert
<1> QED
  BY <1>3, <1>4

(* A seal that crashes the client is torn.                                 *)
LEMMA SealStep ==
    ASSUME HandshakeInv, RecvSeal
    PROVE  KX!ClientFails \/ UNCHANGED KX!vars
<1>1. PICK place \in 2..3 : ClientTakes(place)
  BY DEF RecvSeal
<1>2. /\ cl = "M2" /\ UNCHANGED <<user, host, conn, sv, sgot, skeys, ckeys>>
  BY <1>1 DEF RecvSeal, ClientTakes, svVars
<1>3. Arrives(Head(s2c), ToClient(place)) /\ ~IsTorn(ToClient(place))
  <2>1. place \in 1..6
    OBVIOUS
  <2>2. ~IsTorn(Seal(Ks, user)) /\ ~IsTorn(Seal(Ka, user))
    BY DEF IsTorn, Seal
  <2>3. ToClient(place) \in {Seal(Ks, user), Seal(Ka, user)}
    BY ToClientStrings
  <2> QED
    BY <1>1, <2>1, <2>2, <2>3, ClientTakesRight
<1>4. CASE cl' = cl
  BY <1>2, <1>4, Unseen
<1>5. CASE IsTorn(Head(s2c)) /\ cl' = "crashed"
  <2>1. conn = "down"
    BY <1>3, <1>5 DEF Arrives
  <2> QED
    BY <1>2, <1>5, <2>1, ClientFailure
<1> QED
  BY <1>4, <1>5 DEF RecvSeal

(* With the server's nonce the client agrees, unless the link went down.   *)
LEMMA NonceStep ==
    ASSUME HandshakeInv, RecvServerNonce
    PROVE  KX!ClientAgrees \/ KX!ClientFails
<1>1. /\ ClientTakes(6) /\ cl = "M2"
      /\ UNCHANGED <<user, host, conn, sv, sgot, skeys>>
  BY DEF RecvServerNonce, ClientTakes, svVars
<1>2. Len(sgot) >= 2 /\ Len(cgot) = 5
  <2>1. 6 \in 1..6 /\ Len(cgot) \in Nat
    BY DEF HandshakeInv, TypeOK
  <2>2. Len(cgot) + 1 = 6
    BY <1>1 DEF ClientTakes
  <2>3. Len(sgot) >= 2
    BY <1>1, <2>1, ClientTakesRight, Zenon
  <2> QED
    BY <2>1, <2>2, <2>3, Places, Zenon
<1>3. skeys = <<Ks, Ka, Iv>> /\ skeys # NoKeys
  BY <1>2, HandshakeAssumption DEF HandshakeInv, KeptInv
<1>4. CASE cl' = "secured"
  <2>1. HandshakeInv'
    BY RecvServerNonceInv
  <2>2. ckeys' = skeys' /\ Trusted'
    BY <1>4, <2>1 DEF HandshakeInv, Agreement, OnlyTrusted
  <2>3. Trusted' = Trusted
    BY <1>1 DEF Trusted, VerifyCert, IsTorn, Cert
  <2> QED
    BY <1>1, <1>3, <1>4, <2>2, <2>3 DEF KX!ClientAgrees, Outcome
<1>5. CASE cl' = "failed"
  <2>1. conn = "down"
    <3>1. CASE cgot[5] = Sig(cgot[1][2], SignedText(cgot[2], cgot[3], cgot[4], Nonce(Na)))
      BY <1>5, <3>1 DEF RecvServerNonce, ClientSends
    <3>2. CASE cgot[5] # Sig(cgot[1][2], SignedText(cgot[2], cgot[3], cgot[4], Nonce(Na)))
      BY <1>2, <3>2, SignatureHolds DEF HandshakeInv, TypeOK
    <3> QED
      BY <3>1, <3>2
  <2> QED
    BY <1>1, <1>5, <2>1, ClientFailure
<1> QED
  BY <1>4, <1>5 DEF RecvServerNonce, ClientSends

LEMMA ClientSteps ==
    ASSUME HandshakeInv, ClientStep
    PROVE  [KX!Next]_(KX!vars)
<1>1. CASE ClientM1
  <2>1. /\ cl = "M1" /\ UNCHANGED <<user, host, conn, sv, skeys, ckeys>>
        /\ cl' = "M2" \/ (cl' = "failed" /\ conn = "down")
    BY <1>1 DEF ClientM1, ClientSends, svVars
  <2>2. CASE cl' = "M2"
    BY <2>1, <2>2, Unseen DEF Outcome
  <2> QED
    BY <2>1, <2>2, ClientFailure DEF KX!Next, KX!ClientStep
<1>2. CASE RecvIvAndSignature
  BY <1>2, Unseen DEF RecvIvAndSignature, ClientTakes, svVars
<1>3. CASE ClientStarved
  BY <1>3, ClientFailure DEF ClientStarved, svVars, KX!Next, KX!ClientStep
<1> QED
  BY <1>1, <1>2, <1>3, CertStep, SealStep, NonceStep
     DEF ClientStep, KX!Next, KX!ClientStep

(* A server that turns a certificate or M3 down has reason to.             *)
LEMMA ServerCertStep ==
    ASSUME HandshakeInv, RecvClientCert
    PROVE  KX!ServerFails \/ UNCHANGED KX!vars
<1>1. /\ ServerTakes("M1", 1) /\ sv = "M1"
      /\ UNCHANGED <<user, host, conn, cl, cgot, ckeys, skeys>>
  BY DEF RecvClientCert, ServerTakes, clVars
<1>2. Arrives(Head(c2s), Cert(user))
  BY <1>1, ServerTakesRight DEF ToServer
<1>3. CASE VerifyCert(Head(c2s), Clients)
  BY <1>1, <1>3, Unseen DEF RecvClientCert
<1>4. CASE ~VerifyCert(Head(c2s), Clients)
  <2>1. ~Trusted \/ conn = "down"
    BY <1>2, <1>4 DEF Arrives, Trusted
  <2> QED
    BY <1>1, <1>4, <2>1, ServerFailure DEF RecvClientCert
<1> QED
  BY <1>3, <1>4

LEMMA OfferStep ==
    ASSUME HandshakeInv, RecvClientNonce
    PROVE  KX!Offer
<1>1. /\ ServerTakes("M1", 2) /\ sv = "M1" /\ skeys' = <<Ks, Ka, Iv>>
      /\ UNCHANGED <<user, host, conn, cl, cgot, ckeys>>
      /\ sv' = "M3" \/ (conn = "down" /\ sv' = "failed")
  BY DEF RecvClientNonce, ServerTakes, ServerSends, clVars
<1>2. skeys = NoKeys
  <2>1. sgot \in Seq(Text) /\ Len(sgot) <= 1
    BY <1>1 DEF HandshakeInv, TypeOK, KeptInv
  <2>2. ~(Len(sgot) >= 2)
    BY <2>1
  <2> QED
    BY <2>2 DEF HandshakeInv, KeptInv
<1>3. Trusted' = Trusted
  BY <1>1 DEF Trusted, VerifyCert, IsTorn, Cert
<1> QED
  BY <1>1, <1>2, <1>3 DEF KX!Offer, Outcome

LEMMA SignedNonceStep ==
    ASSUME HandshakeInv, RecvSignedNonce
    PROVE  KX!ServerAgrees \/ KX!ServerFails
<1>1. /\ ServerTakes("M3", 3) /\ sv = "M3"
      /\ UNCHANGED <<user, host, conn, cl, cgot, ckeys, skeys>>
  BY DEF RecvSignedNonce, ServerTakes, clVars
<1>2. cl = "secured" /\ Arrives(Head(c2s), Sig(user, cgot[6]))
  BY <1>1, ServerTakesRight DEF ToServer
<1>3. CASE Head(c2s) = Sig(sgot[1][2], Nonce(Nb))
  <2>1. sv' = "secured"
    BY <1>3 DEF RecvSignedNonce
  <2>2. Trusted' = Trusted
    BY <1>1 DEF Trusted, VerifyCert, IsTorn, Cert
  <2> QED
    BY <1>1, <1>2, <2>1, <2>2 DEF KX!ServerAgrees, Outcome
<1>4. CASE Head(c2s) # Sig(sgot[1][2], Nonce(Nb))
  <2>1. sv' = "failed"
    BY <1>4 DEF RecvSignedNonce
  <2>2. conn = "down"
    <3> SUFFICES ASSUME conn # "down" PROVE FALSE
      OBVIOUS
    <3>1. Len(cgot) = 6 /\ Len(sgot) >= 2 /\ sgot \in Seq(Text)
      BY <1>2 DEF HandshakeInv, KeptInv, TypeOK
    <3>2. cgot[6] = Nonce(Nb)
      BY <3>1, ToClientStrings DEF HandshakeInv, KeptInv, Arrives
    <3>3. sgot # <<>>
      BY <3>1
    <3>4. sgot[1][2] = user
      BY <3>3 DEF HandshakeInv, KeptInv, Cert
    <3> QED
      BY <1>2, <1>4, <3>2, <3>4 DEF Arrives
  <2> QED
    BY <1>1, <2>1, <2>2, ServerFailure
<1> QED
  BY <1>3, <1>4

LEMMA ServerSteps ==
    ASSUME HandshakeInv, ServerStep
    PROVE  [KX!Next]_(KX!vars)
<1>1. CASE ServerStarved
  BY <1>1, ServerFailure DEF ServerStarved, clVars, KX!Next, KX!ServerStep
<1> QED
  BY <1>1, ServerCertStep, OfferStep, SignedNonceStep
     DEF ServerStep, KX!Next, KX!ServerStep

LEMMA BreakStep ==
    ASSUME Break
    PROVE  KX!Lose
<1>1. Trusted' = Trusted
  BY DEF Break, Trusted, VerifyCert, IsTorn, Cert
<1> QED
  BY <1>1 DEF Break, KX!Lose, clVars, svVars, Outcome

(* Every step of the handshake is a step of the key exchange or none: a    *)
(* program gives up only if the peers do not accept each other or the link *)
(* went down, and the client agrees, with the server's keys, first.        *)
THEOREM KeyExchangeSafety == Spec => KX!Safety
<1>1. Init => KX!Init
  BY DEF Init, KX!Init, Outcome, Trusted
<1>2. HandshakeInv /\ [Next]_vars => [KX!Next]_(KX!vars)
  <2> SUFFICES ASSUME HandshakeInv, [Next]_vars
               PROVE  [KX!Next]_(KX!vars)
    OBVIOUS
  <2>1. CASE Close \/ Break
    BY <2>1, BreakStep DEF Close, KX!Next
  <2>2. CASE Done \/ UNCHANGED vars
    BY <2>2, Unseen DEF Done, vars
  <2> QED
    BY <2>1, <2>2, ClientSteps, ServerSteps DEF Next
<1> QED
  BY HandshakeInvariant, <1>1, <1>2, PTL DEF Spec, KX!Safety
=============================================================================
