------------------------------ MODULE Handshake ------------------------------
(***************************************************************************)
(* The key exchange between a client and the server thread that serves it: *)
(* handshake() of client/main.cpp, Client::handshake of server/client.cpp, *)
(* and between them the length prefixed strings of Connection.             *)
(*                                                                         *)
(* Nobody forges anything here; what goes wrong is that a peer does not    *)
(* accept the other, or that the connection is lost.  Connection::recv     *)
(* does not look at how much of a string arrived, so the string at which a *)
(* connection ended is delivered torn: as long as it was, with whatever    *)
(* the buffer held in place of its end.                                    *)
(*                                                                         *)
(* A certificate stands for its subject and public key, a seal for its     *)
(* content and addressee, a signature for its signer and the signed text.  *)
(***************************************************************************)
EXTENDS Naturals, Sequences

CONSTANTS Peer,       \* the subjects of certificates
          User, Host, \* those a client, the server may run as
          Verified,   \* those X509_verify_cert accepts: signed, not revoked
          Matches,    \* subject and entry of a list: "CN=entry" is in its name
          Clients,    \* conf/authorized_clients.txt
          Servers,    \* the client's list of one name
          Huge,       \* those whose certificate is longer than BUFFER_SIZE
          Ks, Ka, Iv, \* what the server generates
          Na, Nb,     \* the two nonces
          NoKeys      \* what a peer has before it has keys

ASSUME HandshakeAssumption ==
    /\ User \subseteq Peer /\ Host \subseteq Peer
    /\ Verified \subseteq Peer /\ Huge \subseteq Peer
    /\ Ks # Ka /\ Na # Nb /\ NoKeys # <<Ks, Ka, Iv>>

VARIABLES user, host,  \* who the two programs run as
          c2s, s2c,    \* strings in flight
          conn,        \* "up" or "down"
          cl,          \* client: "M1", "M2", "secured", "failed" or "crashed"
          sv,          \* server: "M1", "M3", "secured" or "failed"
          cgot, sgot,  \* the strings each has received and kept
          ckeys, skeys \* session key, authentication key and IV of each

clVars == <<cl, cgot, ckeys>>
svVars == <<sv, sgot, skeys>>
vars   == <<user, host, c2s, s2c, conn, cl, sv, cgot, sgot, ckeys, skeys>>

-----------------------------------------------------------------------------
(* Strings                                                                 *)

Cert(p)         == <<"cert", p>>
Nonce(n)        == <<"nonce", n>>
Plain(iv)       == <<"iv", iv>>
Seal(key, p)    == <<"seal", key, p>>
Sig(p, text)    == <<"sig", p, text>>
Torn(s)         == <<"torn", s>>

IsTorn(s) == s[1] = "torn"

(* RSACrypto::decrypt: a seal opens with the private key it is made for.   *)
Open(seal) == seal[2]

(* Certificate::fromString and CertManager::verifyCert; a string longer    *)
(* than BUFFER_SIZE is refused by Connection::recv already.                *)
VerifyCert(s, list) ==
    /\ ~IsTorn(s)
    /\ s[2] \in Verified \ Huge
    /\ \E entry \in list : <<s[2], entry>> \in Matches

(* What the server signs in M2, and the client rebuilds from what it got   *)
(* and from its own nonce.                                                 *)
SignedText(sealS, sealA, iv, nonce) == <<sealS, sealA, iv, nonce>>

(* Mutant: the initialization vector is sent after the signature.          *)
M2Swapped(nonce) ==
    LET sealS == Seal(Ks, user)
        sealA == Seal(Ka, user)
    IN  <<Cert(host), sealS, sealA, Sig(host, SignedText(sealS, sealA, Plain(Iv), nonce)),
          Plain(Iv), Nonce(Nb)>>

(* The six strings of M2, the answer to a nonce.                           *)
M2(nonce) ==
    LET sealS == Seal(Ks, user)
        sealA == Seal(Ka, user)
    IN  <<Cert(host), sealS, sealA, Plain(Iv),
          Sig(host, SignedText(sealS, sealA, Plain(Iv), nonce)), Nonce(Nb)>>

-----------------------------------------------------------------------------
Init ==
    /\ user \in User /\ host \in Host
    /\ c2s = <<>> /\ s2c = <<>> /\ conn = "up"
    /\ cl = "M1" /\ cgot = <<>> /\ ckeys = NoKeys
    /\ sv = "M1" /\ sgot = <<>> /\ skeys = NoKeys

(* Connection::send of some strings; on a connection that is down they are *)
(* lost, or the send throws.                                               *)
ClientSends(strings, next) ==
    \/ conn = "up" /\ c2s' = c2s \o strings /\ cl' = next
    \/ conn = "down" /\ c2s' = c2s /\ cl' \in {next, "failed"}

ServerSends(strings, next) ==
    \/ conn = "up" /\ s2c' = s2c \o strings /\ sv' = next
    \/ conn = "down" /\ s2c' = s2c /\ sv' \in {next, "failed"}

(* Connection::recv of the string that comes at a place of M1, M2 or M3.   *)
ClientTakes(place) ==
    /\ cl = "M2" /\ Len(cgot) + 1 = place
    /\ s2c # <<>> /\ s2c' = Tail(s2c)
    /\ UNCHANGED <<user, host, conn, svVars>>

ServerTakes(phase, place) ==
    /\ sv = phase /\ Len(sgot) + 1 = place
    /\ c2s # <<>> /\ c2s' = Tail(c2s)
    /\ UNCHANGED <<user, host, conn, clVars>>

ClientKeeps == cgot' = Append(cgot, Head(s2c))

-----------------------------------------------------------------------------
(* The client                                                              *)

(* M1: certificate and nonce.                                              *)
ClientM1 ==
    /\ cl = "M1"
    /\ ClientSends(<<Cert(user), Nonce(Na)>>, "M2")
    /\ UNCHANGED <<user, host, s2c, conn, cgot, ckeys, svVars>>

RecvServerCert ==
    /\ ClientTakes(1)
    /\ IF VerifyCert(Head(s2c), Servers)
         THEN ClientKeeps /\ UNCHANGED cl
         ELSE cl' = "failed" /\ UNCHANGED cgot
    /\ UNCHANGED <<c2s, ckeys>>

(* RSASeal::fromString takes the lengths in a torn seal as they are, and   *)
(* copies that many bytes: the client may not survive it.                  *)
RecvSeal ==
    /\ ClientTakes(2) \/ ClientTakes(3)
    /\ \/ ClientKeeps /\ UNCHANGED cl
       \/ IsTorn(Head(s2c)) /\ cl' = "crashed" /\ UNCHANGED cgot
    /\ UNCHANGED <<c2s, ckeys>>

(* Initialization vector and signature are kept as they come.              *)
RecvIvAndSignature ==
    /\ ClientTakes(4) \/ ClientTakes(5)
    /\ ClientKeeps
    /\ UNCHANGED <<c2s, cl, ckeys>>

(* The keys of M2, decrypted.                                              *)
Opened(got) == <<Open(got[2]), Open(got[3]), got[4][2]>>

(* The server's nonce completes M2: the signature is verified, the keys    *)
(* are decrypted, and M3 goes back.                                        *)
RecvServerNonce ==
    /\ ClientTakes(6)
    /\ ClientKeeps
    /\ IF cgot[5] = Sig(cgot[1][2], SignedText(cgot[2], cgot[3], cgot[4], Nonce(Na)))
         THEN /\ ckeys' = Opened(cgot)
              /\ ClientSends(<<Sig(user, Head(s2c))>>, "secured")
         ELSE cl' = "failed" /\ UNCHANGED <<c2s, ckeys>>

(* ExRecv, or ExTooBig for a length of which only a part arrived.          *)
ClientStarved ==
    /\ cl = "M2" /\ conn = "down" /\ s2c = <<>>
    /\ cl' = "failed"
    /\ UNCHANGED <<user, host, c2s, s2c, conn, cgot, ckeys, svVars>>

-----------------------------------------------------------------------------
(* The server                                                              *)

(* Mutant: the client's certificate is kept before it is verified, and its *)
(* failure is not noticed.                                                 *)
RecvClientCertAsItIs ==
    /\ ServerTakes("M1", 1)
    /\ sgot' = Append(sgot, Head(c2s))
    /\ UNCHANGED <<s2c, sv, skeys>>

RecvClientCert ==
    /\ ServerTakes("M1", 1)
    /\ IF VerifyCert(Head(c2s), Clients)
         THEN sgot' = Append(sgot, Head(c2s)) /\ UNCHANGED sv
         ELSE sv' = "failed" /\ UNCHANGED sgot
    /\ UNCHANGED <<s2c, skeys>>

(* Mutant: the server does not wait for M3.                                *)
RecvClientNonceOnly ==
    /\ ServerTakes("M1", 2)
    /\ sgot' = Append(sgot, Head(c2s))
    /\ skeys' = <<Ks, Ka, Iv>>
    /\ ServerSends(M2(Head(c2s)), "secured")

(* The client's nonce completes M1: keys, IV and nonce are generated and   *)
(* M2 goes out.  A nonce that is torn has the right size.                  *)
RecvClientNonce ==
    /\ ServerTakes("M1", 2)
    /\ sgot' = Append(sgot, Head(c2s))
    /\ skeys' = <<Ks, Ka, Iv>>
    /\ ServerSends(M2(Head(c2s)), "M3")

(* M3: the server's nonce, signed by the client.                           *)
RecvSignedNonce ==
    /\ ServerTakes("M3", 3)
    /\ sgot' = Append(sgot, Head(c2s))
    /\ sv' = IF Head(c2s) = Sig(sgot[1][2], Nonce(Nb)) THEN "secured" ELSE "failed"
    /\ UNCHANGED <<s2c, skeys>>

(* Mutant: the exception is swallowed.                                     *)
ServerStarvedSwallowed ==
    /\ sv \in {"M1", "M3"} /\ conn = "down" /\ c2s = <<>>
    /\ UNCHANGED vars

ServerStarved ==
    /\ sv \in {"M1", "M3"} /\ conn = "down" /\ c2s = <<>>
    /\ sv' = "failed"
    /\ UNCHANGED <<user, host, c2s, s2c, conn, sgot, skeys, clVars>>

-----------------------------------------------------------------------------
(* What is left of a stream of strings when its connection goes down: some *)
(* of them, and perhaps a part of one more.  A part of the length alone    *)
(* makes Connection::recv throw, as if nothing had come.                   *)
Remains(s) ==
    {SubSeq(s, 1, i) : i \in 0..Len(s)}
        \union {Append(SubSeq(s, 1, i - 1), Torn(s[i])) : i \in 1..Len(s)}

Break ==
    /\ conn = "up" /\ conn' = "down"
    /\ c2s' \in Remains(c2s) /\ s2c' \in Remains(s2c)
    /\ UNCHANGED <<user, host, clVars, svVars>>

(* `delete connection`, by quit() or by ~Client, or by the kernel.         *)
Close == (cl \in {"failed", "crashed"} \/ sv = "failed") /\ Break

Done ==
    /\ cl \in {"secured", "failed", "crashed"} /\ sv \in {"secured", "failed"}
    /\ conn = "down"
    /\ UNCHANGED vars

ClientStep ==
    \/ ClientM1 \/ RecvServerCert \/ RecvSeal \/ RecvIvAndSignature
    \/ RecvServerNonce \/ ClientStarved

ServerStep ==
    RecvClientCert \/ RecvClientNonce \/ RecvSignedNonce \/ ServerStarved

Next == ClientStep \/ ServerStep \/ Close \/ Break \/ Done

Spec == Init /\ [][Next]_vars

(* Both programs run on, and a program that gives up closes its connection.*)
FairSpec == Spec /\ WF_vars(ClientStep) /\ WF_vars(ServerStep) /\ WF_vars(Close)

-----------------------------------------------------------------------------
(* Properties                                                              *)

(* Every string that a peer may send, and the same torn.                   *)
Nonces == {Nonce(Na), Nonce(Nb)} \union {Torn(Nonce(Na)), Torn(Nonce(Nb))}
Whole ==
    {Cert(p) : p \in Peer} \union {Nonce(Na), Nonce(Nb), Plain(Iv)}
        \union {Seal(key, p) : key \in {Ks, Ka}, p \in Peer}
        \union {Sig(p, nonce) : p \in Peer, nonce \in Nonces}
        \union {Sig(p, SignedText(Seal(Ks, q), Seal(Ka, q), Plain(Iv), nonce)) :
                   p \in Peer, q \in Peer, nonce \in Nonces}
Text == Whole \union {Torn(t) : t \in Whole}

Kinds == <<"cert", "seal", "seal", "iv", "sig", "nonce">>

(* The types of the variables.  Every string a client takes is read as     *)
(* what it was sent as: sender and receiver agree on the order.            *)
TypeOK ==
    /\ user \in User /\ host \in Host
    /\ conn \in {"up", "down"}
    /\ cl \in {"M1", "M2", "secured", "failed", "crashed"}
    /\ sv \in {"M1", "M3", "secured", "failed"}
    /\ c2s \in Seq(Text) /\ s2c \in Seq(Text)
    /\ cgot \in Seq(Text) /\ Len(cgot) <= 6
    /\ sgot \in Seq(Text) /\ Len(sgot) <= 3
    /\ \A i \in 1..Len(cgot) : cgot[i][1] \in {Kinds[i], "torn"}
    /\ ckeys \in {NoKeys, <<Ks, Ka, Iv>>} /\ skeys \in {NoKeys, <<Ks, Ka, Iv>>}

(* Do the peers accept each other's certificate?                           *)
Trusted == VerifyCert(Cert(user), Clients) /\ VerifyCert(Cert(host), Servers)

(* A client that goes on with a session has the keys that the server made  *)
(* for it, also when the connection was lost on the way; a server that     *)
(* goes on has a client that went on before it.                            *)
Agreement ==
    /\ cl = "secured" => skeys # NoKeys /\ ckeys = skeys
    /\ sv = "secured" => cl = "secured"

(* Neither program goes on with a peer that one of the two turns down.     *)
OnlyTrusted == "secured" \in {cl, sv} => Trusted

(* String t is s, or what is left of s by a connection that went down.     *)
Arrives(t, s) == t = s \/ (conn = "down" /\ t = Torn(s))

(* String i of all that the one peer sends the other.                      *)
ToServer(i) ==
    IF i = 1 THEN Cert(user) ELSE IF i = 2 THEN Nonce(Na) ELSE Sig(user, cgot[6])

ToClient(i) == M2(sgot[2])[i]

(* A peer has kept strings of the other in their order, the certificate    *)
(* only if it is good, and has gone as far as they let it.                 *)
KeptInv ==
    /\ sgot # <<>> => sgot[1] = Cert(user) /\ VerifyCert(Cert(user), Clients)
    /\ Len(sgot) >= 2 => Arrives(sgot[2], Nonce(Na))
    /\ cgot # <<>> => cgot[1] = Cert(host) /\ VerifyCert(Cert(host), Servers)
    /\ \A i \in 1..Len(cgot) : Arrives(cgot[i], ToClient(i))
    /\ skeys = IF Len(sgot) >= 2 THEN <<Ks, Ka, Iv>> ELSE NoKeys
    /\ cl = "M1" => c2s = <<>> /\ sgot = <<>>
    /\ cl = "M2" => Len(cgot) <= 5
    /\ cl = "secured" => Len(cgot) = 6 /\ Len(sgot) >= 2
    /\ sv = "M1" => Len(sgot) <= 1
    /\ sv = "M3" => Len(sgot) = 2
    /\ cgot # <<>> \/ s2c # <<>> => Len(sgot) >= 2

(* What is in flight to a peer that still reads are the strings it expects *)
(* next, and all of them while the connection is up; then none is torn.    *)
InFlightInv ==
    /\ conn = "up" => c2s \in Seq(Whole) /\ s2c \in Seq(Whole)
    /\ cl = "M2" =>
         /\ Len(cgot) + Len(s2c) <= 6
         /\ conn = "up" /\ Len(sgot) >= 2 => Len(cgot) + Len(s2c) = 6
         /\ \A k \in 1..Len(s2c) : Arrives(s2c[k], ToClient(Len(cgot) + k))
    /\ sv \in {"M1", "M3"} =>
         /\ Len(sgot) + Len(c2s) <= IF cl = "secured" THEN 3 ELSE 2
         /\ conn = "up" /\ cl # "M1" =>
              Len(sgot) + Len(c2s) = IF cl = "secured" THEN 3 ELSE 2
         /\ \A k \in 1..Len(c2s) : Arrives(c2s[k], ToServer(Len(sgot) + k))

(* Both programs count the strings alike, and the signatures tell a string *)
(* that is torn.                                                           *)
HandshakeInv == TypeOK /\ Agreement /\ OnlyTrusted /\ KeptInv /\ InFlightInv

Outcome(phase) ==
    IF phase = "secured" THEN "agreed"
    ELSE IF phase \in {"failed", "crashed"} THEN "failed" ELSE "running"

KX == INSTANCE KeyExchange WITH
        Keys       <- {<<Ks, Ka, Iv>>},
        client     <- Outcome(cl),
        server     <- Outcome(sv),
        clientKeys <- IF cl = "secured" THEN ckeys ELSE NoKeys,
        serverKeys <- skeys,
        accepted   <- Trusted,
        link       <- conn

(* The handshake implements the key exchange: peers that accept each other *)
(* fail only if the connection does, and nobody is left waiting.           *)
ImplementsKeyExchange == KX!Spec
=============================================================================
