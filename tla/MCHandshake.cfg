SPECIFICATION FairSpec
CONSTANTS
    alice = alice
    bob = bob
    charlie = charlie
    trudy = trudy
    server = server
    big = big
    Peer <- MCPeer
    User <- MCUser
    Host <- MCHost
    Verified <- MCVerified
    Matches <- MCMatches
    Clients <- MCClients
    Servers <- MCServers
    Huge <- MCHuge
    Ks = Ks
    Ka = Ka
    Iv = Iv
    Na = Na
    Nb = Nb
    NoKeys = NoKeys
INVARIANTS
    TypeOK
    Agreement
    OnlyTrusted
    HandshakeInv
PROPERTY ImplementsKeyExchange
