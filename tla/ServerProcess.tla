--------------------------- MODULE ServerProcess ---------------------------
(***************************************************************************)
(* The server as a process: the loop of server/main.cpp that accepts       *)
(* connections and starts a thread for each, and the life of a Client from *)
(* `new` to the `delete this` at the end of its thread, with the           *)
(* descriptors it holds: its connection, and the file or directory of the  *)
(* command it executes.  What a session says is left to the other modules. *)
(*                                                                         *)
(* A descriptor is a number, the lowest that is free, so a number that is  *)
(* closed is soon another's.  When the table is full accept() fails at     *)
(* once, with or without a client, and main goes on with the -1.           *)
(***************************************************************************)
EXTENDS Integers, Sequences, FiniteSets

CONSTANTS Peer,       \* the clients
          Backlog,    \* of listen()
          Limit,      \* descriptors besides the listening socket's
          MaxThreads, \* threads the process may have besides main's
          None        \* no peer, no descriptor: -1

ASSUME ServerProcessAssumption ==
    /\ Backlog \in Nat \ {0} /\ Limit \in Nat \ {0} /\ MaxThreads \in Nat \ {0}
    /\ None \notin Peer \union Int

Fd == 1..Limit

(* A Client, by the place of its thread; one more may be without a thread. *)
Object == 0..MaxThreads

VARIABLES alive,   \* the process
          fds,     \* descriptors that are open
          clients, \* clients[o]: phase, sd, file and peer of a Client
          queue,   \* connections that wait for accept()
          online   \* peers that have not closed their end of the connection

vars == <<alive, fds, clients, queue, online>>

(* No Client.                                                              *)
Nobody == [phase |-> "none", sd |-> None, file |-> None, peer |-> None]

Init ==
    /\ alive = TRUE
    /\ fds = {}
    /\ clients = [o \in Object |-> Nobody]
    /\ queue = <<>>
    /\ online = {}

-----------------------------------------------------------------------------
Full == fds = Fd

Lowest == CHOOSE d \in Fd \ fds : \A e \in Fd \ fds : d <= e

Phase(o) == clients[o].phase

Threads == {o \in Object : Phase(o) \in {"handshake", "serving", "ended", "deleted"}}

Queued == {queue[i] : i \in 1..Len(queue)}

Held == {clients[o].peer : o \in Object} \ {None}

(* connect(): the kernel of the server completes it.                       *)
Connect(p) ==
    /\ alive /\ p \notin online \union Queued \union Held
    /\ Len(queue) < Backlog
    /\ queue' = Append(queue, p)
    /\ online' = online \union {p}
    /\ UNCHANGED <<alive, fds, clients>>

(* A peer quits, or its connection is lost.                                *)
Leave(p) ==
    /\ p \in online
    /\ online' = online \ {p}
    /\ UNCHANGED <<alive, fds, clients, queue>>

-----------------------------------------------------------------------------
(* main                                                                    *)

(* main is at accept() when every Client it has made has its thread.       *)
Accepting == alive /\ \A o \in Object : Phase(o) # "made"

Make(sd, p) ==
    LET o == CHOOSE o \in Object : Phase(o) = "none"
    IN  clients' = [clients EXCEPT ![o] = [phase |-> "made", sd |-> sd, file |-> None,
                                           peer |-> p]]

(* accept() and new Client.                                                *)
Accept ==
    /\ Accepting /\ ~Full /\ queue # <<>>
    /\ Make(Lowest, Head(queue))
    /\ fds' = fds \union {Lowest}
    /\ queue' = Tail(queue)
    /\ UNCHANGED <<alive, online>>

(* Mutant: 0 stands for no descriptor, as ~Connection has it.              *)
AcceptFailsAsZero ==
    /\ Accepting /\ Full
    /\ Make(0, None)
    /\ UNCHANGED <<alive, fds, queue, online>>

(* accept() fails, which nobody looks at: EMFILE.                          *)
AcceptFails ==
    /\ Accepting /\ Full
    /\ Make(None, None)
    /\ UNCHANGED <<alive, fds, queue, online>>

(* The thread of a Client is created and detached.                         *)
Spawn ==
    /\ alive /\ Cardinality(Threads) < MaxThreads
    /\ \E o \in Object :
         /\ Phase(o) = "made"
         /\ clients' = [clients EXCEPT ![o].phase = "handshake"]
    /\ UNCHANGED <<alive, fds, queue, online>>

(* std::thread throws a system_error, which main does not catch: the       *)
(* process is terminated and the kernel closes what it had open.           *)
SpawnFails ==
    /\ alive /\ Cardinality(Threads) = MaxThreads
    /\ \E o \in Object : Phase(o) = "made"
    /\ alive' = FALSE
    /\ fds' = {} /\ queue' = <<>>
    /\ clients' = [o \in Object |-> Nobody]
    /\ UNCHANGED online

-----------------------------------------------------------------------------
(* The thread of a Client                                                  *)

Handshake(o) ==
    /\ Phase(o) = "handshake" /\ clients[o].sd # None
    /\ clients' = [clients EXCEPT ![o].phase = "serving"]
    /\ UNCHANGED <<alive, fds, queue, online>>

(* cmd_retr, cmd_stor and cmd_list open a file or the directory; they give *)
(* a reply when they can not.                                              *)
OpenFile(o) ==
    /\ Phase(o) = "serving" /\ clients[o].file = None /\ ~Full
    /\ clients' = [clients EXCEPT ![o].file = Lowest]
    /\ fds' = fds \union {Lowest}
    /\ UNCHANGED <<alive, queue, online>>

CloseFile(o) ==
    /\ Phase(o) = "serving" /\ clients[o].file # None
    /\ clients' = [clients EXCEPT ![o].file = None]
    /\ fds' = fds \ {clients[o].file}
    /\ UNCHANGED <<alive, queue, online>>

(* Mutant: the connection is closed already, and again by ~Connection.     *)
EndCloses(o) ==
    /\ Phase(o) \in {"handshake", "serving"}
    /\ clients' = [clients EXCEPT ![o].phase = "ended", ![o].file = None]
    /\ fds' = fds \ {clients[o].file, clients[o].sd}
    /\ UNCHANGED <<alive, queue, online>>

(* Mutant: an exception leaves the file open.                              *)
EndLeaks(o) ==
    /\ Phase(o) \in {"handshake", "serving"}
    /\ clients' = [clients EXCEPT ![o].phase = "ended", ![o].file = None]
    /\ UNCHANGED <<alive, fds, queue, online>>

(* QUIT, or an exception that execute() catches: the file that was open is *)
(* closed on the way.                                                      *)
End(o) ==
    /\ Phase(o) \in {"handshake", "serving"}
    /\ clients' = [clients EXCEPT ![o].phase = "ended", ![o].file = None]
    /\ fds' = fds \ {clients[o].file}
    /\ UNCHANGED <<alive, queue, online>>

(* Mutant: ~Client does not delete the Connection.                         *)
DeleteKeepsConnection(o) ==
    /\ Phase(o) = "ended"
    /\ clients' = [clients EXCEPT ![o] = [Nobody EXCEPT !.phase = "deleted"]]
    /\ UNCHANGED <<alive, fds, queue, online>>

(* delete this: ~Client deletes the Connection, which closes its socket.   *)
Delete(o) ==
    /\ Phase(o) = "ended"
    /\ clients' = [clients EXCEPT ![o] = [Nobody EXCEPT !.phase = "deleted"]]
    /\ fds' = fds \ {clients[o].sd}
    /\ UNCHANGED <<alive, queue, online>>

(* execute() returns.                                                      *)
Exit(o) ==
    /\ Phase(o) = "deleted"
    /\ clients' = [clients EXCEPT ![o] = Nobody]
    /\ UNCHANGED <<alive, fds, queue, online>>

-----------------------------------------------------------------------------
Main == Accept \/ AcceptFails \/ Spawn \/ SpawnFails

(* recv() on a connection that is lost, or on -1, throws wherever the      *)
(* thread is.                                                              *)
Starved(o) == clients[o].peer \notin online /\ End(o)

Thread(o) == Handshake(o) \/ OpenFile(o) \/ CloseFile(o) \/ End(o) \/ Delete(o) \/ Exit(o)

Next ==
    \/ \E p \in Peer : Connect(p) \/ Leave(p)
    \/ Main
    \/ \E o \in Object : Thread(o)
    \/ ~alive /\ UNCHANGED vars

Spec == Init /\ [][Next]_vars

(* Threads are scheduled, a thread whose connection is lost gets to the    *)
(* next recv(), and no client stays for ever: a server that gives a silent *)
(* one no time limit has to assume this.                                   *)
FairSpec ==
    /\ Spec
    /\ WF_vars(Main)
    /\ \A o \in Object : WF_vars(Starved(o)) /\ WF_vars(Delete(o) \/ Exit(o))
    /\ \A p \in Peer : WF_vars(Leave(p))

-----------------------------------------------------------------------------
(* Properties                                                              *)

ClientType ==
    [phase : {"none", "made", "handshake", "serving", "ended", "deleted"},
     sd : Fd \union {None}, file : Fd \union {None}, peer : Peer \union {None}]

(* The types of the variables; of a Client that is gone nothing is left.   *)
TypeOK ==
    /\ alive \in BOOLEAN
    /\ fds \subseteq Fd
    /\ clients \in [Object -> ClientType]
    /\ \A o \in Object : Phase(o) = "none" => clients[o] = Nobody
    /\ queue \in Seq(Peer) /\ Len(queue) <= Backlog
    /\ online \subseteq Peer

Holds(o) == {clients[o].sd, clients[o].file} \ {None}

(* Every open descriptor belongs to one Client, which has not closed it:   *)
(* no close() hits a number that has become another's, none is forgotten.  *)
DescriptorsOwned ==
    /\ fds = UNION {Holds(o) : o \in Object}
    /\ \A o \in Object : clients[o].sd # None => clients[o].sd # clients[o].file
    /\ \A o, q \in Object : o # q => Holds(o) \intersect Holds(q) = {}

(* Only a thread that executes commands has a file open, and one that has  *)
(* been deleted has nothing; there are as many threads as there may be, so *)
(* that main has a place for the next Client when it gets to accept().     *)
ProcessInv ==
    /\ TypeOK
    /\ DescriptorsOwned
    /\ \A o \in Object :
         /\ clients[o].file # None => Phase(o) = "serving"
         /\ Phase(o) = "deleted" => clients[o].sd = None
    /\ Cardinality(Threads) <= MaxThreads

(* A client that waits for accept() gets a Client, or the process dies,    *)
(* however often accept() has failed before.                               *)
EveryoneServed ==
    \A p \in Peer : p \in Queued ~> p \notin Queued \/ ~alive

(* When clients stay away, all descriptors come back.                      *)
DescriptorsReturn == <>[](online = {}) => <>[](fds = {})
=============================================================================
