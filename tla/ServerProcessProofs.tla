------------------------- MODULE ServerProcessProofs -------------------------
(***************************************************************************)
(* Proofs about ServerProcess for every set of peers and every size of the *)
(* three tables: ProcessInv is inductive, so no descriptor of the server   *)
(* is ever closed by somebody else, closed twice or forgotten.             *)
(***************************************************************************)
EXTENDS ServerProcess, FiniteSetTheorems, WellFoundedInduction, TLAPS

-----------------------------------------------------------------------------
(* Lemmas about the operators of the model.                                *)

(* No number is None.                                                      *)
LEMMA NoneIsNoFd == None \notin Fd /\ None \notin Peer
BY ServerProcessAssumption DEF Fd

(* A table that is not full has a lowest free descriptor.                  *)
LEMMA LowestIsFree ==
    ASSUME ~Full, fds \subseteq Fd
    PROVE  Lowest \in Fd \ fds
<1> DEFINE R == OpToRel(<, Nat)
<1>1. IsWellFoundedOn(R, Nat)
  BY NatLessThanWellFounded
<1>2. \A x, y \in Nat : y < x => <<y, x>> \in R
  BY DEF OpToRel
<1> HIDE DEF R
<1>3. Fd \ fds \subseteq Nat
  BY ServerProcessAssumption DEF Fd
<1>4. Fd \ fds # {}
  BY DEF Full
<1>5. PICK d \in Fd \ fds : \A e \in Fd \ fds : ~ (<<e, d>> \in R)
  BY <1>1, <1>3, <1>4, WFMin
<1>6. \A e \in Fd \ fds : d <= e
  <2> SUFFICES ASSUME NEW e \in Fd \ fds PROVE d <= e
    OBVIOUS
  <2>1. d \in Nat /\ e \in Nat
    BY <1>3
  <2>2. ~ (e < d)
    BY <2>1, <1>2, <1>5
  <2> QED
    BY <2>1, <2>2
<1> QED
  BY <1>6 DEF Lowest

(* There is at most one Client per place, so the set of threads is finite, *)
(* and a place is free as long as the threads leave one.                   *)
LEMMA PlaceForClient ==
    ASSUME clients \in [Object -> ClientType], Accepting,
           Cardinality(Threads) <= MaxThreads
    PROVE  \E o \in Object : Phase(o) = "none"
<1>1. SUFFICES ASSUME \A o \in Object : Phase(o) # "none" PROVE FALSE
  OBVIOUS
<1>2. Threads = Object
  BY <1>1 DEF Accepting, Phase, ClientType, Threads
<1>3. Cardinality(Object) = MaxThreads + 1
  BY FS_Interval, ServerProcessAssumption DEF Object
<1> QED
  BY <1>2, <1>3, ServerProcessAssumption

LEMMA ThreadsFinite == IsFiniteSet(Threads) /\ Cardinality(Threads) \in Nat
<1>1. IsFiniteSet(Object)
  BY FS_Interval, ServerProcessAssumption DEF Object
<1>2. Threads \in SUBSET Object
  BY DEF Threads
<1> QED
  BY <1>1, <1>2, FS_Subset, FS_CardinalityType

(* What happens to the descriptors when one Client is replaced by another, *)
(* or changes: those it gives up are closed, those it gets were free.      *)
LEMMA OneClientChanges ==
    ASSUME DescriptorsOwned, clients \in [Object -> ClientType],
           NEW o \in Object, NEW c \in ClientType,
           clients' = [clients EXCEPT ![o] = c],
           NEW H, H = {c.sd, c.file} \ {None},
           H \intersect (fds \ Holds(o)) = {},
           fds' = (fds \ Holds(o)) \union H,
           c.sd # None => c.sd # c.file
    PROVE  DescriptorsOwned'
<1>1. Holds(o)' = H
  BY DEF Holds
<1>2. \A q \in Object \ {o} : clients'[q] = clients[q] /\ Holds(q)' = Holds(q)
  BY DEF Holds
<1>3. \A d : d \in fds <=> \E q \in Object : d \in Holds(q)
  BY DEF DescriptorsOwned
<1>4. \A q \in Object \ {o} : Holds(q) \intersect Holds(o) = {}
  BY DEF DescriptorsOwned
<1>5. fds' = UNION {Holds(q)' : q \in Object}
  <2>1. ASSUME NEW d \in fds' PROVE \E q \in Object : d \in Holds(q)'
    BY <1>1, <1>2, <1>3, <2>1
  <2>2. ASSUME NEW q \in Object, NEW d \in Holds(q)' PROVE d \in fds'
    BY <1>1, <1>2, <1>3, <1>4, <2>2
  <2> QED
    BY <2>1, <2>2
<1>6. \A q \in Object : clients'[q].sd # None => clients'[q].sd # clients'[q].file
  BY <1>2 DEF DescriptorsOwned
<1>7. \A q \in Object \ {o} : Holds(q) \intersect H = {}
  BY <1>3, <1>4
<1>8. \A p, q \in Object : p # q => Holds(p)' \intersect Holds(q)' = {}
  <2> SUFFICES ASSUME NEW p \in Object, NEW q \in Object, p # q
               PROVE  Holds(p)' \intersect Holds(q)' = {}
    OBVIOUS
  <2>1. CASE p = o
    BY <2>1, <1>1, <1>2, <1>7
  <2>2. CASE q = o
    BY <2>2, <1>1, <1>2, <1>7
  <2>3. CASE p # o /\ q # o
    BY <2>3, <1>2 DEF DescriptorsOwned
  <2> QED
    BY <2>1, <2>2, <2>3
<1> QED
  BY <1>5, <1>6, <1>8 DEF DescriptorsOwned

-----------------------------------------------------------------------------
(* A state in which there is no Client satisfies the invariant: the        *)
(* initial one, and the one in which the process is terminated.            *)
NoClients ==
    /\ clients = [o \in Object |-> Nobody] /\ fds = {} /\ queue = <<>>
    /\ alive \in BOOLEAN /\ online \subseteq Peer

LEMMA NobodyInv == NoClients => ProcessInv
<1> SUFFICES ASSUME NoClients PROVE ProcessInv
  OBVIOUS
<1> USE DEF NoClients
<1>1. TypeOK
  BY ServerProcessAssumption DEF TypeOK, ClientType, Nobody, Phase
<1>2. \A o \in Object : clients[o] = Nobody /\ Holds(o) = {}
  BY DEF Holds, Nobody
<1>3. DescriptorsOwned
  BY <1>2 DEF DescriptorsOwned, Nobody
<1>4. Threads = {}
  BY <1>2 DEF Threads, Phase, Nobody
<1>5. Cardinality(Threads) <= MaxThreads
  BY <1>4, FS_EmptySet, ServerProcessAssumption
<1> QED
  BY <1>1, <1>2, <1>3, <1>5 DEF ProcessInv, Phase, Nobody

(* A step that changes one Client preserves the invariant if what becomes  *)
(* of the Client is well formed, if the descriptors it gets were free and  *)
(* those it gives up are closed, and if a thread is only added when there  *)
(* is room.                                                                *)
HasThread(phase) == phase \in {"handshake", "serving", "ended", "deleted"}

LEMMA OneClientInv ==
    ASSUME ProcessInv,
           NEW o \in Object, NEW c \in ClientType,
           clients' = [clients EXCEPT ![o] = c],
           c.phase = "none" => c = Nobody,
           c.file # None => c.phase = "serving",
           c.phase = "deleted" => c.sd = None,
           c.sd # None => c.sd # c.file,
           NEW H, H = {c.sd, c.file} \ {None},
           H \intersect (fds \ Holds(o)) = {},
           fds' = (fds \ Holds(o)) \union H,
           \/ HasThread(c.phase) => HasThread(clients[o].phase)
           \/ Cardinality(Threads) < MaxThreads,
           alive' \in BOOLEAN, queue' \in Seq(Peer), Len(queue') <= Backlog,
           online' \subseteq Peer
    PROVE  ProcessInv'
<1>1. DescriptorsOwned'
  BY OneClientChanges DEF ProcessInv, TypeOK
<1>2. /\ clients' \in [Object -> ClientType] /\ clients'[o] = c
      /\ \A q \in Object \ {o} : clients'[q] = clients[q]
  BY DEF ProcessInv, TypeOK
<1>3. fds' \subseteq Fd
  <2>1. H \subseteq Fd
    BY DEF ClientType
  <2> QED
    BY <2>1 DEF ProcessInv, TypeOK
<1>4. \A q \in Object : /\ clients'[q].phase = "none" => clients'[q] = Nobody
                        /\ clients'[q].file # None => clients'[q].phase = "serving"
                        /\ clients'[q].phase = "deleted" => clients'[q].sd = None
  BY <1>2 DEF ProcessInv, TypeOK, Phase
<1>5. Cardinality(Threads') <= MaxThreads
  <2>1. IsFiniteSet(Threads) /\ Cardinality(Threads) \in Nat
        /\ Cardinality(Threads) <= MaxThreads
    BY ThreadsFinite DEF ProcessInv
  <2>2. Threads' \subseteq Threads \union (IF HasThread(c.phase) THEN {o} ELSE {})
    BY <1>2 DEF Threads, Phase, HasThread
  <2>3. CASE HasThread(c.phase) => HasThread(clients[o].phase)
    <3>1. Threads' \subseteq Threads
      BY <2>2, <2>3 DEF Threads, Phase, HasThread
    <3> QED
      BY <2>1, <3>1, FS_Subset, FS_CardinalityType, ServerProcessAssumption
  <2>4. CASE Cardinality(Threads) < MaxThreads
    <3>1. /\ IsFiniteSet(Threads \union {o})
          /\ Cardinality(Threads \union {o}) <= Cardinality(Threads) + 1
      <4>1. IsFiniteSet(Threads) /\ Cardinality(Threads) \in Nat
        BY <2>1
      <4>2. /\ IsFiniteSet(Threads \union {o})
            /\ Cardinality(Threads \union {o}) =
                 IF o \in Threads THEN Cardinality(Threads) ELSE Cardinality(Threads) + 1
        BY <4>1, FS_AddElement
      <4> QED
        BY <4>1, <4>2
    <3>2. Threads' \in SUBSET (Threads \union {o})
      BY <2>2
    <3>3. /\ Cardinality(Threads') <= Cardinality(Threads \union {o})
          /\ Cardinality(Threads') \in Nat /\ Cardinality(Threads \union {o}) \in Nat
      BY <3>1, <3>2, FS_Subset, FS_CardinalityType
    <3> QED
      BY <2>1, <2>4, <3>1, <3>3, ServerProcessAssumption
  <2> QED
    BY <2>3, <2>4
<1> QED
  BY <1>1, <1>2, <1>3, <1>4, <1>5 DEF ProcessInv, TypeOK, Phase

-----------------------------------------------------------------------------
(* Every step preserves the invariant: one lemma per process, one step per *)
(* action.                                                                 *)

(* The queue and the peers do not matter to the Clients.                   *)
LEMMA ClientsUntouched ==
    ASSUME ProcessInv, UNCHANGED <<alive, fds, clients>>,
           queue' \in Seq(Peer), Len(queue') <= Backlog, online' \subseteq Peer
    PROVE  ProcessInv'
<1>1. TypeOK'
  BY DEF ProcessInv, TypeOK, Phase
<1>2. DescriptorsOwned'
  BY DEF ProcessInv, DescriptorsOwned, Holds
<1>3. Threads' = Threads
  BY DEF Threads, Phase
<1> QED
  BY <1>1, <1>2, <1>3 DEF ProcessInv, Phase

(* Clients come to the queue and go.                                       *)
LEMMA PeerInv ==
    ASSUME ProcessInv, NEW p \in Peer, Connect(p) \/ Leave(p)
    PROVE  ProcessInv'
<1>1. UNCHANGED <<alive, fds, clients>>
  BY DEF Connect, Leave
<1>2. queue' \in Seq(Peer) /\ Len(queue') <= Backlog /\ online' \subseteq Peer
  BY ServerProcessAssumption DEF Connect, Leave, ProcessInv, TypeOK
<1> QED
  BY <1>1, <1>2, ClientsUntouched

(* main takes the lowest free descriptor, or none, for a Client that has   *)
(* no descriptor yet, and gives a thread only if there is room for it.     *)
LEMMA MainInv ==
    ASSUME ProcessInv, Main
    PROVE  ProcessInv'
<1> USE DEF ProcessInv, TypeOK
<1>1. ASSUME NEW sd \in (Fd \ fds) \union {None}, NEW p \in Peer \union {None},
             Accepting, Make(sd, p), fds' = fds \union ({sd} \ {None}),
             alive' = alive, queue' \in Seq(Peer), Len(queue') <= Backlog, online' = online
      PROVE  ProcessInv'
  <2> DEFINE c == [phase |-> "made", sd |-> sd, file |-> None, peer |-> p]
  <2>1. PICK o \in Object : /\ clients[o] = Nobody
                            /\ clients' = [clients EXCEPT ![o] = c]
    BY <1>1, PlaceForClient DEF Make
  <2>2. Holds(o) = {}
    BY <2>1 DEF Holds, Nobody
  <2>3. c \in ClientType
    BY DEF ClientType
  <2>4. {c.sd, c.file} \ {None} = {sd} \ {None}
    OBVIOUS
  <2>5. ({sd} \ {None}) \intersect (fds \ Holds(o)) = {}
    OBVIOUS
  <2>6. fds' = (fds \ Holds(o)) \union ({sd} \ {None})
    BY <1>1, <2>2
  <2>7. ~HasThread(c.phase)
    BY DEF HasThread
  <2> QED
    BY <1>1, <2>1, <2>3, <2>4, <2>5, <2>6, <2>7, OneClientInv
<1>2. CASE Accept
  <2>1. Lowest \in Fd \ fds
    BY <1>2, LowestIsFree DEF Accept
  <2>2. Head(queue) \in Peer /\ Tail(queue) \in Seq(Peer) /\ Len(Tail(queue)) <= Backlog
    BY <1>2, ServerProcessAssumption DEF Accept
  <2>3. {Lowest} \ {None} = {Lowest}
    BY <2>1, NoneIsNoFd
  <2> QED
    BY <1>1, <1>2, <2>1, <2>2, <2>3 DEF Accept
<1>3. CASE AcceptFails
  BY <1>1, <1>3 DEF AcceptFails
<1>4. CASE Spawn
  <2>1. PICK o \in Object : /\ Phase(o) = "made"
                            /\ clients' = [clients EXCEPT ![o].phase = "handshake"]
    BY <1>4 DEF Spawn
  <2> DEFINE c == [clients[o] EXCEPT !.phase = "handshake"]
  <2>2. /\ c \in ClientType /\ clients' = [clients EXCEPT ![o] = c]
        /\ c.phase = "handshake" /\ c.sd = clients[o].sd /\ c.file = clients[o].file
    BY <2>1 DEF ClientType
  <2>3. c.file = None
    BY <2>1, <2>2 DEF Phase
  <2>4. fds' = (fds \ Holds(o)) \union ({c.sd, c.file} \ {None})
    BY <1>4, <2>2 DEF Spawn, Holds, DescriptorsOwned
  <2>5. ({c.sd, c.file} \ {None}) \intersect (fds \ Holds(o)) = {}
    BY <2>2 DEF Holds
  <2>6. c.sd # None => c.sd # c.file
    BY <2>2 DEF DescriptorsOwned
  <2>7. /\ alive' \in BOOLEAN /\ queue' \in Seq(Peer) /\ Len(queue') <= Backlog
        /\ online' \subseteq Peer /\ Cardinality(Threads) < MaxThreads
    BY <1>4 DEF Spawn
  <2> HIDE DEF c
  <2>8. /\ c.phase # "none" /\ c.phase # "deleted" /\ (c.file # None => c.phase = "serving")
    BY <2>2, <2>3
  <2> HIDE DEF TypeOK, ProcessInv
  <2> QED
    BY <2>1, <2>2, <2>4, <2>5, <2>6, <2>7, <2>8, OneClientInv
<1>5. CASE SpawnFails
  <2>1. NoClients'
    BY <1>5 DEF SpawnFails, NoClients
  <2>2. NoClients' => ProcessInv'
    BY NobodyInv, PTL
  <2> QED
    BY <2>1, <2>2
<1> QED
  BY <1>2, <1>3, <1>4, <1>5 DEF Main

(* A thread opens the lowest free descriptor, closes its own and gives     *)
(* back all that is left when it ends.                                     *)
LEMMA ThreadInv ==
    ASSUME ProcessInv, NEW o \in Object, Thread(o)
    PROVE  ProcessInv'
<1> USE DEF ProcessInv, TypeOK
<1>1. ASSUME NEW c \in ClientType, clients' = [clients EXCEPT ![o] = c],
             c.phase = "none" => c = Nobody,
             c.file # None => c.phase = "serving",
             c.phase = "deleted" => c.sd = None,
             c.sd # None => c.sd # c.file,
             ({c.sd, c.file} \ {None}) \intersect (fds \ Holds(o)) = {},
             fds' = (fds \ Holds(o)) \union ({c.sd, c.file} \ {None}),
             HasThread(c.phase) => HasThread(clients[o].phase),
             UNCHANGED <<alive, queue, online>>
      PROVE  ProcessInv'
  BY <1>1, OneClientInv
<1>2. /\ clients[o] \in ClientType /\ Holds(o) \subseteq fds
      /\ clients[o].sd # None => clients[o].sd # clients[o].file
      /\ clients[o].file # None => Phase(o) = "serving"
  BY DEF DescriptorsOwned
<1>3. CASE Handshake(o)
  <2> DEFINE c == [clients[o] EXCEPT !.phase = "serving"]
  <2>1. /\ c \in ClientType /\ clients' = [clients EXCEPT ![o] = c]
        /\ c.phase = "serving" /\ c.sd = clients[o].sd /\ c.file = clients[o].file
    BY <1>2, <1>3 DEF ClientType, Handshake
  <2> HIDE DEF c
  <2>2. HasThread(clients[o].phase)
    BY <1>3 DEF Handshake, HasThread, Phase
  <2> QED
    BY <1>1, <1>2, <1>3, <2>1, <2>2 DEF Handshake, Holds
<1>4. CASE OpenFile(o)
  <2> DEFINE c == [clients[o] EXCEPT !.file = Lowest]
  <2>1. Lowest \in Fd \ fds /\ Lowest # None
    BY <1>4, LowestIsFree, NoneIsNoFd DEF OpenFile
  <2>2. /\ c \in ClientType /\ clients' = [clients EXCEPT ![o] = c]
        /\ c.phase = "serving" /\ c.sd = clients[o].sd /\ c.file = Lowest
    BY <1>2, <1>4, <2>1 DEF ClientType, OpenFile, Phase
  <2> HIDE DEF c
  <2>3. Holds(o) = {clients[o].sd} \ {None}
    BY <1>4 DEF OpenFile, Holds
  <2>4. clients[o].sd # Lowest
    BY <1>2, <2>1, <2>3
  <2>5. HasThread(clients[o].phase)
    BY <1>4 DEF OpenFile, HasThread, Phase
  <2>6. fds' = (fds \ Holds(o)) \union ({c.sd, c.file} \ {None})
    <3>1. fds' = fds \union {Lowest}
      BY <1>4 DEF OpenFile
    <3> QED
      BY <3>1, <1>2, <2>1, <2>2, <2>3
  <2>7. ({c.sd, c.file} \ {None}) \intersect (fds \ Holds(o)) = {}
    BY <2>1, <2>2, <2>3
  <2> QED
    BY <1>1, <1>4, <2>2, <2>4, <2>5, <2>6, <2>7 DEF OpenFile
<1>5. CASE CloseFile(o)
  <2> DEFINE c == [clients[o] EXCEPT !.file = None]
  <2>1. /\ c \in ClientType /\ clients' = [clients EXCEPT ![o] = c]
        /\ c.phase = "serving" /\ c.sd = clients[o].sd /\ c.file = None
    BY <1>2, <1>5 DEF ClientType, CloseFile, Phase
  <2> HIDE DEF c
  <2>2. HasThread(clients[o].phase)
    BY <1>5 DEF CloseFile, HasThread, Phase
  <2>3. fds' = (fds \ Holds(o)) \union ({c.sd, c.file} \ {None})
    BY <1>2, <1>5, <2>1 DEF CloseFile, Holds
  <2>4. ({c.sd, c.file} \ {None}) \intersect (fds \ Holds(o)) = {}
    BY <2>1 DEF Holds
  <2> QED
    BY <1>1, <1>5, <2>1, <2>2, <2>3, <2>4 DEF CloseFile
<1>6. CASE End(o)
  <2> DEFINE c == [clients[o] EXCEPT !.phase = "ended", !.file = None]
  <2>1. /\ c \in ClientType /\ clients' = [clients EXCEPT ![o] = c]
        /\ c.phase = "ended" /\ c.sd = clients[o].sd /\ c.file = None
    BY <1>2, <1>6 DEF ClientType, End
  <2> HIDE DEF c
  <2>2. HasThread(clients[o].phase)
    BY <1>6 DEF End, HasThread, Phase
  <2>3. None \notin fds
    BY NoneIsNoFd
  <2>4. fds' = (fds \ Holds(o)) \union ({c.sd, c.file} \ {None})
    BY <1>2, <1>6, <2>1, <2>3 DEF End, Holds
  <2>5. ({c.sd, c.file} \ {None}) \intersect (fds \ Holds(o)) = {}
    BY <2>1 DEF Holds
  <2> QED
    BY <1>1, <1>6, <2>1, <2>2, <2>4, <2>5 DEF End
<1>7. CASE Delete(o)
  <2> DEFINE c == [Nobody EXCEPT !.phase = "deleted"]
  <2>1. /\ c \in ClientType /\ clients' = [clients EXCEPT ![o] = c]
        /\ c.phase = "deleted" /\ c.sd = None /\ c.file = None
    BY <1>7 DEF ClientType, Delete, Nobody
  <2> HIDE DEF c
  <2>2. HasThread(clients[o].phase) /\ clients[o].file = None
    BY <1>2, <1>7 DEF Delete, HasThread, Phase
  <2>3. None \notin fds
    BY NoneIsNoFd
  <2>4. fds' = fds \ Holds(o)
    BY <1>7, <2>2, <2>3 DEF Delete, Holds
  <2>5. {c.sd, c.file} \ {None} = {}
    BY <2>1
  <2>6. UNCHANGED <<alive, queue, online>>
    BY <1>7 DEF Delete
  <2> QED
    BY <1>1, <2>1, <2>2, <2>4, <2>5, <2>6
<1>8. CASE Exit(o)
  <2>1. /\ Nobody \in ClientType
        /\ Nobody.phase = "none" /\ Nobody.sd = None /\ Nobody.file = None
    BY DEF ClientType, Nobody
  <2>2. Holds(o) = {}
    BY <1>2, <1>8 DEF Exit, Holds, Phase
  <2> QED
    BY <1>1, <1>8, <2>1, <2>2 DEF Exit, HasThread
<1> QED
  BY <1>3, <1>4, <1>5, <1>6, <1>7, <1>8 DEF Thread

-----------------------------------------------------------------------------
(* The tables of the process are in order at every moment, whatever their  *)
(* sizes are and however often accept() and std::thread fail.              *)
THEOREM ProcessInvariant == Spec => []ProcessInv
<1>1. Init => ProcessInv
  <2>1. Init => NoClients
    BY DEF Init, NoClients
  <2> QED
    BY <2>1, NobodyInv
<1>2. ProcessInv /\ [Next]_vars => ProcessInv'
  <2> SUFFICES ASSUME ProcessInv, [Next]_vars PROVE ProcessInv'
    OBVIOUS
  <2>1. CASE \E p \in Peer : Connect(p) \/ Leave(p)
    BY <2>1, PeerInv
  <2>2. CASE Main
    BY <2>2, MainInv
  <2>3. CASE \E o \in Object : Thread(o)
    BY <2>3, ThreadInv
  <2>4. CASE UNCHANGED vars
    BY <2>4, ClientsUntouched DEF vars, ProcessInv, TypeOK
  <2> QED
    BY <2>1, <2>2, <2>3, <2>4 DEF Next
<1> QED
  BY <1>1, <1>2, PTL DEF Spec

(* Clients, tables and queue keep their types.                             *)
THEOREM ProcessTypeCorrect == Spec => []TypeOK
<1>1. ProcessInv => TypeOK
  BY DEF ProcessInv
<1> QED
  BY <1>1, ProcessInvariant, PTL

(* Every open descriptor has one owner: a number is closed by the Client   *)
(* that got it, before the kernel gives it to another.                     *)
THEOREM OwnersOfDescriptors == Spec => []DescriptorsOwned
<1>1. ProcessInv => DescriptorsOwned
  BY DEF ProcessInv
<1> QED
  BY <1>1, ProcessInvariant, PTL
=============================================================================
