----------------------------- MODULE FileServer -----------------------------
(***************************************************************************)
(* The directory root/ under the threads of the server: cmd_dele, cmd_retr *)
(* and cmd_stor of server/client.cpp as several sessions run them at the   *)
(* same time.  No lock protects a file.                                    *)
(*                                                                         *)
(* A file is an inode; a name of root/ leads to one, and a session that    *)
(* has opened a file holds on to the inode whatever becomes of the name.   *)
(* The steps are the system calls that an fstream makes.  The network is   *)
(* left out: the bytes of an upload come as they come, and a session may   *)
(* end at any time.  Byte k of upload u is <<u, k>>.                       *)
(***************************************************************************)
EXTENDS Integers, Sequences

CONSTANTS Session, Name,
          Inode,       \* inodes root/ may use
          None,        \* no inode, no name
          Old,         \* the upload that a file of the beginning came from
          OldSize,     \* its size
          MaxSize,     \* bound: size of an upload
          FragmentMax, \* BUFFER_SIZE: bytes received at a time
          ReadAhead,   \* the buffer of an fstream: bytes read at a time
          MaxUploads,  \* bound: uploads of one session
          MaxCommands, \* bound: commands of one session
          MayCrash     \* may the process die, once?

ASSUME FileServerAssumption ==
    /\ None \notin Inode \union Name
    /\ OldSize \in Nat /\ MaxSize \in Nat
    /\ FragmentMax \in Nat \ {0} /\ ReadAhead \in Nat \ {0}
    /\ MaxUploads \in Nat /\ MaxCommands \in Nat
    /\ MayCrash \in BOOLEAN

VARIABLES
    dir,       \* dir[f]: the inode that name f of root/ leads to
    data,      \* data[i]: the content of inode i
    h,         \* h[s]: what the handler of s has on its stack:
               \*   pc     "idle", "opened", "sending" or "storing"
               \*   name   the file name of the command
               \*   file   the inode it has open
               \*   size   the size announced in the reply or the request
               \*   pos    bytes read from the file, or written to it
               \*   recvd  bytes of an upload received; those past pos are
               \*          in the buffer of the fstream
               \*   sent   the body of a download as sent so far
               \*   held   history: what the file held when it was opened
    uploads,   \* uploads[s]: how many uploads s has begun
    commands,  \* commands[s]: how many commands s has begun
    crashed,   \* has the process died?
    touched,   \* history: sessions whose open file another has truncated
               \* or written since they opened it
    unlinked,  \* history: sessions whose name another has removed since
    overlaid   \* history: inodes that two uploads have had open at a time,
               \* since one upload opened it alone

histories == <<touched, unlinked, overlaid>>
vars == <<dir, data, h, uploads, commands, crashed, histories>>

(* Bytes a file has never been given; they read as zero.                   *)
Hole == <<None, 0>>

Body(u, n) == [k \in 1..n |-> <<u, k>>]

Upload(s) == <<s, uploads[s]>>

(* No handler: what a session starts with and what a handler leaves.       *)
Idle == [pc |-> "idle", name |-> None, file |-> None, size |-> 0,
         pos |-> 0, recvd |-> 0, sent |-> <<>>, held |-> <<>>]

Busy(s) == h[s].pc # "idle"

Sharers(s, i) == {t \in Session \ {s} : h[t].file = i}

(* An inode goes when no name leads to it and nobody has it open.          *)
Unused == {i \in Inode : /\ \A f \in Name : dir[f] # i
                         /\ \A s \in Session : h[s].file # i}

Init ==
    /\ dir \in {d \in [Name -> Inode \union {None}] :
                  \A f, g \in Name : f # g /\ d[f] # None => d[f] # d[g]}
    /\ data = [i \in Inode |->
                 IF \E f \in Name : dir[f] = i THEN Body(Old, OldSize) ELSE <<>>]
    /\ h = [s \in Session |-> Idle]
    /\ uploads = [s \in Session |-> 0] /\ commands = [s \in Session |-> 0]
    /\ crashed = FALSE
    /\ touched = {} /\ unlinked = {} /\ overlaid = {}

(* A session that waits for a command gets one.                            *)
Begin(s) ==
    /\ h[s].pc = "idle" /\ commands[s] < MaxCommands
    /\ commands' = [commands EXCEPT ![s] = @ + 1]

(* What the handler of s has on its stack when it has opened inode i.      *)
Opened(phase, f, i, n) ==
    [Idle EXCEPT !.pc = phase, !.name = f, !.file = i, !.size = n, !.held = data[i]]

(* The handler of s returns, or an exception leaves it.                    *)
Return(s) ==
    /\ h' = [h EXCEPT ![s] = Idle]
    /\ unlinked' = unlinked \ {s}
    /\ UNCHANGED <<dir, uploads, commands, crashed, overlaid>>

-----------------------------------------------------------------------------
(* DELE: remove().  Files that are open stay until they are closed.        *)
Dele(s, f) ==
    /\ Begin(s)
    /\ dir[f] # None
    /\ dir' = [dir EXCEPT ![f] = None]
    /\ unlinked' = unlinked \union {t \in Session : h[t].name = f}
    /\ UNCHANGED <<data, h, uploads, crashed, touched, overlaid>>

-----------------------------------------------------------------------------
(* RETR                                                                    *)

RetrOpen(s, f) ==
    /\ Begin(s)
    /\ dir[f] # None
    /\ h' = [h EXCEPT ![s] = Opened("opened", f, dir[f], 0)]
    /\ UNCHANGED <<dir, data, uploads, crashed, histories>>

(* seekg to the end, tellg, and the reply with the size.                   *)
RetrMeasure(s) ==
    /\ h[s].pc = "opened"
    /\ h' = [h EXCEPT ![s].size = Len(data[h[s].file]), ![s].pc = "sending"]
    /\ UNCHANGED <<dir, data, uploads, commands, crashed, histories>>

(* Mutant: the file is read by its name again and again.                   *)
ContentByName(s) == IF dir[h[s].name] = None THEN <<>> ELSE data[dir[h[s].name]]

(* What a session reads: the file it has open.                             *)
Content(s) == data[h[s].file]

(* The fstream fills its buffer, and get() hands it to the reply.          *)
RetrRead(s) ==
    LET left == Len(Content(s)) - h[s].pos
        n    == IF left < ReadAhead THEN left ELSE ReadAhead
    IN  /\ h[s].pc = "sending" /\ left > 0
        /\ h' = [h EXCEPT ![s].sent = @ \o SubSeq(Content(s), h[s].pos + 1, h[s].pos + n),
                          ![s].pos = @ + n]
        /\ UNCHANGED <<dir, data, uploads, commands, crashed, histories>>

(* The loop ends at the end of the file, wherever that is by now.          *)
RetrDone(s) ==
    /\ h[s].pc = "sending" /\ h[s].pos >= Len(Content(s))
    /\ Return(s) /\ touched' = touched \ {s}
    /\ UNCHANGED data

(* The connection of s is lost during a download.                          *)
RetrAbort(s) ==
    /\ h[s].pc \in {"opened", "sending"}
    /\ Return(s) /\ touched' = touched \ {s}
    /\ UNCHANGED data

-----------------------------------------------------------------------------
(* STOR                                                                    *)

(* Mutant: the file is opened without being truncated.                     *)
TruncateNot(i) == data

Truncate(i) == [data EXCEPT ![i] = <<>>]

(* Opening for output truncates the file, or makes a new one.              *)
StorOpen(s, f, n) ==
    /\ Begin(s)
    /\ uploads[s] < MaxUploads
    /\ uploads' = [uploads EXCEPT ![s] = @ + 1]
    /\ \E i \in IF dir[f] # None THEN {dir[f]} ELSE Unused :
         /\ data' = Truncate(i)
         /\ dir' = [dir EXCEPT ![f] = i]
         /\ h' = [h EXCEPT ![s] = Opened("storing", f, i, n)]
         /\ touched' = touched \union Sharers(s, i)
         /\ overlaid' = IF \E t \in Sharers(s, i) : h[t].pc = "storing"
                         THEN overlaid \union {i} ELSE overlaid \ {i}
    /\ UNCHANGED <<crashed, unlinked>>

(* Mutant: the buffer of the fstream is written at the end of the file.    *)
WrittenAtEnd(s, n) ==
    Content(s) \o [k \in 1..n - h[s].pos |-> <<Upload(s), h[s].pos + k>>]

(* The file of s after its upload is written up to byte n, each byte at    *)
(* its place.  What lies between the end of the file and the place of the  *)
(* first is a hole.                                                        *)
Written(s, n) ==
    LET old == Content(s)
    IN  [k \in 1..(IF Len(old) < n THEN n ELSE Len(old)) |->
           IF k \in h[s].pos + 1 .. n THEN <<Upload(s), k>>
           ELSE IF k <= Len(old) THEN old[k] ELSE Hole]

(* Mutant: a fragment may be longer than what is left of the upload.       *)
FragmentsGreedy(s) == 1..FragmentMax

(* How long a fragment may be.                                             *)
Fragments(s) == {n \in 1..FragmentMax : h[s].recvd + n <= h[s].size}

(* A fragment arrives.  The fstream keeps it, or writes all that it has.   *)
StorChunk(s) ==
    /\ h[s].pc = "storing" /\ h[s].recvd < h[s].size
    /\ \E n \in Fragments(s) :
         LET recvd == h[s].recvd + n
         IN  \/ /\ h' = [h EXCEPT ![s].recvd = recvd]
                /\ UNCHANGED <<data, touched>>
             \/ /\ h' = [h EXCEPT ![s].recvd = recvd, ![s].pos = recvd]
                /\ data' = [data EXCEPT ![h[s].file] = Written(s, recvd)]
                /\ touched' = touched \union Sharers(s, h[s].file)
    /\ UNCHANGED <<dir, uploads, commands, crashed, unlinked, overlaid>>

(* Mutant: what is in the buffer is not written when the file is closed.   *)
StorCloseForgets(s) ==
    /\ h[s].pc = "storing"
    /\ Return(s) /\ touched' = touched \ {s}
    /\ UNCHANGED data

(* The file is closed, which writes what the fstream still has, if it has  *)
(* anything: at the end of cmd_stor, or as an exception leaves it when the *)
(* connection is lost.                                                     *)
StorClose(s) ==
    /\ h[s].pc = "storing"
    /\ \/ /\ h[s].recvd > h[s].pos
          /\ data' = [data EXCEPT ![h[s].file] = Written(s, h[s].recvd)]
          /\ touched' = (touched \union Sharers(s, h[s].file)) \ {s}
       \/ /\ h[s].recvd = h[s].pos
          /\ UNCHANGED data /\ touched' = touched \ {s}
    /\ Return(s)

-----------------------------------------------------------------------------
(* The process dies, with what its fstreams had not written, and is        *)
(* started again: root/ is as the system calls left it.                    *)
Crash ==
    /\ MayCrash /\ ~crashed
    /\ crashed' = TRUE
    /\ h' = [s \in Session |-> Idle]
    /\ touched' = {} /\ unlinked' = {}
    /\ UNCHANGED <<dir, data, uploads, commands, overlaid>>

(* All clients have quit.                                                  *)
Done ==
    /\ \A s \in Session : ~Busy(s) /\ commands[s] = MaxCommands
    /\ UNCHANGED vars

Step(s) ==
    \/ \E f \in Name :
         Dele(s, f) \/ RetrOpen(s, f) \/ \E n \in 0..MaxSize : StorOpen(s, f, n)
    \/ RetrMeasure(s) \/ RetrRead(s) \/ RetrDone(s) \/ RetrAbort(s)
    \/ StorChunk(s) \/ StorClose(s)

Next == (\E s \in Session : Step(s)) \/ Crash \/ Done

Spec == Init /\ [][Next]_vars

-----------------------------------------------------------------------------
(* Properties                                                              *)

Phase == {"idle", "opened", "sending", "storing"}

Bytes == (({Old} \union (Session \X Nat)) \X Nat) \union {Hole}

Handler ==
    [pc : Phase, name : Name \union {None}, file : Inode \union {None}, size : Nat,
     pos : Nat, recvd : Nat, sent : Seq(Bytes), held : Seq(Bytes)]

(* The types of the variables, and the order of the cursors of an upload.  *)
TypeOK ==
    /\ dir \in [Name -> Inode \union {None}]
    /\ data \in [Inode -> Seq(Bytes)]
    /\ h \in [Session -> Handler]
    /\ uploads \in [Session -> Nat] /\ commands \in [Session -> Nat]
    /\ crashed \in BOOLEAN
    /\ \A s \in Session :
         /\ Busy(s) <=> h[s].file # None
         /\ Busy(s) <=> h[s].name # None
         /\ h[s].pc = "storing" => h[s].pos <= h[s].recvd /\ h[s].recvd <= h[s].size
    /\ touched \union unlinked \subseteq {s \in Session : Busy(s)}
    /\ overlaid \subseteq Inode

(* A byte of an upload is at its own place in the file, or nowhere, however*)
(* many sessions truncate and write it at a time and whenever they die.    *)
BytesInPlace ==
    \A i \in Inode : \A k \in 1..Len(data[i]) :
        data[i][k] = Hole \/ data[i][k][2] = k

(* Two names never lead to one file, and a file that no two uploads had    *)
(* open at a time is the beginning of one upload.                          *)
FilesArePure ==
    /\ \A f, g \in Name : dir[f] = dir[g] /\ dir[f] # None => f = g
    /\ \A i \in Inode \ overlaid :
         data[i] = <<>> \/ data[i] = Body(data[i][1][1], Len(data[i]))

Storing(s) == h[s].pc = "storing"

(* An upload that has had its file for itself has written its beginning    *)
(* there and nothing else is in it; its name leads to that file until      *)
(* somebody deletes it.                                                    *)
UploadInv ==
    /\ \A s, t \in Session :
         Storing(s) /\ Storing(t) /\ h[s].file = h[t].file /\ h[s].file \notin overlaid => s = t
    /\ \A s \in Session : Storing(s) =>
         /\ s \notin touched \/ h[s].file \notin overlaid =>
              data[h[s].file] = Body(Upload(s), h[s].pos)
         /\ s \notin unlinked => dir[h[s].name] = h[s].file

(* A download that nobody has disturbed has sent the beginning of what the *)
(* file held when it was opened.                                           *)
DownloadInv ==
    \A s \in Session : h[s].pc \in {"opened", "sending"} /\ s \notin touched =>
        /\ data[h[s].file] = h[s].held
        /\ h[s].pos <= Len(h[s].held) /\ h[s].sent = SubSeq(h[s].held, 1, h[s].pos)
        /\ h[s].pc = "sending" => h[s].size = Len(h[s].held)

(* What the sessions and the files have to do with each other.             *)
FilesInv == TypeOK /\ BytesInPlace /\ FilesArePure /\ UploadInv /\ DownloadInv

(* A download whose file nobody has truncated or written meanwhile ends    *)
(* with the file as it was when it was opened, and with the size that was  *)
(* announced, even if its name has been deleted and given to another file. *)
UndisturbedDownload ==
    [][\A s \in Session : RetrDone(s) /\ s \notin touched
         => h[s].sent = h[s].held /\ Len(h[s].sent) = h[s].size]_vars

(* An upload received whole, whose file nobody else has written and whose  *)
(* name nobody has deleted, is what its name leads to when cmd_stor ends.  *)
UndisturbedUpload ==
    [][\A s \in Session :
         /\ h[s].pc = "storing" /\ ~Busy(s)' /\ crashed' = crashed
         /\ h[s].recvd = h[s].size /\ s \notin touched \union unlinked
         => dir'[h[s].name] = h[s].file /\ data'[h[s].file] = Body(Upload(s), h[s].size)]_vars

(* A download sends as many bytes as its reply announced: the code reads   *)
(* to the end of the file, whatever the size was.                          *)
SizeHonoured ==
    [][\A s \in Session : RetrDone(s) => Len(h[s].sent) = h[s].size]_vars
=============================================================================
