---------------------------- MODULE FileTransfer ----------------------------
(***************************************************************************)
(* The application protocol: the interactive client (client/main.cpp) and  *)
(* the thread that serves it (Client of server/client.cpp), over the two   *)
(* streams that the secure session gives them.  Module SecureChannel shows *)
(* that payloads arrive whole and in order; a call of Crypto::recv returns *)
(* what it asked for or the rest of one payload, whichever is less.        *)
(*                                                                         *)
(* A stream is a sequence of tokens, each with a mark that says whether it *)
(* ends a payload.  The words of a request or of a reply are two tokens, a *)
(* head that stands for all they say and a rest without which they say     *)
(* nothing; a byte of a body, and each line feed, is a token of its own.   *)
(* Reading a line one byte at a time has no effect until the line is       *)
(* complete, so it is one step.                                            *)
(***************************************************************************)
EXTENDS Integers, Sequences, SequencesExt, FiniteSetsExt

CONSTANTS
    Name,         \* file names users type
    Parola,       \* those that match the regular expression `parola` and can
                  \* be the name of a file
    Directories,  \* those that match it and lead to a directory: "." and ".."
    SeekEnds,     \* what seeking to the end of a directory may give
    Width,        \* by how many tokens more than the least a name makes a
                  \* request longer: 0 for every name a file can have
    Content,      \* contents files may have: sequences over Data
    Data,         \* the bytes of bodies
    NL,           \* one of them: a line feed
    Stale,        \* one of them: what a buffer holds past the end of the data
    Rest,         \* the second token of a request or reply
    Starts,       \* what a session may start with: [local, root, faults], the
                  \* user's directory, root/, and what may go wrong
    Absent,       \* what a directory holds for a file that is not there
    BufferSize,   \* BUFFER_SIZE: no read or write of a body is longer
    LineLimit,    \* BUFFER_SIZE - 1 for lines, which are counted in tokens
    MaxFileSize,  \* MAX_FILE_SIZE
    MaxCommands,  \* bound: commands the user types before quitting
    MayBreak      \* may the connection break?

NoSize == -1   \* a header without a Size parameter

OK == 200
BAD_FILE == 452
SERVER_ERROR == 500
COMMAND_NOT_IMPLEMENTED == 502

Plain == Data \union Name \union {Rest}   \* tokens that are no head

(* The heads of requests and replies, and what the two streams carry: out  *)
(* of step, the server stores requests in a file and sends them back.      *)
Requests == [cmd : {"LIST", "QUIT"}, name : {""}, size : {NoSize}]
              \union [cmd : {"RETR", "DELE"}, name : Name, size : {NoSize}]
              \union [cmd : {"STOR"}, name : Name, size : 0..MaxFileSize]
UpTokens == Requests \union Plain

Replies  == [code : {OK, BAD_FILE, SERVER_ERROR, COMMAND_NOT_IMPLEMENTED},
             size : Nat \union {NoSize}, re : UpTokens]
DownTokens == Replies \union UpTokens

ASSUME FileTransferAssumption ==
    /\ IsFiniteSet(Name) /\ Parola \subseteq Name
    /\ Directories \subseteq Name \ Parola
    /\ SeekEnds \subseteq Nat \union {NoSize}
    /\ Width \in [Name -> Nat] /\ \A f \in Parola : Width[f] = 0
    /\ \A start \in Starts : \A f \in Name : start.local[f] # Absent => Width[f] = 0
    /\ \A start \in Starts : \A f \in Directories : start.root[f] = Absent
    /\ {NL, Stale} \subseteq Data
    /\ Content \subseteq Seq(Data)
    /\ Absent \notin Seq(DownTokens) /\ Rest \notin Data
    /\ \A t \in Plain : t \notin Requests /\ t \notin Replies
    /\ Starts \subseteq [local : [Name -> Content \union {Absent}],
                        root : [Name -> Content \union {Absent}],
                        faults : SUBSET {"noDownloads", "vanish", "shrink", "overlong"}]
    /\ BufferSize \in Nat \ {0} /\ LineLimit \in Nat /\ LineLimit >= 5
    /\ MaxFileSize \in Nat /\ MaxCommands \in Nat
    /\ MayBreak \in BOOLEAN

VARIABLES
    c2s, s2c,    \* the two streams: tokens sent and not yet read
    conn,        \* "up" or "down"
    cl,          \* client: "prompt", "await", "get", "list", "put" or "closed"
    cur,         \* client: the command it is carrying out
    need,        \* client: bytes of the body still to be received or sent
    local,       \* client: the files of the user
    upload,      \* client: the file that send_file has opened
    listed,      \* client: what recv_list has printed
    downloads,   \* client: the directory downloads/
    typed,       \* client: how many commands the user has typed
    oversize,    \* client: has it overrun the buffer of Crypto::send, so that
                 \* after c2s comes a packet that the server refuses?
    sv,          \* server: "recv", "retr", "stor" or "closed"
    job,         \* server: file name and size of the transfer it carries out
    count,       \* server: bytes of the body sent or received
    root,        \* server: the directory root/
    faults,      \* what may go wrong in this session: on the client's disk,
                 \* or that the user types a name longer than a request
    sends,       \* history: the sizes of the parts of bodies passed to
                 \* Crypto::send; for requests see oversize
    root0        \* history: root/ when the session began

clVars == <<cl, cur, need, upload, listed, downloads, typed, oversize>>
svVars == <<sv, job, count, root>>
fixed  == <<local, root0, faults>>
vars   == <<c2s, s2c, conn, cl, cur, need, local, upload, listed, downloads,
            typed, oversize, sv, job, count, root, faults, sends, root0>>

Request(cmd, name, size) == [cmd |-> cmd, name |-> name, size |-> size]

(* `re`, the request a reply answers, is not in the message: a ghost.      *)
Reply(code, size, re) == [code |-> code, size |-> size, re |-> re]

Line(head) == <<head, Rest, NL, NL>>

Extra(request) == IF request.name = "" THEN 0 ELSE Width[request.name]

RequestLine(request) ==
    <<request>> \o [i \in 1..1 + Extra(request) |-> Rest] \o <<NL, NL>>

Smaller(m, n) == IF m < n THEN m ELSE n

(* Mutant: one line feed ends a message.                                   *)
LineEndsAtFirst(s) == {i \in 1..Len(s) : s[i][1] = NL}

(* The loop of recvCmd and recv_response reads up to two line feeds in a   *)
(* row or until the buffer is full.                                        *)
LineEnds(s) ==
    {i \in 1..Len(s) : i = LineLimit \/ (i > 1 /\ s[i-1][1] = NL /\ s[i][1] = NL)}

HasLine(s) == LineEnds(s) # {}

LineLength(s) == Min(LineEnds(s))

Drop(s, n) == SubSeq(s, n + 1, Len(s))

(* A payload of Crypto::send; there is none if the string is empty.        *)
Payload(tokens) == [i \in 1..Len(tokens) |-> <<tokens[i], i = Len(tokens)>>]

Tokens(s) == [i \in 1..Len(s) |-> s[i][1]]

PayloadEnds(s) == {i \in 1..Len(s) : s[i][2]}

(* Mutant: Crypto::recv returns one byte at a time.                        *)
ReceivedSingly(s, size) == Min({1, size})

(* How many bytes Crypto::recv returns when it is asked for `size`.        *)
Received(s, size) == Min({size} \union PayloadEnds(s))

(* `is >> word`: white space is skipped; NL if there is no word at all.    *)
FirstWord(s) ==
    LET words == {i \in 1..LineLength(s) : s[i][1] # NL}
    IN  IF words = {} THEN NL ELSE s[Min(words)][1]

(* `is.good()` fails after `is >> cmd`: the line is blank, or it was cut    *)
(* by the full buffer before its first word ended.  A blank follows the    *)
(* first word of a request that has a name.                                *)
BadInput(s) ==
    LET w == FirstWord(s)
    IN  /\ ~(w \notin Plain /\ w.name # "")
        /\ \A i \in 1..LineLength(s) : s[i][1] = NL => \A j \in 1..i : s[j][1] = NL

(* The listing of root/: a name and a line feed for every file.            *)
Listing ==
    LET fs == SetToSeq({f \in Name : root[f] # Absent})
    IN  [i \in 1..2 * Len(fs) |-> IF i % 2 = 1 THEN fs[(i + 1) \div 2] ELSE NL]

Init ==
    /\ c2s = <<>> /\ s2c = <<>> /\ conn = "up"
    /\ cl = "prompt" /\ cur = Request("LIST", "", NoSize) /\ need = 0
    /\ \E start \in Starts : /\ local = start.local /\ root = start.root
                            /\ faults = start.faults
    /\ upload = <<>> /\ listed = <<>>
    /\ downloads = [f \in Name |-> Absent] /\ typed = 0 /\ oversize = FALSE
    /\ sv = "recv" /\ job = [name |-> "", size |-> 0] /\ count = 0
    /\ root0 = root
    /\ sends = {}

(* A payload given to a connection that is down is lost, or the send       *)
(* throws; an exception ends the session.  What follows a packet that the  *)
(* server refuses is never read.                                           *)
ClientSends(tokens, next) ==
    \/ /\ conn = "up" /\ cl' = next
       /\ c2s' = IF oversize THEN c2s ELSE c2s \o Payload(tokens)
    \/ conn = "down" /\ c2s' = c2s /\ cl' \in {next, "closed"}

ServerSends(payloads, next) ==
    \/ conn = "up" /\ s2c' = s2c \o payloads /\ sv' = next
    \/ conn = "down" /\ s2c' = s2c /\ sv' \in {next, "closed"}

-----------------------------------------------------------------------------
(* The client: commands                                                    *)

(* A request of at most BUFFER_SIZE bytes.                                 *)
Fits(request) == Extra(request) + 3 <= LineLimit

(* Crypto::send does not look at the length of what it encrypts into its   *)
(* buffer.  Of a request that does not fit the client dies (undefined: it  *)
(* has overwritten its stack), or it gets by and the packet goes out, but  *)
(* Rocket::verify refuses its length.                                      *)
Overruns ==
    /\ cl' \in {"await", "closed"}
    /\ oversize' = TRUE
    /\ UNCHANGED c2s

Ask(request) ==
    /\ cl = "prompt"
    /\ cur' = request
    /\ \/ /\ Fits(request)
          /\ ClientSends(RequestLine(request), "await")
          /\ UNCHANGED oversize
       \/ ~Fits(request) /\ Overruns
    /\ UNCHANGED <<s2c, conn, need, upload, listed, downloads, svVars, sends, fixed>>

Counted == typed < MaxCommands /\ typed' = typed + 1

cmd_remote_list == Counted /\ Ask(Request("LIST", "", NoSize))

(* Names that no request can carry are typed in sessions with that fault.  *)
(* Of a request that just fits, the server reads all but the last line     *)
(* feed, which is a blank line or the beginning of the next.               *)
Typeable(f) == Fits(Request("RETR", f, NoSize)) \/ "overlong" \in faults

cmd_retr(f) == Counted /\ Typeable(f) /\ Ask(Request("RETR", f, NoSize))

cmd_dele(f) == Counted /\ Typeable(f) /\ Ask(Request("DELE", f, NoSize))

(* check_and_get_file_size: a file that is not there or is too big is      *)
(* refused without a word to the server.                                   *)
cmd_stor(f) ==
    /\ Counted
    /\ local[f] # Absent /\ Len(local[f]) <= MaxFileSize
    /\ Ask(Request("STOR", f, Len(local[f])))

cmd_quit == UNCHANGED typed /\ Ask(Request("QUIT", "", NoSize))

-----------------------------------------------------------------------------
(* The client: replies and bodies                                          *)

(* recv_response: the status line, parsed as far as it makes sense.        *)
TakeReply ==
    /\ cl = "await"
    /\ HasLine(s2c)
    /\ s2c' = Drop(s2c, LineLength(s2c))
    /\ UNCHANGED <<c2s, conn, cur, typed, oversize, svVars, sends, fixed>>

IsOK(word) == word \in Replies /\ word.code = OK

HasBody(word) == IsOK(word) /\ word.size >= 0

(* recv_list up to its loop.                                               *)
ReplyToList ==
    /\ cur.cmd = "LIST" /\ TakeReply
    /\ LET w == FirstWord(s2c) IN
       IF HasBody(w)
         THEN cl' = "list" /\ need' = w.size /\ listed' = <<>>
         ELSE cl' = "prompt" /\ UNCHANGED <<need, listed>>
    /\ UNCHANGED <<upload, downloads>>

(* recv_file up to its loop: the local copy is opened, hence truncated; if *)
(* it can not be, as downloads/.. can not, the body is left where it is.   *)
ReplyToRetr ==
    /\ cur.cmd = "RETR" /\ TakeReply
    /\ LET w == FirstWord(s2c) IN
       IF HasBody(w) /\ "noDownloads" \notin faults /\ cur.name \notin Directories
         THEN /\ cl' = "get" /\ need' = w.size
              /\ downloads' = [downloads EXCEPT ![cur.name] = <<>>]
         ELSE cl' = "prompt" /\ UNCHANGED <<need, downloads>>
    /\ UNCHANGED <<upload, listed>>

(* What send_file finds when it opens the file whose size has been sent.   *)
Reopened(f) ==
    {local[f]} \union (IF "vanish" \in faults THEN {Absent} ELSE {})
               \union (IF "shrink" \in faults THEN {<<>>} ELSE {})

(* cmd_stor from the reply on, and send_file up to its loop.               *)
ReplyToStor ==
    /\ cur.cmd = "STOR" /\ TakeReply
    /\ IF IsOK(FirstWord(s2c))
         THEN \E file \in Reopened(cur.name) :
                IF file = Absent
                  THEN cl' = "prompt" /\ UNCHANGED <<need, upload>>
                  ELSE cl' = "put" /\ need' = cur.size /\ upload' = file
         ELSE cl' = "prompt" /\ UNCHANGED <<need, upload>>
    /\ UNCHANGED <<listed, downloads>>

ReplyToDele ==
    /\ cur.cmd = "DELE" /\ TakeReply
    /\ cl' = "prompt"
    /\ UNCHANGED <<need, upload, listed, downloads>>

(* quit(): the reply is not looked at, and the connection is closed.       *)
ReplyToQuit ==
    /\ cur.cmd = "QUIT" /\ TakeReply
    /\ cl' = "closed"
    /\ UNCHANGED <<need, upload, listed, downloads>>

(* What the loops of recv_file and recv_list do with a fragment.  A copy   *)
(* grows by it.  A listing is printed from the first fragment only: it     *)
(* leaves `is` at its end, and is.str() does not clear that.  A fragment   *)
(* that fills the buffer has no terminator, so that what is printed may go *)
(* on past it.                                                             *)
RecvFragment(n) ==
    LET piece == Tokens(SubSeq(s2c, 1, n))
    IN  IF cl = "get"
          THEN /\ downloads' = [downloads EXCEPT ![cur.name] = @ \o piece]
               /\ UNCHANGED listed
          ELSE /\ listed' \in IF listed # <<>> THEN {listed}
                              ELSE IF n = BufferSize THEN {piece, piece \o <<Stale>>}
                              ELSE {piece}
               /\ UNCHANGED downloads

(* The loops of recv_list and recv_file: what is still missing is asked    *)
(* for, at most BUFFER_SIZE bytes at a time.                               *)
ClientReads ==
    /\ cl \in {"get", "list"} /\ need > 0 /\ s2c # <<>>
    /\ LET n == Received(s2c, Smaller(need, BufferSize)) IN
       /\ RecvFragment(n)
       /\ s2c' = Drop(s2c, n)
       /\ need' = need - n
    /\ UNCHANGED <<c2s, conn, cl, cur, upload, typed, oversize, svVars, sends, fixed>>

(* Mutant: every fragment is read from the beginning of the file.          *)
SendFragmentRewinds ==
    LET n == Smaller(need, BufferSize)
    IN  /\ cl = "put" /\ need > 0
        /\ ClientSends([i \in 1..n |-> IF i <= Len(upload) THEN upload[i] ELSE Stale], "put")
        /\ need' = need - n
        /\ sends' = sends \union {n}
        /\ UNCHANGED <<s2c, conn, cur, upload, listed, downloads, typed, oversize, svVars, fixed>>

(* Mutant: fragments are one byte too long.                                *)
SendFragmentTooLong ==
    LET off == cur.size - need
        n   == Smaller(need, BufferSize + 1)
    IN  /\ cl = "put" /\ need > 0
        /\ ClientSends(SubSeq(upload, off + 1, off + n), "put")
        /\ need' = need - n
        /\ sends' = sends \union {n}
        /\ UNCHANGED <<s2c, conn, cur, upload, listed, downloads, typed, oversize, svVars, fixed>>

(* The loop of send_file: what the file does not have comes out of the     *)
(* buffer as it is.                                                        *)
send_fragment ==
    LET off == cur.size - need
        n   == Smaller(need, BufferSize)
    IN  /\ cl = "put" /\ need > 0
        /\ ClientSends([i \in 1..n |-> IF off + i <= Len(upload) THEN upload[off + i] ELSE Stale],
                       "put")
        /\ need' = need - n
        /\ sends' = sends \union {n}
        /\ UNCHANGED <<s2c, conn, cur, upload, listed, downloads, typed, oversize, svVars, fixed>>

BodyDone ==
    /\ cl \in {"get", "list", "put"} /\ need = 0
    /\ cl' = "prompt"
    /\ UNCHANGED <<c2s, s2c, conn, cur, need, upload, listed, downloads, typed, oversize, svVars,
                   sends, fixed>>

(* Mutant: the exception is swallowed and the read tried again.            *)
ClientRecvFailsSwallowed ==
    /\ conn = "down"
    /\ \/ cl = "await" /\ ~HasLine(s2c)
       \/ cl \in {"get", "list"} /\ need > 0 /\ s2c = <<>>
    /\ UNCHANGED vars

(* ExRecv: the connection is down and what is left of the stream is not    *)
(* what the client waits for.                                              *)
ClientRecvFails ==
    /\ conn = "down"
    /\ \/ cl = "await" /\ ~HasLine(s2c)
       \/ cl \in {"get", "list"} /\ need > 0 /\ s2c = <<>>
    /\ cl' = "closed"
    /\ UNCHANGED <<c2s, s2c, conn, cur, need, upload, listed, downloads, typed, oversize, svVars,
                   sends, fixed>>

-----------------------------------------------------------------------------
(* The server: one action per handler of Client::execute                   *)

(* recvCmd and the test of the first word.                                 *)
Command(cmd) ==
    /\ sv = "recv" /\ HasLine(c2s)
    /\ ~BadInput(c2s)
    /\ FirstWord(c2s) \notin Plain /\ FirstWord(c2s).cmd = cmd
    /\ c2s' = Drop(c2s, LineLength(c2s))
    /\ UNCHANGED <<conn, clVars, fixed>>

Answer(code, size, next) == 
    ServerSends(Payload(Line(Reply(code, size, FirstWord(c2s)))), next)

Refuse(code) == Answer(code, NoSize, "recv") /\ UNCHANGED <<job, count, root, sends>>

(* The name is that of a parola and the file system does what is asked:    *)
(* it may always refuse.                                                   *)
Allowed(f) == {FALSE} \union (IF f \in Parola THEN {TRUE} ELSE {})

ExecDele ==
    /\ Command("DELE")
    /\ LET f == FirstWord(c2s).name IN
       \E removed \in Allowed(f) :
         IF removed /\ root[f] # Absent
           THEN /\ root' = [root EXCEPT ![f] = Absent]
                /\ Answer(OK, NoSize, "recv")
                /\ UNCHANGED <<job, count, sends>>
           ELSE Refuse(BAD_FILE)

(* The header and the listing are two payloads; an empty listing is none.  *)
ExecList ==
    /\ Command("LIST")
    /\ \/ Refuse(SERVER_ERROR)
       \/ /\ LET header == Line(Reply(OK, Len(Listing), FirstWord(c2s)))
             IN  ServerSends(Payload(header) \o Payload(Listing), "recv")
          /\ sends' = sends \union ({Len(Listing)} \ {0})
          /\ UNCHANGED <<job, count, root>>

(* Opening a directory for reading succeeds, and reading from it fails:    *)
(* a reply with a size and no body.                                        *)
ExecRetr ==
    /\ Command("RETR")
    /\ LET f == FirstWord(c2s).name IN
       \/ \E opened \in Allowed(f) :
            IF opened /\ root[f] # Absent
              THEN /\ Answer(OK, Len(root[f]), "retr")
                   /\ job' = [name |-> f, size |-> Len(root[f])]
                   /\ count' = 0
                   /\ UNCHANGED <<root, sends>>
              ELSE Refuse(BAD_FILE)
       \/ /\ f \in Directories
          /\ \E size \in SeekEnds : Answer(OK, size, "recv")
          /\ UNCHANGED <<job, count, root, sends>>

(* Mutant: the file is opened without being truncated.                     *)
ExecStorAppends ==
    /\ Command("STOR")
    /\ LET f == FirstWord(c2s).name
           size == FirstWord(c2s).size IN
       \E opened \in Allowed(f) :
         IF opened /\ size <= MaxFileSize
           THEN /\ Answer(OK, NoSize, "stor")
                /\ root' = [root EXCEPT ![f] = IF @ = Absent THEN <<>> ELSE @]
                /\ job' = [name |-> f, size |-> size]
                /\ count' = 0
                /\ UNCHANGED sends
           ELSE Refuse(BAD_FILE)

(* Opening for output creates the file or truncates it.                    *)
ExecStor ==
    /\ Command("STOR")
    /\ LET f == FirstWord(c2s).name
           size == FirstWord(c2s).size IN
       \E opened \in Allowed(f) :
         IF f \in Parola /\ size > MaxFileSize THEN Refuse(COMMAND_NOT_IMPLEMENTED)
         ELSE IF opened
           THEN /\ Answer(OK, NoSize, "stor")
                /\ root' = [root EXCEPT ![f] = <<>>]
                /\ job' = [name |-> f, size |-> size]
                /\ count' = 0
                /\ UNCHANGED sends
           ELSE Refuse(BAD_FILE)

(* cmd_quit, and the end of execute.                                       *)
ExecQuit ==
    /\ Command("QUIT")
    /\ Answer(OK, NoSize, "closed")
    /\ UNCHANGED <<job, count, root, sends>>

(* A line whose first word is no command gets a reply, a bad one none.     *)
ExecOther ==
    /\ sv = "recv" /\ HasLine(c2s)
    /\ BadInput(c2s) \/ FirstWord(c2s) \in Plain
    /\ c2s' = Drop(c2s, LineLength(c2s))
    /\ IF BadInput(c2s)
         THEN UNCHANGED <<s2c, sv, job, count, root, sends>>
         ELSE Refuse(COMMAND_NOT_IMPLEMENTED)
    /\ UNCHANGED <<conn, clVars, fixed>>

(* Mutant: every chunk is read from the beginning of the file.             *)
RetrChunkRewinds ==
    LET file == root[job.name]
        n == Smaller(IF count = 0 THEN 1 ELSE BufferSize, Len(file) - count)
    IN  /\ sv = "retr" /\ count < Len(file)
        /\ ServerSends(Payload(SubSeq(file, 1, n)), "retr")
        /\ count' = count + n
        /\ sends' = sends \union {n}
        /\ UNCHANGED <<c2s, conn, clVars, job, root, fixed>>

(* The loop of cmd_retr: bytes are flushed when the count of those before  *)
(* is a multiple of BUFFER_SIZE, so the first goes alone and the others    *)
(* BUFFER_SIZE at a time, until the end of the file.                       *)
RetrChunk ==
    LET file == root[job.name]
        n == Smaller(IF count = 0 THEN 1 ELSE BufferSize, Len(file) - count)
    IN  /\ sv = "retr" /\ count < Len(file)
        /\ ServerSends(Payload(SubSeq(file, count + 1, count + n)), "retr")
        /\ count' = count + n
        /\ sends' = sends \union {n}
        /\ UNCHANGED <<c2s, conn, clVars, job, root, fixed>>

RetrDone ==
    /\ sv = "retr" /\ count >= Len(root[job.name])
    /\ sv' = "recv"
    /\ UNCHANGED <<c2s, s2c, conn, clVars, job, count, root, sends, fixed>>

(* Mutant: all the stream has is taken, not only what was announced.       *)
StorChunkGreedy ==
    /\ sv = "stor" /\ count < job.size
    /\ c2s # <<>>
    /\ root' = [root EXCEPT ![job.name] = @ \o Tokens(c2s)]
    /\ c2s' = <<>>
    /\ count' = count + Len(c2s)
    /\ UNCHANGED <<s2c, conn, clVars, sv, job, sends, fixed>>

(* The loop of cmd_stor: each fragment goes to the file as it comes.       *)
StorChunk ==
    /\ sv = "stor" /\ count < job.size /\ c2s # <<>>
    /\ LET n == Received(c2s, Smaller(job.size - count, BufferSize)) IN
       /\ root' = [root EXCEPT ![job.name] = @ \o Tokens(SubSeq(c2s, 1, n))]
       /\ c2s' = Drop(c2s, n)
       /\ count' = count + n
    /\ UNCHANGED <<s2c, conn, clVars, sv, job, sends, fixed>>

StorDone ==
    /\ sv = "stor" /\ count >= job.size
    /\ sv' = "recv"
    /\ UNCHANGED <<c2s, s2c, conn, clVars, job, count, root, sends, fixed>>

(* Mutant: the exception is swallowed and the read tried again.            *)
ServerRecvFailsSwallowed ==
    /\ conn = "down"
    /\ \/ sv = "recv" /\ ~HasLine(c2s)
       \/ sv = "stor" /\ count < job.size /\ c2s = <<>>
    /\ UNCHANGED vars

(* ExRecv, or the packet that comes next is too long (ExBadProtocol): what *)
(* was stored of an upload stays in root/.                                 *)
ServerRecvFails ==
    /\ conn = "down" \/ oversize
    /\ \/ sv = "recv" /\ ~HasLine(c2s)
       \/ sv = "stor" /\ count < job.size /\ c2s = <<>>
    /\ sv' = "closed"
    /\ UNCHANGED <<c2s, s2c, conn, clVars, job, count, root, sends, fixed>>

-----------------------------------------------------------------------------
(* `delete connection` on either side.                                     *)
Close ==
    /\ conn = "up" /\ "closed" \in {cl, sv}
    /\ conn' = "down"
    /\ UNCHANGED <<c2s, s2c, clVars, svVars, sends, fixed>>

(* The connection breaks: of what is in flight any number of payloads      *)
(* still gets through, the rest is lost.  (The rest of a payload of which  *)
(* a part was read sits in the receiver; losing it too only adds to what   *)
(* is checked.)                                                            *)
Break ==
    /\ MayBreak /\ conn = "up"
    /\ conn' = "down"
    /\ \E i \in {0} \union PayloadEnds(c2s) : c2s' = SubSeq(c2s, 1, i)
    /\ \E i \in {0} \union PayloadEnds(s2c) : s2c' = SubSeq(s2c, 1, i)
    /\ UNCHANGED <<clVars, svVars, sends, fixed>>

Done == cl = "closed" /\ sv = "closed" /\ conn = "down" /\ UNCHANGED vars

Type ==
    \/ cmd_remote_list \/ cmd_quit
    \/ \E f \in Name : cmd_retr(f) \/ cmd_dele(f) \/ cmd_stor(f)

ClientStep ==
    \/ ReplyToList \/ ReplyToRetr \/ ReplyToStor \/ ReplyToDele \/ ReplyToQuit
    \/ ClientReads \/ send_fragment
    \/ BodyDone \/ ClientRecvFails

ServerStep ==
    \/ ExecDele \/ ExecList \/ ExecRetr \/ ExecStor \/ ExecQuit \/ ExecOther
    \/ RetrChunk \/ RetrDone \/ StorChunk \/ StorDone \/ ServerRecvFails

Next == Type \/ ClientStep \/ ServerStep \/ Close \/ Break \/ Done

Spec == Init /\ [][Next]_vars

(* Both programs run on; the user need not type anything, and nothing      *)
(* obliges the connection to break.                                        *)
FairSpec == Spec /\ WF_vars(ClientStep) /\ WF_vars(ServerStep) /\ WF_vars(Close)

-----------------------------------------------------------------------------
(* Properties                                                              *)

(* Nothing goes wrong in this session but the connection.                  *)
Calm == faults = {}

(* A stream of tokens of T; the last one it has ends a payload.            *)
IsStream(s, T) == s \in Seq(T \X BOOLEAN) /\ (s # <<>> => s[Len(s)][2])

(* The types of the variables; sizes and counts stay within the announced  *)
(* size of a transfer.                                                     *)
TypeOK ==
    /\ IsStream(c2s, UpTokens) /\ IsStream(s2c, DownTokens)
    /\ conn \in {"up", "down"} /\ oversize \in BOOLEAN
    /\ cl \in {"prompt", "await", "get", "list", "put", "closed"}
    /\ sv \in {"recv", "retr", "stor", "closed"}
    /\ cur \in Requests /\ typed \in 0..MaxCommands
    /\ need \in Nat /\ (cl = "put" => need <= cur.size)
    /\ local \in [Name -> Content \union {Absent}]
    /\ upload \in Seq(Data) /\ listed \in Seq(DownTokens)
    /\ downloads \in [Name -> Seq(DownTokens) \union {Absent}]
    /\ job \in [name : Name \union {""}, size : Nat] /\ count \in 0..job.size
    /\ root \in [Name -> Seq(UpTokens) \union {Absent}]

(* Whenever the user is prompted the two programs agree on what comes      *)
(* next: no byte of a reply is left unread, and the server either waits    *)
(* for a command (or is about to: it has sent all of the last download),   *)
(* with line feeds at most left of the last one, or it still gets exactly  *)
(* the rest of the last upload.                                            *)
InSync ==
    Calm /\ cl = "prompt" /\ conn = "up" =>
        /\ s2c = <<>>
        /\ \/ sv = "recv" /\ \A i \in 1..Len(c2s) : c2s[i][1] = NL
           \/ sv = "retr" /\ c2s = <<>> /\ count = job.size
           \/ sv = "stor" /\ Len(c2s) = job.size - count

(* The status line the client parses is a status line, and answers the     *)
(* command it is carrying out.                                             *)
RepliesUnderstood ==
    cl = "await" /\ HasLine(s2c) =>
        LET w == FirstWord(s2c) IN w \notin Plain /\ w.re = cur

(* A file of root/ is what it was, what the user has, or absent; a part of *)
(* an upload is left there only when the thread ended with the connection. *)
WholeFiles ==
    Calm => \A f \in Name :
        \/ root[f] \in {root0[f], local[f], Absent}
        \/ /\ job.name = f /\ IsPrefix(root[f], local[f])
           /\ sv = "stor" \/ (sv = "closed" /\ conn = "down")

(* A download that completes is the file of the server.                    *)
GetIsExact ==
    [][Calm /\ cl = "get" /\ cl' = "prompt" => downloads[cur.name] = root[cur.name]]_vars

(* An upload that completes is the file of the user.                       *)
PutIsExact ==
    [][Calm /\ sv = "stor" /\ sv' = "recv" => root[job.name] = local[job.name]]_vars

(* A listing that completes is the content of root/, although recv_list    *)
(* prints one fragment only: a listing is one payload, and one that does   *)
(* not fill the buffer is received in one piece.                           *)
ListIsExact ==
    [][Calm /\ cl = "list" /\ cl' = "prompt" /\ Len(Listing) < BufferSize => listed = Listing]_vars

(* A command comes to an end: the user is prompted again or the client     *)
(* terminates.  Neither program waits for the other for ever.              *)
CommandEnds ==
    Calm /\ cl \in {"await", "get", "list", "put"} ~> cl \in {"prompt", "closed"}

(* The thread of a client whose connection is gone ends, whatever it was   *)
(* doing and however far the two programs are out of step.                 *)
ThreadEnds == conn = "down" ~> sv = "closed"

(* Whatever comes off the stream, an upload never makes a file longer than *)
(* its request announced.                                                  *)
NoOverrun == sv = "stor" => root[job.name] # Absent /\ Len(root[job.name]) <= job.size

(* What Crypto::send is given fits the buffer it encrypts it in: every     *)
(* fragment and listing, whatever has gone wrong, and every request if the *)
(* user types no name that a request can not carry.  (A status line is a   *)
(* few words.)                                                             *)
SendsFit ==
    /\ sends \subseteq 1..BufferSize
    /\ oversize => "overlong" \in faults

(* The client has open the copy it fills, and the server the file of its   *)
(* transfer: all of what it sends, or as much as it has received.          *)
(* root/ has no names but those of the beginning and of accepted uploads.  *)
TransferInv ==
    /\ TypeOK /\ NoOverrun
    /\ cl = "get" => cur.name \in Name /\ downloads[cur.name] # Absent
    /\ sv \in {"retr", "stor"} => job.name \in Name /\ root[job.name] # Absent
    /\ sv = "retr" => Len(root[job.name]) = job.size
    /\ sv = "stor" => Len(root[job.name]) = count
    /\ root0 \in {start.root : start \in Starts}
    /\ \A f \in Name : root[f] # Absent => f \in Parola \/ root0[f] # Absent

(* The names of the files of the user make no request longer.              *)
ShortNames == \A f \in Name : local[f] # Absent => Width[f] = 0

(* What the server has of an upload and what is under way to it are the    *)
(* file of the user, once the client has sent it.                          *)
UploadBodyIsFile ==
    cl = "prompt" /\ conn = "up" /\ sv = "stor" =>
        root[job.name] \o Tokens(c2s) = local[job.name]

-----------------------------------------------------------------------------
(* Why the two programs are in step while nothing goes wrong but the       *)
(* connection, and a broken connection only cuts what is under way: what   *)
(* each stream carries, for every pair of states of the two programs.      *)

Up == conn = "up"

(* The server has not answered the command of the client: its request may  *)
(* be in the stream, after m tokens of what was before.                    *)
Asked == cl \in {"await", "closed"} /\ s2c = <<>>

AfterThat(m) ==
    /\ Len(c2s) <= m + (IF Asked THEN Extra(cur) + 4 ELSE 0)
    /\ Up => Len(c2s) = m + (IF Asked THEN Extra(cur) + 4 ELSE 0)
    /\ \A i \in 1..Len(c2s) : i > m => c2s[i][1] = RequestLine(cur)[i - m]

(* How much of the upload it carries out the client has sent.              *)
Sent ==
    IF cl = "put" THEN cur.size - need
    ELSE IF cl = "await" /\ ~Asked THEN 0
    ELSE job.size

ServerSide ==
    /\ sv = "recv" =>
         \E m \in 0..2 : AfterThat(m) /\ \A i \in 1..Len(c2s) : i <= m => c2s[i][1] = NL
    /\ sv = "retr" => AfterThat(0)
    /\ sv = "stor" =>
         /\ local[job.name] # Absent /\ job.size = Len(local[job.name])
         /\ count <= Sent /\ AfterThat(Sent - count)
         /\ \A i \in 1..count : root[job.name][i] = local[job.name][i]
         /\ \A i \in 1..Len(c2s) : i <= Sent - count => c2s[i][1] = local[job.name][count + i]

(* The file that the server has announced, of which it has sent `count`.   *)
Announced ==
    /\ cur.cmd = "RETR" /\ job.name = cur.name
    /\ root[job.name] # Absent /\ Len(root[job.name]) = job.size
    /\ sv \in {"retr", "recv", "closed"} /\ (sv = "recv" => count = job.size)

(* s2c carries a reply and n tokens of a body.                             *)
Replied(code, size, body, n) ==
    /\ Len(s2c) <= n + 4 /\ (Up => Len(s2c) = n + 4)
    /\ \A i \in 1..Len(s2c) :
         s2c[i][1] = IF i <= 4 THEN Line(Reply(code, size, cur))[i] ELSE body[i - 4]

Refused ==
    /\ cur.cmd # "QUIT" /\ sv \in {"recv", "closed"}
    /\ \E code \in {BAD_FILE, SERVER_ERROR, COMMAND_NOT_IMPLEMENTED} : Replied(code, NoSize, <<>>, 0)

Removed == cur.cmd = "DELE" /\ sv \in {"recv", "closed"} /\ Replied(OK, NoSize, <<>>, 0)

Opened ==
    /\ cur.cmd = "RETR" /\ cur.name \in Directories /\ sv \in {"recv", "closed"}
    /\ \E size \in SeekEnds : Replied(OK, size, <<>>, 0)

Released == cur.cmd = "QUIT" /\ sv = "closed" /\ Replied(OK, NoSize, <<>>, 0)

Enumerated ==
    /\ cur.cmd = "LIST" /\ sv \in {"recv", "closed"}
    /\ Replied(OK, Len(Listing), Listing, Len(Listing))

Offered == Announced /\ Replied(OK, job.size, root[job.name], count)

Accepted ==
    /\ cur.cmd = "STOR" /\ sv \in {"stor", "recv", "closed"} /\ Replied(OK, NoSize, <<>>, 0)
    /\ sv = "stor" => job = [name |-> cur.name, size |-> cur.size] /\ count = 0
    /\ Up /\ sv = "recv" => cur.size = 0

Answered == Refused \/ Removed \/ Opened \/ Released \/ Enumerated \/ Offered \/ Accepted

(* The stream to the client carries a body from token `from` + 1 to `to`.  *)
Rests(body, from, to) ==
    /\ Len(s2c) <= to - from /\ (Up => Len(s2c) = to - from)
    /\ \A i \in 1..Len(s2c) : s2c[i][1] = body[from + i]

Getting ==
    LET copy == downloads[cur.name] IN
    /\ Announced
    /\ Len(copy) + need = job.size /\ Len(copy) <= count
    /\ \A i \in 1..Len(copy) : copy[i] = root[job.name][i]
    /\ Rests(root[job.name], Len(copy), count)

Listed ==
    /\ cur.cmd = "LIST" /\ sv \in {"recv", "closed"} /\ need <= Len(Listing)
    /\ Rests(Listing, Len(Listing) - need, Len(Listing))

Putting ==
    /\ cur.cmd = "STOR" /\ upload = local[cur.name] /\ s2c = <<>>
    /\ sv \in {"stor", "recv", "closed"}
    /\ sv = "stor" => job = [name |-> cur.name, size |-> cur.size]
    /\ Up /\ sv = "recv" => need = 0

(* The server is ready for what the client does next.                      *)
Together ==
    /\ sv = "closed" <=> cl = "closed" \/ (cl = "await" /\ ~Asked /\ cur.cmd = "QUIT")
    /\ sv = "retr" /\ count # job.size => cl = "get" \/ (cl = "await" /\ ~Asked)

ClientSide ==
    /\ cl = "prompt" => s2c = <<>>
    /\ cl = "await" /\ ~Asked => Answered
    /\ cl = "get" => Getting
    /\ cl = "list" => Listed
    /\ cl = "put" => Putting
    /\ Up => Together
    /\ cur.cmd = "STOR" => local[cur.name] # Absent /\ cur.size = Len(local[cur.name])
    /\ Fits(cur) /\ ~oversize

(* A listing is one payload; of one that does not fill its buffer,         *)
(* recv_list has printed all or nothing.                                   *)
ListingWhole ==
    /\ cl = "await" /\ cur.cmd = "LIST" => PayloadEnds(s2c) \subseteq {4, 4 + Len(Listing)}
    /\ cl = "list" /\ Len(Listing) < BufferSize =>
         \/ need = Len(Listing) /\ listed = <<>> /\ PayloadEnds(s2c) \subseteq {Len(Listing)}
         \/ need = 0 /\ listed = Listing

(* The two programs are in step: of what the client is doing, what the     *)
(* server is doing and the two streams, each follows from the others.      *)
SyncInv ==
    /\ TransferInv /\ ShortNames
    /\ Calm => ServerSide /\ ClientSide /\ WholeFiles /\ ListingWhole

=============================================================================
