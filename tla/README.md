# A TLA+ model of the secure file transfer (client, server, session layer)

This directory is a verification project for the programs in `src/`: an interactive
client and a multi-threaded server that exchange files over a home-made secure session
on TCP. It holds TLA+ modules, TLC configurations and TLAPS proofs. Source paths below
are relative to `src/src/`.

## The system

The server accepts a connection, makes a `Client` object for it and runs
`Client::execute` in a detached thread. Both peers do a handshake of three messages that
yields a session key, an authentication key and an IV; from then on every byte of the
application goes through `Crypto::send` and `Crypto::recv`. The client reads commands
from the terminal, sends a request line, reads a status line and moves a body.

| Component | State | Operations | Talks to |
|---|---|---|---|
| `Crypto` (`common/crypto.cpp`), `Rocket`, `SpaceCraft` | two 32-bit sequence numbers, two CFB8 contexts, and the function statics `remaining`, `index`, `payload` of `Crypto::recv` | `send`, `recv`, `encrypt`, `decrypt`; compute and verify the two headers | `Connection`; called by both application programs |
| `Connection` (`common/connection.cpp`) | a socket | raw `send` / `recv` (`MSG_WAITALL`), length-prefixed strings, close in the destructor | the kernel |
| Client program (`client/main.cpp`) | the user's files, `downloads/`, streams of the reply being parsed | `cmd_*`, `recv_response`, `recv_list`, `recv_file`, `send_file`, `quit` | server session through `Crypto` |
| Server session (`server/client.cpp`) | request stream `is`, reply stream `os`, `root/` | `recvCmd`, `cmd_dele/list/retr/stor/quit/unknown`, `handshake`, `execute` | client through `Crypto`; the other sessions through `root/` and the statics |
| Handshake (`server/client.cpp:234`, `client/main.cpp`) | certificates, nonces, keys | M1, M2, M3 | `CertManager`, `RSACrypto`, `Connection` |
| Certificates and RSA (`common/cert*.cpp`, `rsa*.cpp`) | key files, list of names | verify, sign, seal | OpenSSL |
| Keys, nonces (`common/key.cpp`, `nonce.cpp`, `cybrand.cpp`) | random strings | generate | OpenSSL |
| Server process (`server/main.cpp`, `server.cpp`) | listening socket, one thread per client | `accept`, thread, `delete this` | sessions |
| Diagnostics | log level | print | - |

What is hard about it, and what makes each part correct:

* **Session layer.** Sender and receiver count packets, bytes and cipher positions
  independently; a single increment more or less rejects all that follows. Payloads are
  handed out over several calls. Counters wrap. The connection may end in the middle of a
  packet. *Correct* means: a stream of bytes, in order, complete, no packet of the peer
  turned down, no sequence number used twice, and a reader told of a lost connection.
* **Statics of `Crypto::recv`.** One copy for all threads of the server. *Correct* means:
  a session reads its own bytes only.
* **Application protocol.** Replies and bodies have no end marker; both programs find the
  boundaries by counting, while files change on disk and connections break. *Correct*
  means: both programs stay in step, completed transfers are exact, a partial file is left
  only by a lost connection, nobody waits for ever.
* **Handshake.** A peer takes what it reads as the string it expects next; the receive of
  a string does not look at how much of it arrived; the client is done one message before
  the server. *Correct* means: whoever goes on has the server's keys and a peer it
  accepts, nobody fails without a reason, nobody waits on a lost connection.
* **Several sessions on one `root/`.** No file is locked. A handler opens a file once and
  uses it over many reads of the network while others truncate, write and unlink it, and
  the process may die with bytes still in the buffers of its `fstream`s. *Correct* means:
  what is left is explained by who had the file open.
* **Server process.** `accept` and `std::thread` fail when a table is full and the code
  looks at neither; a descriptor number that is closed is soon used again. *Correct*
  means: each descriptor has one owner that closes it once, none is lost, and the clients
  that wait are served.

`PROJECT.json` lists the hazards one by one, each at the line where it bites, with the
properties that cover it.

## Modules

| Module | What it is |
|---|---|
| `ByteStream` | Abstract: what one direction of a session promises to the application |
| `SecureChannel` | `Crypto::send` on one peer, `Crypto::recv` on the other, TCP between them |
| `SharedReceiver` | The statics of `Crypto::recv` under the threads of the server |
| `FileTransfer` | Client program and one server thread, over two streams of payloads |
| `KeyExchange` | Abstract: what the handshake promises |
| `Handshake` | `handshake` of both programs, over the strings of `Connection` |
| `FileServer` | `cmd_dele`, `cmd_retr`, `cmd_stor` of several sessions on one `root/` |
| `ServerProcess` | The accept loop, the threads, the life of a `Client` and its descriptors |
| `*Proofs` | The theorems about the component of that name |
| `FileTransferSync` | The theorems that client and server stay in step and transfers are exact |
| `SecureChannelRefinement` | The theorem that `SecureChannel` takes no step `ByteStream` forbids |
| `MC*` | Constants of the instances TLC checks |

They build on one another by assume and guarantee. `Handshake` is shown to implement
`KeyExchange`: both peers have the same keys and IV, with which `SecureChannel` starts.
`SecureChannel` is shown to implement `ByteStream`; `FileTransfer` uses its streams as
`SecureChannel` shows them to be (payloads arrive whole and in order, a call of
`Crypto::recv` returns what was asked for or the rest of one payload, whichever is less).
`SharedReceiver` takes from `SecureChannel` that packets arrive in order and verify, and
looks at what sharing the statics does to that. `FileServer` takes the server's handlers
of `FileTransfer`, leaves the network out of them (a fragment comes as it comes, a
connection is lost at any step) and lets sessions interleave at every system call.
`ServerProcess` has those sessions as threads that hold descriptors.

### SecureChannel

One direction of one session; the other direction is another instance, because the two
share no state but the connection. `Send` is `Crypto::send`: it appends one packet to the
log `pkts`, with the `Rocket` and `SpaceCraft` stamped by `seqO`, and checks the counter
only afterwards, as the code does. `Crypto::recv` is four actions: `Call` (entry and the
test of `remaining`), `RecvRocket` (receive and verify the `Rocket`), `RecvBody`
(`SpaceCraft`, payload, decryption, refill, overflow check) and `Copy`. `RecvFails` is
`Connection::recv` throwing. `Disconnect` cuts the connection: any unit (`Rocket`,
`SpaceCraft`, ciphertext) not yet read may be lost with all that follows it. An empty
payload is possible: `Connection::send` throws on it after both headers are out
(`connection.cpp:63`).

Abstractions: a MAC is the tuple it authenticates; a ciphertext is its plaintext with the
position of the cipher stream and decrypts to `Garbled` anywhere else (CFB8 recovers after
one block; payloads here are shorter); the bytes inside a unit are not told apart, because
`MSG_WAITALL` and the length tests make a cut inside a unit the same as one before it.
Nobody on the wire changes anything: what the MACs defend against is not a question this
project asks. `sent` and `received` are histories.

### SharedReceiver

Every read or write of `remaining`, `index` and `payload` in `Crypto::recv` is a step of
its own, in program order (`Check`, `Fetch`, `Publish`, `Reset`, `Measure`, `Copy`,
`Advance`, `Consume`), for a set of threads. `Overlap` chooses between clients that
connect at the same time and clients served one after the other. The statics are not
atomic, so the interleavings are the outcomes of the data race that an unoptimised build
produces (the `Makefile` asks for no optimisation). A negative count given to `memcpy`
crashes the process. `Ends` says where the payloads of each client end in what it sends,
`Answers` after which of its bytes a handler answers; in between the application asks for
any cut. A session ends in four ways: all is read (`Call`), `recv` finds the connection
lost (`Fetch`), the counter overflows (`Reset`), or at an answer (`Leave`): it was `QUIT`,
or `sendCmd` throws `ExSend` up to `execute`. The last leaves the statics as they are, and
an answer need not stand at the end of a payload: of a request of `BUFFER_SIZE` bytes
`recvCmd` reads one less before the handler answers.

### FileTransfer

The client and the thread serving it. A stream is a sequence of tokens; the words of a
request or a reply are a head and a rest, a byte of a body is a token and so is a line
feed, so line ends are recognised (or missed) the way `recvCmd` and `recv_response` do:
two line feeds in a row, or a full buffer. Every token is marked if it ends a payload,
because the programs depend on that: `recv_list` prints its first fragment only (its
`is.str()` does not clear the end of file), and a listing is complete only because it is
one payload. Client: `cmd_*` send a request, `ReplyTo*` parse
a status line, `ClientReads` and `send_fragment` are the loops over bodies, `BodyDone`
ends them. Server: `Exec*` are the handlers, `RetrChunk`/`RetrDone` and
`StorChunk`/`StorDone` the loops of `cmd_retr` (which sends the first byte alone and then
`BUFFER_SIZE` at a time, as the test of `count++` makes it) and `cmd_stor` (which
truncates the file before the first byte arrives). `ClientRecvFails`, `ServerRecvFails`
are `ExRecv` reaching the `catch` of `main` and of `execute`. `Break` cuts both streams
after any payload. Operations on `root/` may be refused by the file system at any time.

`faults`, chosen with the initial files (`Starts`), says what may go wrong in a session:
`vanish` and `shrink` (the file changes between the request that announces its size and
`send_file`), `noDownloads` (the local copy can not be opened), `overlong` (the user types
a name that no request can carry). `Width` says by how much a name makes its request
longer. The server reads `LineLimit` tokens of a line, one less than the longest request
has; the line feed that such a request leaves is a blank line or is skipped by the next.
A longer request overruns the buffer of `Crypto::send` in the client (`Overruns`): the
client dies, or it gets by and the server refuses the packet for its length
(`rocket.cpp:50`), so that nothing after it is read (`oversize`).

`Directories` are the names `.` and `..`, which match `parola`: `RETR` opens the directory,
answers `OK` with the size that seeking to its end gives (`SeekEnds`), or none, and sends
no body, and the client can not open such a copy. `STOR` and `DELE` of them fail.
The properties about content are stated for sessions without faults (`Calm`); `NoOverrun`
and `ThreadEnds` hold with all of them.

Left out of `FileTransfer`: `help`, local listing and progress bars (no shared state);
`STOR` without a `Size:` tag and empty names, which the client never sends; the
back-pressure of TCP buffers.

### Handshake

One action per string received, on each side, because a peer acts on each string before
it reads the next; sending M1, M2 or M3 is one step, as nothing is read in between. A
certificate stands for its subject, a seal for key and addressee, a signature for signer
and text; `VerifyCert` is chain, revocation list and list of names (`Verified`, `Clients`,
`Servers`, with `Matches` for the substring test of `CertManager`), and a certificate of
more than `BUFFER_SIZE` bytes is refused by `Connection::recv`. `Break` leaves a prefix of
each stream and perhaps a *torn* string after it: `Connection::recv` (`connection.cpp:48`)
does not see that a string is short and delivers its length with whatever the buffer held.
A torn certificate does not parse, a torn nonce has the right size and is used, a torn
seal may crash the client (`rsaseal.cpp:15` copies by the lengths in it), and what is
computed from torn strings does not verify.

The refinement maps `cl` and `sv` to running, agreed or failed, the client's keys to the
abstract ones once it goes on, and trust to "both certificates pass". What it adds to
`Agreement` and `OnlyTrusted` is that a peer fails *only* when the other is not accepted
or the link is down, so the two agree on the order of the strings of M2 and on what is
signed, and that nobody is left waiting.

### FileServer

A name leads to an inode; a handler holds the inode it has opened (`h[s].file`) until it
closes it. A step is a system call of an `fstream`: `RetrOpen`, `RetrMeasure` (the size
that goes into the reply), `RetrRead` (`ReadAhead` bytes), `RetrDone`; `StorOpen`
(truncates, or makes the file), `StorChunk` (a fragment arrives; the `fstream` keeps it or
writes all it has, each byte at its own offset), `StorClose` (writes the rest, also when
an exception unwinds); `Dele` unlinks. `Crash` kills the process, with the bytes its
`fstream`s had not written. Bytes are named by upload and place, so that mixing shows.
`touched`, `unlinked` and `overlaid` are histories that say who has been interfered with:
without them no property of a file nobody locks is true, with them the properties say
exactly which interference can spoil what.

### ServerProcess

Descriptors are numbers, the lowest free one is taken, as the kernel does, so a number
closed twice or kept too long hits somebody else's. `Accept` and `AcceptFails` are
`Server::accept`, whose -1 is used as it is; `Spawn` and `SpawnFails` are `std::thread`,
whose exception nobody catches; `Handshake` to `End` is `execute`, `Delete` the
`delete this` with `~Client` and `~Connection`. A `Client` with the descriptor -1 lives
until its first `recv` throws. The three system tables are `Backlog`, `Limit` and
`MaxThreads`.

## Runs

`BUFFER_SIZE` is 2 or 3 and the counters have 6 or 8 values instead of 4096 and 2^32. The
program compares these numbers and takes minima of them and looks at no byte value except
the line feed; the bounds make all the cases happen: payloads below and at the limit, reads
shorter than, equal to and across payloads, the wrap of the counters, bodies of 0, 1, B,
and more than B bytes.

| Run | What it shows |
|---|---|
| `channel` | SecureChannel with fairness, counters of 8 values (4 packets), at most 2 bytes of 2 values in each: `TypeOK`, `ReceivedIsPrefix`, `NoRejection`, `StampsUnique`, the inductive invariant `ChannelInv`, `OverflowLosesOnlyLast`; it implements `ByteStream` (safety and liveness); `FailureNoticed`. |
| `shared_sequential` | Three clients one after the other, none with a request of `BUFFER_SIZE` bytes (`AnswersAtEnds`), connections lost anywhere and answers that fail: `SessionIsolation`, `DrainedBetweenSessions`, the inductive invariant `SequentialInv`, `AllServed`. |
| `shared_overlap`, `shared_overflow` | Violations of `SessionIsolation`: two clients at a time; one client that exhausts the sequence numbers, and its successor. |
| `transfer` | Three commands and `QUIT`, files of 0 to 6 bytes including one that begins like the end of a line and one above `MAX_FILE_SIZE`, a name `parola` refuses, one that leads to a directory, requests up to the longest, connection lost anywhere: `InSync`, `WholeFiles`, exact transfers, the inductive invariant `SyncInv`, `SendsFit` (the largest listing just fits, and no request overruns), `CommandEnds`. In the same run, sessions with all faults at once and with names that no request can carry, where the two programs get out of step, the server meets lines that are no commands and the client overruns its buffer: still `NoOverrun`, `TransferInv` (a conjunct of `SyncInv`), and `ThreadEnds`. |
| `handshake` | Five users and three hosts: accepted, not on the list, revoked or not signed, too long a certificate; connection lost and strings torn anywhere: `Agreement`, `OnlyTrusted`, the inductive invariant `HandshakeInv`, `ImplementsKeyExchange`. |
| `file_server` | Two sessions of two commands on two names, three inodes, files of 0 to 3 bytes, one crash: `BytesInPlace`, `FilesArePure`, the inductive invariant `FilesInv`, `UndisturbedDownload`, `UndisturbedUpload`. |
| `server_process` | Two clients that come and go for ever, two descriptors, three threads: `DescriptorsOwned`, the inductive invariant `ProcessInv`, `EveryoneServed`, `DescriptorsReturn`. |
| `transfer_uploads`, `transfer_no_downloads`, `transfer_list`, `file_server_race` | Violations, see the findings. |

Why the bounds are enough. *Three commands*: a fault in the framing of one command shows
in the next one's reply, and a third can meet the file the first two left. *LineLimit 6
tokens*: longer than every request for a file that exists (4 tokens), as `BUFFER_SIZE - 1`
is, and short enough for a line made of body bytes, or of a name typed too long, to reach
it; of the two long names one makes the longest request that fits and the other is one
token longer. *Names*: one accepted, one not, one a directory, and the two long ones.
*Three sessions* of at most 3 payloads: a session can only inherit from the one before
it, and the third checks that the second left nothing. *File server*: every property but
`FilesArePure` speaks of one session and those that share its file or name, so two
sessions with two commands each have every order of two handlers and what one leaves for
the next; three inodes, because two names and an unlinked file that is still open must
have one each; three bytes take two reads and two fragments. *Server process*: with two
descriptors one client with an open file fills the table, `accept` fails for the other,
and three threads are reached by `Client`s without a descriptor; clients reconnect without
a bound. *Handshake*: one session has no loop, every value of it is in the instance.
The symmetry set (sessions, names, inodes of `FileServer`, which compares them only) is
used where no liveness is checked.

### Fairness

* `SecureChannel`: the application of the receiver comes back to read (every caller of
  `Crypto::recv` is a loop) and its thread is scheduled; a peer whose `Crypto` call threw
  closes its connection (`execute` deletes the `Client`, `main` of the client returns).
  Nothing obliges the sender to send.
* `SharedReceiver`: every thread runs on, and a client in the queue is accepted.
* `Handshake`: both programs run on, and a program that has given up closes its
  connection (`quit` and `~Client` delete it, the kernel does it for a crashed client).
* `ServerProcess`: `main` and the threads are scheduled; a thread whose connection is lost
  gets to its next `recv`, which throws; and every client leaves some day (`WF` of
  `Leave`). The last is an assumption about clients, not about the code. There is no
  fairness on `Connect`, on requests, or on opening files.
* `FileServer`: none, its properties are about safety.
* `FileTransfer`: both programs run on once they have something to do, and `close` takes
  place. The user need not type anything and the connection need not break. There is no
  fairness on any single handler: a program does what its input says.

No `recv` has a timeout, so a peer that stays connected and silent holds a thread, and
its descriptors, for ever; fairness of both programs, and of `Leave`, is exactly the
assumption that no peer does so.

## Proofs

`SecureChannelProofs` proves, for every `Byte`, every `BufferSize >= 1` and every even
`SeqModulus` (the code's 2^32 included):

* `ChannelInvariant`: `Spec => []ChannelInv`
* `TypeCorrect`, `StreamIsPrefix`, `NoSpuriousRejection`: its conjuncts `TypeOK`,
  `ReceivedIsPrefix`, `NoRejection`
* `NoStampReuse`: `Spec => []StampsUnique`, from the stamps the invariant gives packet i.

`ReceivedIsPrefix` is not inductive: that the next byte copied is the next byte sent
depends on what is in the statics, that on the decryption, that on the cipher position,
and that on which packet comes next. `ChannelInv` adds what is missing. `SenderInv`: packet
i is stamped 2i-2 and 2i-1 and is cut from `sent` where packet i-1 ended (`WellFormed`),
and `seqO` has not wrapped while the sender is open. `ReceiverInv`: `seqI` and `decPos`
are where the packets taken put them, and what was read had arrived. `StaticsInv`: the
unread part of `payload` is the part of `sent` after `received`. The assumption that the
modulus is even is needed: each packet takes two numbers, and only then is the wrap hit
exactly, where both peers test for it. There is one lemma per action; `SenderUntouched`
serves all steps of the receiver.

`SecureChannelRefinement` adds what needs its own case analysis:

* `OverflowCost`: `Spec => []OverflowLosesOnlyLast`. The invariant gives the packet that
  is being read when the reader overflows, and `WellFormed` that only it is missing.
* `ByteStreamSafety`: `Spec` implies `Init` and `[][Next]` of `ByteStream` under the
  refinement mapping. `Send` is the abstract send, `Copy` the abstract delivery, the three
  steps that end a session the abstract close or failure, and all others stutter.

`SharedReceiverProofs`, for any set of sessions and any payloads, under `OneAtATime`
(sessions do not overlap, and none sends as many packets as there are sequence numbers
for) and `AnswersAtEnds` (a handler answers what it has read to the end of a payload,
which is so unless a request has `BUFFER_SIZE` bytes). The hypotheses are the findings
turned around: without any of the three `SessionIsolation` is false, as `shared_overlap`
and `shared_overflow` show of the first two and the note after the findings of the third.

* `SequentialInvariant`: `Spec => []SequentialInv`; from it `StaticsInBounds` (`TypeOK`),
  `SessionsAreIsolated` (`SessionIsolation`) and `StaticsAreDrained`
  (`DrainedBetweenSessions`).

`SessionIsolation` alone says nothing of a thread between two steps. `SequentialInv` says
at every `pc` of the one running session what the three statics and its locals hold: which
bytes of the payload are left, and that they are the ones after what it has got. What is
left is the rest of *one* payload of which a part has been read (`Begun`); a thread that
has read to the end of a payload therefore leaves nothing, whether it goes on or ends.

`HandshakeProofs`, for any users, hosts, lists and sets of valid certificates:

* `HandshakeInvariant`: `Spec => []HandshakeInv`; from it `HandshakeTypeCorrect`,
  `PeersAgree` (`Agreement`), `PeersAreTrusted` (`OnlyTrusted`).
* `KeyExchangeSafety`: `Spec` implies `Init` and `[][Next]` of `KeyExchange` under the
  mapping.

`Agreement` depends on what is under way. `KeptInv` says that the i-th string a peer has
taken is the i-th the other sends, or torn; `InFlightInv` that what is in the stream are
the next ones, and, while the link is up, that they are whole and as many as are missing.
The last is what excludes a failure without a reason, hence the refinement. The proof
needs that `NoKeys` is not a set of keys, the two keys differ, and the two nonces do.

`FileTransferProofs`, for any names, contents, buffer and line lengths, and with every
fault of `Starts`:

* `TransferInvariant`: `Spec => []TransferInv`; from it `TransferTypeCorrect` and
  `UploadsNeverOverrun` (`NoOverrun`).
* `PayloadsFit`: `Spec => []SendsFit` under `ListingsFit`: the listing of every name that
  root/ may come to hold fits the buffer. `transfer_list` violates it where it does not.
  `SendsFit` is about fragments and listings in every session, and about requests where no
  name is typed that a request can not carry.

`NoOverrun` needs that a handler still has its file and that the file is as long as the
count says; that the types hold needs that a stream which is not empty ends a payload, or
`Crypto::recv` could return nothing. `TransferInv` also says that root/ gets no name but
parolas, which bounds the listing. None of this depends on the two programs being in step.

`FileTransferSync` proves that they are, and what follows, for sessions where nothing goes
wrong but the connection (`Calm`), with any number of commands:

* `SyncInvariant`: `Spec => []SyncInv`; from it `ProgramsAreInSync` (`InSync`) and
  `FilesAreWhole` (`WholeFiles`).
* `DownloadsAreExact`, `UploadsAreExact`, `ListingsAreExact`: the action properties
  `GetIsExact`, `PutIsExact`, `ListIsExact`.

`InSync` speaks of the prompt only, `WholeFiles` of the disk only; neither says what is
under way. `SyncInv` gives, for every pair of states of the two programs, what both
streams carry. `ServerSide`: before a thread that waits for a command there are at most
two line feeds (the end of the last request, which `recvCmd` may leave when it stops at a
full buffer) and then the request the client is waiting on; before `cmd_stor` the rest of
the upload. `ClientSide`: before `recv_response` one of the answers to that very request
(`Answered`; for a directory `Opened`, an announcement without a body), with as much of
the body as the server says it has sent; before `recv_file`
and `recv_list` the rest of it. `Together`: neither program has gone on without the other.
`ListingWhole` says where the payloads of a listing end, as `recv_list` prints one fragment only.
While the connection is up these are equations; when it breaks each stream is cut, and
only the bounds and the contents are left, so that `Break` is a case like the others.
There is one lemma per action; `NextLine` says which line `recvCmd` takes from such a
stream, `AfterCommand` what is left behind it. The assumptions are those of
`FileTransfer`: names of files that exist make no request too long, which `SyncInv` keeps
as `ShortNames` (a file system allows 255 bytes, a request 4096), a line holds a short request
and one line feed more (`LineLimit >= 5`), and neither a byte nor
the rest of a line is the first word of a request or a reply.

`FileServerProofs`, for any number of sessions, names and inodes:

* `FilesInvariant`: `Spec => []FilesInv`; from it `FilesTypeCorrect`, `BytesStayInPlace`
  (`BytesInPlace`), `FilesStayPure` (`FilesArePure`).
* `DownloadsAreWhole`, `UploadsAreWhole`: the action properties `UndisturbedDownload` and
  `UndisturbedUpload`.

`FilesArePure` needs what is known of an upload still open: alone on its inode it has
written exactly the first bytes of itself (`UploadInv`); the exactness of a download needs
that a file nobody touched is what it was when it was opened, and that what was sent is a
prefix of that (`DownloadInv`).

`ServerProcessProofs`, for tables of any size: `ProcessInvariant`: `Spec => []ProcessInv`,
and from it `ProcessTypeCorrect` and `OwnersOfDescriptors` (`DescriptorsOwned`).
`ProcessInv` adds that only a serving `Client` has a file open and that a deleted one has
given its descriptor back.

Only model-checked:

* everything about liveness, and the liveness halves of the two refinements: temporal
  reasoning under fairness is out of the prover's reach. `FailureNoticed`, `AllServed`,
  `CommandEnds`, `ThreadEnds`, `EveryoneServed`, `DescriptorsReturn`, and
  `ImplementsByteStream` and `ImplementsKeyExchange` as a whole;
* `SharedReceiver` with overlapping sessions, where the properties are false.

## Findings

Each is a run whose property states a line of the documentation and fails for what the
code does; `PROJECT.json` quotes the lines.

1. `shared_overlap`: the statics of `Crypto::recv` are shared by all threads, and a
   session returns bytes of another.
2. `shared_overflow`: the overflow exception leaves `remaining` set; the next session of
   the process reads the stale payload.
3. `transfer_uploads`: once the server has agreed to an upload, a file that can not be
   opened leaves it waiting for the body, so that the next commands are stored as file
   content; and `send_file` ignores short reads and sends what its buffer holds.
4. `transfer_no_downloads`: the body of a download that can not be written stays in the
   stream and is taken for the next status line.
5. `transfer_list`: a listing above `BUFFER_SIZE` bytes goes to `Crypto::send` in one piece,
   and overruns the local buffer in which it is encrypted.
6. `file_server_race`: `cmd_retr` announces one size and sends up to the end of the file,
   which an upload of another session has moved.

Without a run of their own:

* The packet that wraps the counter is decrypted but its payload is not delivered, so a
  session carries one packet less than the 2^31 of `src/doc/main.tex:685`.
  `OverflowLosesOnlyLast` says that this is all that is lost.
* A request of `BUFFER_SIZE` bytes leaves a line feed, because `recvCmd` (`client.cpp:28`)
  reads one byte less. Within a session that does no harm: it is a blank line or is
  skipped, and if there was one already there are two, which `ServerSide` allows for. But
  if the answer fails at that moment the thread ends with the byte in the statics, and the
  next session of the process reads it before its own first one. It is what `AnswersAtEnds`
  excludes: with `Ends` of `<<3>>` and `Answers` of `{2}` for the first of two sessions,
  `BufferSize` 3 and no overlap, TLC finds `SessionIsolation` violated by `Leave`.
* A name typed too long makes a request that overruns the buffer of `Crypto::send`, as the
  listing of `transfer_list` does: hence `oversize` and the second half of `SendsFit`.

## Not modelled

* OpenSSL and the thin wrappers around it: primitives are the values they produce. A
  random generator that fails (`ExRandom`) is left out.
* The reading of key and certificate files by `CertManager` and `RSAKey`, and the set-up
  of the listening socket: they happen once, before any of the behaviour modelled here.
* Logging, terminal input and output, `help`, local listing, progress bars.
* Directories made by hand in `root/`, which `LIST` would show and `RETR` open like `.` and
  `..`; neither program makes one. `root/` holds files in every module.
* The memory of a client that has overrun the buffer of `Crypto::send`: undefined, and
  modelled as "dies, or gets by". Likewise a listing that overruns the buffer of the
  server is found by `SendsFit`, and `FileTransfer` delivers it as if it had gone well.
* A listing whose first fragment fills the buffer of `recv_list` (`main.cpp:105`, a string
  without a terminator): `ListIsExact` is about shorter ones.
* TCP is a pipe without a capacity: peers that are in step can not both block in `send`,
  because only one of them sends at a time. Real time, as there are no timeouts.
* Short writes and a full disk under an upload: `cmd_stor` looks at none of them.

## Plan

1. Crash and restart of the client program between the bytes of a download.
2. A second look at what the two programs still guarantee once a fault has put them out
   of step, beyond `NoOverrun` and `ThreadEnds`.
