# Verification of rustorcli

TLA+ models of rustorcli, a BitTorrent client: a daemon that downloads and
serves torrents, and command line processes that tell it what to download.
The models are written from the Rust sources under `src/src/`; TLC checks them
on small instances and TLAPS proves theorems about them for every instance.
`PROJECT.json` lists the runs, what each checks, the source lines each
definition stands for, the hazards of the code and the findings.

## 1. The system

### Components

| Component (source) | State | Operations |
|---|---|---|
| Download (`download.rs`) | pieces, blocks, request records, `downloaded`, `recently_downloaded_pieces`, `pending_block_requests`, the open files, the vector of peers | `new` (open, hash what is on disk), `register_*_peer`, `set_block_downloaded`, `on_piece_done`, `on_done` (rename), `on_broken_connection` |
| Main loop (`main_loop.rs`) | the map of downloads, the two channels to its helpers | one tick: new streams, announcements, one accept, messages, expiry, HAVE, requests, answers, inactivity, reconnection |
| Decider (`decider.rs`) | none of its own; sets records and counters of a download | which blocks to ask from whom, whom to tell HAVE, whom to reconnect |
| Peer protocol (`peer_protocol.rs`, `io_primitives.rs`) | `buf`, `next_message_length` of a peer | framing, one handler per message, sending |
| Connector thread (`outgoing_connections.rs`, `handshake.rs`) | a queue of requests, a queue of responses | connect with timeout, handshake |
| Tracker thread (`announcement.rs`) | a queue each way | HTTP announcement |
| Torrent entries (`torrent_entries.rs`) | `torrent-entries.json`, `next-id` | add, remove, list |
| State file (`state_persistence.rs`) | `state.json` | persist, load |
| Command line (`main.rs`) | pid file | start (daemonize), stop (SIGINT), list |

### How they interact

The main loop is one thread and owns every download. Helper threads talk to it
only through channels it polls once a tick. Remote peers talk to it through
non-blocking sockets: a read may find nothing, a write may be swallowed by a
full buffer (`send_msg` treats `WouldBlock` as success), and either may fail,
which calls `on_broken_connection`. The command line processes share files with
the daemon and with each other, and no lock. What outlives the process is the
downloaded file and those files.

### What is hard, and what makes each component correct

* **Requests.** A record per block, a counter per peer, and the peer's own idea of
  what it was asked are three views of one thing, changed by answers, late
  answers, expiry, and lost connections in any order. Correct: the counter
  follows the records; no peer passes its limit; no request is held for ever.
* **Pieces and disk.** Data are written before they are checked, and checked against
  a hash only when a piece is full; the process may die between the two.
  Correct: what is called downloaded is right on disk; what was finished is
  found again; what is served was verified.
* **Telling peers.** A peer learns what we have from a bitfield or a HAVE, sent in
  different phases. Correct: no piece falls between them.
* **Moving the finished file.** Once, when complete. Correct: complete and only then,
  and the daemon survives it.
* **Connections.** Streams come from another thread and may arrive twice or late.
  Correct: no peer is forgotten, a fresh stream starts from a fresh state, the main
  loop outlives its helpers, one connection is opened per peer at a time.
* **Handshakes.** Two threads block while they shake hands with other clients. Correct:
  neither is held for ever, a client that does what it should gets its handshake, for the
  torrent it named, and what is read next is the beginning of a message.
* **Framing.** A message may arrive in any number of parts. Correct: the messages
  handled are those sent.
* **Storage.** Pieces, blocks and files cut one array of bytes at different places.
  Correct: the files are that array, whatever is cut where.
* **Shared files.** Commands read, change and write without a lock, and every write
  empties the file first. Correct: ids are not given twice, nothing added is
  lost, the numbers shown under an id belong to its torrent.

## 2. Modules

| Module | Models | Role |
|---|---|---|
| `Download` | one download and everything a tick does to it, its peers, its file, kills | detailed specification and its properties |
| `Acquisition` | what a download promises | abstract specification |
| `Connections` | the main loop's connections, the connector and tracker threads, their channels | specification and its properties |
| `Handshake` | handshakes of a process with other clients | specification and its properties |
| `Framing` | one direction of a connection, byte by byte | detailed specification and its properties |
| `MessageChannel` | what a connection promises | abstract specification |
| `Storage` | pieces and blocks over the files | detailed specification and its properties |
| `FlatFile` | what the files promise: one array of bytes | abstract specification |
| `TorrentEntries` | the shared files, the commands, the daemon's reload and state file | detailed specification and its properties |
| `TorrentRegistry` | what the list of torrents promises | abstract specification |
| `MCDownload`, `MCConnections`, `MCHandshake`, `MCFraming`, `MCStorage`, `MCTorrentEntries` | values for the checks | model-checking instances |
| `NatSets` | a set of numbers has a least (greatest) element | lemmas |
| `DownloadProofs` | types and counters of `Download`, exact counters of unbroken connections | theorems |
| `PieceProofs` | pieces against the disk, what peers are told and served, the moved file, `Acquisition` | theorems |
| `ConnectionsProofs`, `HandshakeProofs`, `FramingProofs`, `StorageProofs`, `TorrentEntriesProofs` | those modules | theorems |

How they fit together. `Download` is the middle: it takes a connection as something that
appears and breaks, a message as something that arrives whole, and a block as
right or wrong on disk. `Connections` and `Handshake` model how a connection comes about,
`Framing` when messages arrive whole, and `Storage` how a block becomes bytes of several
files. What one module assumes of another is what the other shows: a reset clears what
was read of a message (`Framing`), a stream may replace another (`Connections`),
what follows a handshake is a message (`Handshake`), a piece is right when its hash
matches and stays so (`Storage`; with its condition, see the theorems).

Definitions called "faulty variant" are not part of a specification: each is a
bug one could plausibly make in the definition after it, kept to show that the
property it breaks depends on the code being as it is.

### Download

`phase` is the function of the tick that runs next; the actions of a phase are
the calls it makes, and the last of them moves to the next phase:

| phase | actions | code |
|---|---|---|
| connect | `ConnectOutgoing`, `ConnectDone` | `process_new_connections` |
| announce | `RegisterOutgoing`, `AnnounceDone` | `process_new_announcements` |
| accept | `AcceptIncoming`, `AcceptNone` | `receive_incoming_connections` |
| receive | `RecvChoke` ... `RecvPiece`, `ReceiveDone` | `receive_messages`, `process_message` |
| expire | `ExpireRequests` | `remove_expired_requests` |
| have | `BroadcastHave` | `broadcast_have` |
| request | `ExecuteOutgoingBlockRequests` | `execute_outgoing_block_requests` |
| serve | `ServeRequests` | `execute_incoming_block_requests` |
| reset | `EndTick` | `reset_inactive_connections`, the sleep |

`Start` is `Download::new`; `Kill`, `KillAfterWrite`, `RecvPieceCannotWrite` and
`RecvPieceCannotMove` end the process, the last two by a failed `unwrap`. After
any of them only `intact` and `at_final` survive.

State: `connected`, `we_choked`, `we_interested`, `has_piece` and `outstanding` are
the fields of `Peer`; `request_peer` and `request_age` are `Block::request_record`;
`block_downloaded`, `piece_downloaded`, `downloaded`, `recent` and `pending` are
the fields of `Piece`, `Block` and `Download`. `heard` says that
`last_incoming_message` is not the epoch. Peers are numbered as in the vector.
Three variables are not fields: `intact` is the set of blocks that are right on
disk (the SHA-1 of a piece matches exactly when all its blocks are in it);
`wire[p][b]` counts the copies of a request that peer p has still to answer; `told[p]`
is what p was told on its connection. The last two follow from what was sent.

Abstractions:

* A block is right or wrong; lengths, offsets and the spread over several files are
  left out. Messages are whole; a message to a flaky peer may be lost where
  `send_msg` ignores `WouldBlock`, and its connection may break at every send or
  read. `lost` in `BroadcastHave` drops all the HAVEs of a peer in that tick.
* Messages of one tick are handled in any order between peers; the code reads the
  peers in order. Nothing bounds their number except what was asked.
* Ages of requests grow at the end of a tick only; `request_age` saturates just above
  `RequestExpiration`.
* Queued requests are kept by piece, as a set.
* `recently_downloaded_pieces` is a set: a piece pushed twice is announced twice in
  the code and once here.
* Peers answer only what they were asked and send only well-formed messages.

Constants name the environment: `Faulty` peers may send damaged data; `Flaky` peers
may lose, break, stall or replace their connections, or disown pieces; the others
are *stable*; `Leechers` ask for pieces; `Reserved` peers unchoke only peers that are
interested; `Incoming` peers connect to us. `TempSuffix` is the build: true where
`get_temp_suffix` is `.part` (macOS), false elsewhere.

### Connections

The phases are those of the tick, for connections only. `requests` and `responses` are the
channels to and from the connector thread, `asked` and `announcements` those of the tracker
thread; a thread takes the head of its queue and answers in one step, or dies and its
queue with it.

| phase | actions | code |
|---|---|---|
| tracker | `CheckWithTracker`, `TrackerNotDue`, `CheckFails` | `request_checking_with_tracker` |
| connect | `ProcessNewConnection`, `ProcessConnectionError`, `ConnectDone` | `process_new_connections` |
| announce, ask | `ProcessAnnouncement...`, `AskForConnection`, `AskDone`, `AskFails` | `process_new_announcements`, `request_new_connections` |
| accept | `AcceptIncoming`, `AcceptNone` | `receive_incoming_connections` |
| receive, send | `ReceiveMessage`, `ReceiveDone`, `Send` | `receive_messages`, `execute_*_block_requests` |
| reset | `ResetInactive` | `reset_inactive_connections` |
| decide, reconnect | `DecideReconnect`, `RequestReconnect`, `ReconnectDone`, `AskFails` | `request_resetting_broken_connections` |
| sleep | `Sleep` | the sleep; times grow here |

`outgoing` are the peers whose `peer_info` is there; `connected` those whose `stream` is;
`since`, `quiet` and `tracker_age` are the times since the fields of that name were set,
saturating where no comparison tells more. `age`, the time a stream has existed, is not in
the code: it is there to say what `reset_inactive_connections` should go by. Left out: other
downloads, keep-alives and parts of messages (they change nothing here), what is sent.

### Handshake

One process and the clients it meets, called strangers. Two rustorcli processes are never the two
ends of a connection: `register_outgoing_peer` skips peers on `config::PORT`, and that is the port
every rustorcli announces. Connections in `Outgoing` belong to the connector thread, which has
them waiting in its queue (`Request`), connects and writes (`Connect`), reads, and compares the info
hash (`Validate`). Those in `Incoming` belong to the main loop, which has them waiting in the
listener's backlog, accepts (`Accept`), reads, and writes its answer (`Answer`). `ours` says how far
the process is with a connection, `theirs` how far the stranger. `wire` is what is there to be read,
`read` and `written` are the bytes the process has read and written in the handshake; what was read
says which field comes next (`FieldEnds`). A read takes any part of what is there, so bytes
arrive when and as they like. `named` is history: the torrent the stranger named. Each thread has one
handshake at a time. A stranger writes any part of a handshake, with a protocol name of another length,
any info hash, and a message behind it, falls silent or closes; on a connection in `Proper` it writes a
whole one, for a torrent that will do. Bytes are told apart only as far as they matter.
A connection that is refused never gets here; it is an error answer in `Connections`.

### Framing

One direction of a connection, with what rustorcli does at either end of it: `send_msg` where it
writes and `receive_message` where it reads. The other end is another client, taken to write and read in
the same way. `inflight` and
`arrived` are bytes in the sockets; `buf` and `next_message_length` the fields of the receiving
`Peer`. `send_msg` writes what there is room for and takes that for success.
`ReceiveNoLength`, `ReceiveKeepAlive`, `ReceiveLength`, `ReceiveMore` and `ReceiveEnd` are the outcomes of
`receive_message`. `NewStream` leaves `buf` and `next_message_length` alone, as
`process_new_connections` does, and may come in the middle of a message (`MayReplace`).
`put`, `handled` and `torn` are history: what was written whole, what came out, and whether
bytes were lost. Nothing limits how many messages a tick handles.

### Storage

`phase` is what the process does: `init_pieces`, `set_content` and then the check of a full
piece, `get_content` for a peer, or nothing. `file`, `done` and `data` are the loop variables of
`get_content` and `set_content`; `SkipFile`, `ReadFromFile` and `WriteToFile` are one turn each, and `Kill` may
come between two. `on_disk[f]` holds what a file would hold at its full length and
`file_size[f]` how far it goes. A SHA-1 matches exactly when the bytes are those of the torrent. The
torrent file is well formed; a write is whole (`handle.write` may write less, and the code
does not look); what was written is not lost with the process. Moving the file is in `Download`,
and peers ask for blocks as rustorcli does.

### TorrentEntries

A command is `InitEntries` (which every process runs first), then `AddList`,
`AddNumber`, `Truncate`, `Write`, `CreateNextId`, `WriteNextId` for an addition, or
`RemoveList`, `Truncate`, `Write` for a removal: one action for each access to a
file, since other processes may come in between. A text is missing, empty (just
truncated), a list, or mixed (a shorter text written over a longer one that
appeared after the truncation); reading anything but a list ends the process. The
daemon is `Load`, `ReloadConfig` or `ReloadFails`, `PersistCreate`, `PersistWrite`,
`Stop`. `entries` keeps the last list the file held while it is being rewritten,
and `given` every id it ever held. `counted_for[i]` is the torrent whose traffic the
numbers of download i count, so that numbers taken over by another torrent can be
seen. A killed command is not modelled.

## 3. Runs

| Run | Checks | Instance |
|---|---|---|
| `faulty` | `TypeOK`, `OutstandingWithinCap`, `RecordsBoundOutstanding`, `ExactForStable`, `PiecesVerified`, `HaveCoverage` | two peers (one faulty and flaky, one stable), three blocks in two pieces, limit 1, 2 requests a tick, `.part` build, kills |
| `honest` | `PendingServable`, `FinalIsComplete`, `ImplementsAcquisition` | two honest peers (one flaky, one incoming leecher), three blocks in two pieces, limit 2, kills |
| `liveness` | `RequestsRetried`, `Completion`, `FileMoved` | two peers (first stable and reserved, second flaky), two blocks in one piece, `.part` build, panics but no kills, under `FairSpec` |
| `connections` | `TypeOK`, `PipelineSound`, `OutgoingGetTimeout`, `Reconnected` | two peers, one reachable, one whose address does not parse, a tracker that may die, one attempt, under `FairSpec` |
| `handshakes` | `TypeOK`, `MessagesComeNext`, `SameTorrent`, `HandshakesEnd`, `ProperOnesMeet` | two scenes, one for each thread: a client that does what it should next to one that need not, two torrents held and one not, under `FairSpec` |
| `framing` | `BufferFits`, `ImplementsChannel`, `AllHandled` | messages of one and two bytes and keep-alives, room for 10 bytes, three written, under `FairSpec` |
| `storage` | `TypeOK`, `LoopFits`, `ReadsFlat`, `PiecesRight`, `AllMeansRight`, `ImplementsArray` | 7 bytes in four files (one empty), pieces of 4, blocks of 2, damaged data, kills |
| `registry` | `TypeOK`, `DaemonAgrees`, `OwnNumbers`, `ImplementsRegistry` | one command at a time, two torrents, three ids, daemon started and stopped at will |
| `wirecap` | `WireCap` is violated | one flaky peer, one piece of two blocks, limit 1 |
| `move` | `NoPanic` is violated | two honest peers, one flaky, one block, `.part` build |
| `split` | `NoneLost` is violated | one message, room for it, no stream replaced, under `FairSpec` |
| `overlap` | `IdsNotReused` is violated | two commands at the same time |

What they show:

* `faulty`: however damaged, late and duplicate answers, expiry, lost connections, panics and
  kills interleave, a counter never passes the limit nor the records that name
  the peer, it is exact for a stable peer, a piece marked downloaded is right on
  disk, and no stable peer misses a piece.
* `honest`: what is moved under the final name is complete, what waits to be served
  is right on disk, and the download implements `Acquisition`: finished pieces
  are never lost, a restart finds them all, only verified pieces are offered, and
  `downloaded` is set exactly with the last piece. With damaged data this is false by
  design of the code (a late damaged block overwrites a verified piece, and
  `downloaded` is never unset), which is why the run is about honest peers.
* `liveness`: an unanswered request is given up, the download completes and the file gets its final
  name, also when peers unchoke only those who are interested, provided we opened the connection
  to one of them. Late answers end the process on the way (see `move`); it is started again.
* `connections`: with requests and answers doubled, delayed and mixed up by announcements,
  incoming peers and dying threads, the main loop's indices and unwraps are safe, a peer
  marked `being_connected` always has an answer coming (so reconnection to it is never blocked
  for good), and an outgoing connection is given its full time before it counts as inactive.
  After its attempts are used up a peer is still asked for by every announcement. A helper thread
  that dies takes the daemon with it: `Reconnected` says so, since it never goes on without.
* `handshakes`: whatever a client sends, and wherever it stops, the handshake ends and the thread is free
  again; if it succeeds the stream is at the beginning of a message, and it is for the torrent the
  client named, which the client was told. A client that does what it should gets its handshake,
  also when it has to wait for one that does not.
* `framing`: a connection is a `MessageChannel` until bytes are lost: messages in any number of parts
  come out whole, once, in order, and in the end; a stream that replaces another in the
  middle of a message is among the ways to lose bytes.
* `storage`: over any files the bytes are one array, a marked piece is right, and so is the whole when
  all pieces are marked. Pieces are a whole number of blocks here; the theorems say why.
* `registry`: commands one after the other implement `TorrentRegistry` although the
  daemon reads in the middle of their writes, and the daemon never confuses two
  torrents. The daemon may die when it reads an empty file (`ReloadFails`), and may
  be unable to start again after a kill inside `persist` (`Load` needs a `state.json`
  that is not empty); nothing in the repository says otherwise, so no run states it.

The violations are the findings of `PROJECT.json`:

* `wirecap`: the counter zeroed by a reset goes negative when the old records expire.
* `move`: the finished file is moved a second time by a late duplicate answer.
* `split`: a length that arrives in two parts is lost, and the stream is misread from then on.
* `overlap`: two overlapping additions give one id to two torrents.

The models show more of the same kind, which no run states:

* After a kill between the last write and the move nothing moves the file any more: `FileMoved`
  does not hold with `MayKill` (`on_done` is called only when a block arrives).
* On Linux the file has its final name before there are data in it.
* An announced address that does not parse, or an answer of the tracker that does not, ends its
  helper thread, and the next send the daemon (`AskFails`, `CheckFails`).
* An announcement asks for a peer that is being connected (`Missing` does not look at the mark), and
  the second stream replaces the first.
* An incoming connection is reset at the end of its first tick unless a whole message is there, which
  is why `OutgoingGetTimeout` is about the others.
* With pieces that are not a whole number of blocks the last block of a piece reaches into the
  next piece, which is not checked again: `AllMeansRight` needs `Aligned`.

### Bounds, and why they are enough

* Two peers in `Download`: the interesting cases are one peer's record answered by another, a
  request moved from one to another after expiry, and a broken peer next to a stable one.
* Three blocks in two pieces: a piece with two blocks can be partly downloaded, and
  one piece can be finished before the other. A limit of 1 with 2 requests a tick makes
  both limits bite.
* `MaxCopies = 1` bounds the copies of one request a peer has still to answer: expiry,
  re-request and a late answer happen; a second copy of a request sent on one
  connection while the first is unanswered is merged with it.
* `RequestExpiration = 0`: a request expires in the second tick after it was made
  unless it is answered first; a tick may also pass without ageing (`passed`).
* `Connections`: two peers have every pair of states next to each other and one loop that asks
  for both. `MaxAnnouncements = 1` is one announcement asked for or waiting; `MaxQueued` connection
  requests may be waiting when the next is answered, which is enough for a peer to be
  asked for twice and answered in between. Times of one unit: within the limit, and past it.
* `Handshake`: fields of one or two bytes, a protocol name of two where strangers send none or three; every
  split of every field. `Together` gives the scenes: the two threads share nothing in a handshake, so they are
  not put into one; two connections of a thread are one that is served and one that waits. Each is
  made once, after which the system stops, so deadlock is not checked there. Reads time out on any connection
  not in `Proper`, at any moment; those in `Proper` must succeed without.
* `Framing`: `MaxPut = 3` messages after the buffer was last known to be empty: one cut short by
  the room of 10 bytes, one misread after it, one more. The lengths the misread bytes can
  stand for are all there is.
* `Storage`: seven bytes over four files are cut so that a block lies in one file, in two, and on both sides of
  an empty one, and so that the last piece, the last block and a file end at different places.
* `MaxId = 3`: an id is given, removed, and passed over; one digit in `next-id`.

No state constraint is used; deadlock is checked everywhere but in `Handshake`.

### Fairness

`Download`. `MainLoop` gets weak fairness: it is an unconditional loop, and whoever runs the
daemon starts it. `EndTick` with time passing gets strong fairness, because
sleeping takes time; nothing forces a tick to be short. A stable peer is announced
or connects (strong fairness of `RegisterOutgoing`), is reached, sends its bitfield,
unchokes, and answers some request if it is asked again and again; a request phase
or a receive phase comes round for ever, hence strong fairness. Of flaky peers
nothing is assumed. Completion is stated where the stable peer comes first in the
vector: `find_peer` always prefers the first, and a peer before it that keeps breaking off takes
its share of the requests for ever.

`Connections`. The main loop and the connector thread go on, be it to their end (weak fairness), and time passes
in the sleep. The tracker answers if it is asked again and again, a reachable peer accepts a
connection if it is tried again and again, and its fresh stream does not break every time before
anything was sent on it: strong fairness, of things outside the program. Nothing is assumed of
incoming connections, of how long a connection lasts, or of attempts that fail.

`Handshake`. A read returns or gives up (its time-out is 10 seconds), the main loop comes round to
accept and the connector thread takes its next request; a client on a connection in `Proper` answers
in the end. Of the others nothing is assumed.

`Framing`. What was written arrives in the end, and the main loop goes on reading.

## 4. Theorems

All hold for every value of the constants that meets their named assumptions.

Of `Download`, for every number of peers and blocks, all limits, and any
sets of faulty, flaky, incoming, reserved and leeching peers:

* `TypeCorrect` (`Spec => []TypeOK`) by induction; `TypeOK` is inductive as it stands. Besides
  types it says that a stream belongs to a peer of the vector and that a peer
  without one is choking us, which the decisions of a tick rely on. `BreakTypes`
  does the work of `on_broken_connection` once for the five phases that call it.
* `LimitKept` and `CounterFollowsRecords`, from one invariant, `Counters`. The limit needs what
  a tick does: `FindPeer` and `Decided` say that every block is given to a peer below its
  limit *counting what the tick gave it before*; `AddedFits` takes the last block
  given to a peer and concludes that all of them fit. The bound by the records needs
  `RequestCounter` (blocks asked had no record, so the records grow by as much),
  `AnswerCounter` and `ExpiryCounter`.
* `CounterExactForStable`. Exactness is not inductive: connecting a peer zeroes its
  counter, and so does resetting a connection nothing was heard on. `StableInv` adds
  that a stable peer that is not connected, or was never heard, has no records, and
  that one never heard still chokes us; hence it is never asked.
* `DownloadedMeansVerified`. `PiecesVerified` is inductive: the pieces partition the blocks
  and every write is followed by the decision about its own piece.
* `StablePeersToldOfAll`. `HaveCoverage` is inductive once it is known that a process that starts, and
  marks what it finds on disk, has no connections and nothing to announce (`GoneClean`); a peer that
  connects later is sent the bitfield.
* `RequestsServable` and `MovedIsComplete`, from `HonestInv`: with honest peers, what peers were told, what waits to
  be announced and what waits to be served is right on disk, and what is right stays right (`DiskGrows`).
  `AllDownloadedMarked` connects `get_is_downloaded` with the marks of the pieces.
* `DownloadImplementsAcquisition`: with honest peers (its assumption, `Faulty = {}`) the initial states are those of
  `Acquisition` and every step is one of its steps or a stutter. `KnownInv` adds that every downloaded block is
  right on disk, so that a full piece always matches its hash; that what waits to be announced is marked;
  and that `downloaded` follows the marks. `OneMorePiece`: a write completes at most its own piece.

`NatSets` supplies that a scan in index order finds a least element.

Of `Connections`, for every number of peers, any addresses that do not parse and all limits:

* `ConnectionsTyped`. `TypeOK` is inductive: it says which peers may be in a channel, in a loop's list or
  marked, and that the list of a reconnection holds peers with attempts left.
* `MarkedPeersAttended`. `PipelineSound` is inductive with it: whatever takes a request from one queue puts
  an answer into the other, and whatever takes an answer clears the mark.
* `OutgoingNotResetEarly`. The invariant under it is that an outgoing connection has been quiet for no longer
  than it has existed; both clocks stand at zero when a stream is taken up and
  saturate at the same value.

Of `Framing`, for every set of messages and every buffer:

* `U32RoundTrip`: a u32 survives its four bytes.
* `BufferAlwaysFits`: `BufferFits` with `TypeOK`, whatever garbage is taken for a length.
* `ConnectionImplementsChannel`: every step is a step of `MessageChannel` or a stutter. The invariant
  under it is `Whole`: while no byte is lost, what is in the sockets (`Pending`) is the rest of the
  message being read (`Continues`) and then whole messages and keep-alives (`Frames`). `Frames` names the
  places where they begin instead of putting the bytes together recursively, so that a
  message is taken from the front (`FirstFrame`, `FramesShift`) or put at the end (`FrameAdded`)
  without induction over the messages.

Of `Handshake`, for any connections and torrents, whatever strangers write, and all lengths of the fields:

* `HandshakeTyped`, `MessagesFollow`, `TakenUpForItsTorrent` from one invariant. `MessagesComeNext` alone
  is not inductive. What is: whatever was read or can be read is the beginning of one handshake
  and at most one message (`Streams`), said byte by byte (`Byte`) since a read may stop anywhere;
  a stranger that was not reached has said nothing, and names no torrent before it writes (`Unasked`,
  `Unnamed`); on a connection the process opens its own handshake is written whole before anything
  is read, and on one it accepts the answer names what was named (`Written`); and a handshake that
  succeeded was read to its end and for a torrent that will do (`Checked`). Then a successful
  handshake has been read exactly up to the message, and what was read, named and written is one
  torrent (`StreamRead`). `OursStep` and `WriteStep` do the work for the actions.

Of `TorrentEntries`, for any torrents, any commands and up to 8 ids:

* `EntriesTyped`, whether or not commands overlap.
* `EntriesImplementRegistry`, `IdsGivenOnce`, `DaemonAlwaysAgrees`, `NumbersStayOwn`, if commands do not overlap
  (`~Overlap`). The condition is needed: the run `overlap` finds `IdsNotReused` violated without it.
  `SerialInv` says what the one command and the files know of each other: every id given is below
  the one in `next-id`, except between reading and rewriting it; a command that will save knows the list
  as it is, with at most one change (`Saves`). `MemoryInv` says of the three lists the daemon keeps
  (downloads, what it loaded, `state.json`) that they hold no id that was never given and, under an
  id still on the list, the torrent of the list: old reads stay true because ids are not given twice.

Of `Storage`, for every number and length of files, every piece length and block size:

* `StorageTyped`, `LoopsFit`, `ReadsAreFlat` from one invariant, `LoopInv`: types, what a call may ask for
  (`CallOK`), and where a loop is (`Progress`: what was done so far ends where the present file begins).
  `WriteByte` says what a write to one file does to the array.
* `StorageImplementsArray`: each step of `Storage` is a step of `FlatFile` or leaves it alone.
* `AlignedPiecesRight`, `AlignedFilesRight`: if a piece is a whole number of blocks (`Aligned`), a marked piece is
  right and a finished download is the torrent. `BlockInPiece` is where the condition is needed: without it the
  last block of a piece overwrites the start of the next. BLOCK_SIZE is 16384; torrents with pieces of a power of two
  from there on meet it.

Every invariant, action property and refinement of the passing runs is stated by a theorem. Only
model-checked is liveness, which rests on fairness and is out of this prover's reach: `RequestsRetried`,
`Completion`, `FileMoved`, `Reconnected`, `HandshakesEnd`, `ProperOnesMeet` and `AllHandled`. The four
violations are counterexamples and need no proof.

## 5. Plan

The positive side of the findings `wirecap` and `move`: under which conditions the requests a peer still
holds stay within the limit, and the finished file is moved once.

## 6. Not modelled

* HTTP and bencode (`announcement.rs`, torrent parsing): an external service and external crates; their
  results are in the models.
* Argument parsing, printing, and `daemonize` with its pid file (`main.rs`): whether a second
  daemon is refused rests on the locking of a crate that is not in the repository.
* Logging, the speed statistics, `they_interested` (only shown to the user), paths.
* Malformed messages, and peers that answer what they were not asked.
* Writes to disk that are short or lost after the process has ended.
* Commands killed between two of their steps.
