------------------------------ MODULE Download ------------------------------
(***************************************************************************)
(* One torrent of the rustorcli daemon: the state of Download (download.rs) *)
(* and everything main_loop.rs, decider.rs and peer_protocol.rs do to it    *)
(* during a tick of the main loop.                                         *)
(*                                                                         *)
(* A tick is a fixed sequence of phases, run by one thread.  `phase' is the *)
(* phase that runs next.  Between two phases, and between two messages of   *)
(* the receive phase, the process can be killed; the remote peers choose    *)
(* what is read from their connections.  Only the file on disk outlives the *)
(* process.                                                                *)
(*                                                                         *)
(* Data are abstracted to what the properties tell apart: a block on disk   *)
(* is right (`intact') or not, which is what the SHA-1 comparison of its    *)
(* piece finds out.                                                        *)
(***************************************************************************)
EXTENDS Integers, FiniteSets

CONSTANTS
    NumPeers,          \* how many peers ever enter the vector Download::peers
    Incoming,          \* those that connect to us; the others come from the tracker
    NumBlocks,         \* blocks of the torrent, numbered in piece order
    PieceOf,           \* the piece a block belongs to
    Holds,             \* the pieces each peer can supply
    MaxOutstanding,    \* config::MAX_OUTSTANDING_REQUESTS_PER_PEER
    MaxPerTick,        \* config::MAX_REQUESTS_PER_TICK_PER_DOWNLOAD
    RequestExpiration, \* config::REQUEST_EXPIRATION, in units of the request ages
    MaxCopies,         \* bound: copies of one request a peer has still to answer
    Faulty,            \* peers that may answer with damaged data
    Flaky,             \* peers whose connections may break, stall or be replaced
    Reserved,          \* peers that unchoke only those who said "interested"
    Leechers,          \* peers that request pieces from us
    TempSuffix,        \* the build moves the finished file (get_temp_suffix() is ".part")
    MayKill            \* the process may be killed

Peers  == 1 .. NumPeers
Blocks == 1 .. NumBlocks
Pieces == { PieceOf[b] : b \in Blocks }
NoPeer == 0            \* Block::request_record is None

ASSUME SizeAssumption ==
    /\ NumPeers \in Nat \ {0} /\ NumBlocks \in Nat \ {0}
    /\ PieceOf \in [Blocks -> Nat]
    /\ \A b, c \in Blocks : b < c => PieceOf[b] <= PieceOf[c]
ASSUME LimitAssumption ==
    /\ MaxOutstanding \in Nat \ {0} /\ MaxPerTick \in Nat \ {0}
    /\ RequestExpiration \in Nat /\ MaxCopies \in Nat \ {0}
ASSUME PeerAssumption ==
    /\ Incoming \subseteq Peers /\ Faulty \subseteq Peers /\ Flaky \subseteq Peers
    /\ Reserved \subseteq Peers /\ Leechers \subseteq Peers
    /\ Holds \in [Peers -> SUBSET Pieces]
    /\ TempSuffix \in BOOLEAN /\ MayKill \in BOOLEAN

VARIABLES
    phase,             \* next phase of the tick; "off": killed, "panicked": died by itself
    registered,        \* length of Download::peers: peers 1 .. registered exist
    connected,         \* peers whose stream is Some
    we_choked,         \* Peer::we_choked
    we_interested,     \* Peer::we_interested
    heard,             \* peers whose last_incoming_message is not UNIX_EPOCH
    has_piece,         \* Peer::has_piece
    outstanding,       \* Peer::outstanding_block_requests (i32)
    request_peer,      \* Block::request_record.peer_id, or NoPeer
    request_age,       \* time since Block::request_record.time, saturating
    block_downloaded,  \* blocks whose `downloaded' is set
    piece_downloaded,  \* pieces whose `downloaded' is set
    downloaded,        \* Download::downloaded
    recent,            \* Download::recently_downloaded_pieces, as a set
    pending,           \* Download::pending_block_requests: <<peer, piece>> pairs
    intact,            \* blocks that are right on disk
    at_final,          \* something exists under the final name
    writable,          \* the files were opened for writing
    wire,              \* wire[p][b]: copies of a request p has yet to answer
    told               \* pieces p was told about on its current connection

peerVars  == << connected, we_choked, we_interested, heard, has_piece, outstanding >>
blockVars == << request_peer, request_age, block_downloaded, piece_downloaded, downloaded, recent >>
diskVars  == << intact, at_final, writable >>
netVars   == << wire, told >>
vars == << phase, registered, peerVars, blockVars, pending, diskVars, netVars >>

Phases == { "connect", "announce", "accept", "receive", "expire", "have",
            "request", "serve", "reset", "off", "panicked" }
Running == phase \notin { "off", "panicked" }

BlocksOf(i) == { b \in Blocks : PieceOf[b] = i }
Records(p)  == { b \in Blocks : request_peer[b] = p }
NoCopies    == [b \in Blocks |-> 0]

(***************************************************************************)
(* The process ends: what it held in memory, and its connections, are gone. *)
(* on_disk and final are what it leaves of the file.                        *)
(***************************************************************************)
ProcessGone(how, on_disk, final) ==
    /\ phase' = how
    /\ registered' = 0
    /\ connected' = {} /\ we_choked' = Peers /\ we_interested' = {} /\ heard' = {}
    /\ has_piece' = [p \in Peers |-> {}]
    /\ outstanding' = [p \in Peers |-> 0]
    /\ request_peer' = [b \in Blocks |-> NoPeer]
    /\ request_age' = [b \in Blocks |-> 0]
    /\ block_downloaded' = {} /\ piece_downloaded' = {} /\ downloaded' = FALSE
    /\ recent' = {} /\ pending' = {}
    /\ intact' = on_disk /\ at_final' = final /\ writable' = FALSE
    /\ wire' = [p \in Peers |-> NoCopies] /\ told' = [p \in Peers |-> {}]

Init ==
    /\ phase = "off"
    /\ registered = 0
    /\ connected = {} /\ we_choked = Peers /\ we_interested = {} /\ heard = {}
    /\ has_piece = [p \in Peers |-> {}]
    /\ outstanding = [p \in Peers |-> 0]
    /\ request_peer = [b \in Blocks |-> NoPeer]
    /\ request_age = [b \in Blocks |-> 0]
    /\ block_downloaded = {} /\ piece_downloaded = {} /\ downloaded = FALSE
    /\ recent = {} /\ pending = {}
    /\ intact = {} /\ at_final = FALSE /\ writable = FALSE
    /\ wire = [p \in Peers |-> NoCopies] /\ told = [p \in Peers |-> {}]

(***************************************************************************)
(* Start of the process: Download::new opens what is on disk and init_pieces *)
(* hashes every piece.  A file found under the final name is opened          *)
(* read-only, unless that name is also the temporary one.                    *)
(***************************************************************************)
\* Faulty variant: one right block is enough for the piece.
VerifiedByOneBlock(disk) == { i \in Pieces : BlocksOf(i) \cap disk # {} }

VerifiedOnDisk(disk) == { i \in Pieces : BlocksOf(i) \subseteq disk }

Start ==
    /\ phase \in { "off", "panicked" }
    /\ phase' = "connect"
    /\ piece_downloaded' = VerifiedOnDisk(intact)
    /\ block_downloaded' = { b \in Blocks : PieceOf[b] \in VerifiedOnDisk(intact) }
    /\ downloaded' = (VerifiedOnDisk(intact) = Pieces)
    /\ writable' = (~TempSuffix \/ ~at_final)
    /\ at_final' = (~TempSuffix \/ at_final)
    /\ UNCHANGED << registered, peerVars, request_peer, request_age, recent, pending,
                    intact, netVars >>

Kill ==
    /\ MayKill /\ Running
    /\ ProcessGone("off", intact, at_final)

\* Faulty variant: the peer stays unchoked.
BreakKeepsUnchoke(broken, interested, out, sent, tell) ==
    /\ connected' = connected \ broken
    /\ UNCHANGED we_choked
    /\ we_interested' = interested \ broken
    /\ outstanding' = [p \in Peers |-> IF p \in broken THEN 0 ELSE out[p]]
    /\ wire' = [p \in Peers |-> IF p \in broken THEN NoCopies ELSE sent[p]]
    /\ told' = [p \in Peers |-> IF p \in broken THEN {} ELSE tell[p]]

(***************************************************************************)
(* Download::on_broken_connection for every peer of `broken', after a phase  *)
(* has given we_interested, outstanding, wire and told the values passed.    *)
(***************************************************************************)
OnBrokenConnection(broken, interested, out, sent, tell) ==
    /\ connected' = connected \ broken
    /\ we_choked' = we_choked \cup broken
    /\ we_interested' = interested \ broken
    /\ outstanding' = [p \in Peers |-> IF p \in broken THEN 0 ELSE out[p]]
    /\ wire' = [p \in Peers |-> IF p \in broken THEN NoCopies ELSE sent[p]]
    /\ told' = [p \in Peers |-> IF p \in broken THEN {} ELSE tell[p]]

\* Faulty variant: "interested" is not sent.
ConnectWithoutInterest(p, broken) ==
    /\ phase = "connect"
    /\ p <= registered /\ p \notin Incoming
    /\ p \in connected => p \in Flaky
    /\ broken \subseteq {p} \cap Flaky
    /\ connected' = (connected \cup {p}) \ broken
    /\ we_choked' = we_choked \cup broken
    /\ we_interested' = we_interested \ broken
    /\ heard' = heard \cup {p}
    /\ outstanding' = [outstanding EXCEPT ![p] = 0]
    /\ wire' = [wire EXCEPT ![p] = NoCopies]
    /\ told' = [told EXCEPT ![p] = IF p \in broken THEN {} ELSE piece_downloaded]
    /\ UNCHANGED << phase, registered, has_piece, blockVars, pending, diskVars >>

(***************************************************************************)
(* process_new_connections: the connector thread delivers a stream.  The     *)
(* entry of the peer keeps its we_choked and its requests; a live stream is  *)
(* replaced.  Bitfield, unchoke and interested are sent; a send may break.   *)
(***************************************************************************)
ConnectOutgoing(p, broken) ==
    /\ phase = "connect"
    /\ p <= registered /\ p \notin Incoming
    /\ p \in connected => p \in Flaky
    /\ broken \subseteq {p} \cap Flaky
    /\ connected' = (connected \cup {p}) \ broken
    /\ we_choked' = we_choked \cup broken
    /\ we_interested' = (we_interested \cup {p}) \ broken
    /\ heard' = heard \cup {p}
    /\ outstanding' = [outstanding EXCEPT ![p] = 0]
    /\ wire' = [wire EXCEPT ![p] = NoCopies]
    /\ told' = [told EXCEPT ![p] = IF p \in broken THEN {} ELSE piece_downloaded]
    /\ UNCHANGED << phase, registered, has_piece, blockVars, pending, diskVars >>

ConnectDone ==
    /\ phase = "connect" /\ phase' = "announce"
    /\ UNCHANGED << registered, peerVars, blockVars, pending, diskVars, netVars >>

(***************************************************************************)
(* process_new_announcements: register_outgoing_peer appends a peer that is  *)
(* not in the vector yet.                                                    *)
(***************************************************************************)
RegisterOutgoing ==
    /\ phase = "announce"
    /\ registered < NumPeers /\ registered + 1 \notin Incoming
    /\ registered' = registered + 1
    /\ UNCHANGED << phase, peerVars, blockVars, pending, diskVars, netVars >>

AnnounceDone ==
    /\ phase = "announce" /\ phase' = "accept"
    /\ UNCHANGED << registered, peerVars, blockVars, pending, diskVars, netVars >>

(***************************************************************************)
(* receive_incoming_connections: at most one stream per tick is accepted and *)
(* appended as a new peer; it is sent our bitfield and an unchoke, but not   *)
(* "interested".                                                            *)
(***************************************************************************)
AcceptIncoming(broken) ==
    /\ phase = "accept" /\ phase' = "receive"
    /\ registered < NumPeers /\ registered + 1 \in Incoming
    /\ LET p == registered + 1 IN
         /\ broken \subseteq {p} \cap Flaky
         /\ registered' = p
         /\ connected' = (connected \cup {p}) \ broken
         /\ told' = [told EXCEPT ![p] = IF p \in broken THEN {} ELSE piece_downloaded]
    /\ UNCHANGED << we_choked, we_interested, heard, has_piece, outstanding, blockVars,
                    pending, diskVars, wire >>

AcceptNone ==
    /\ phase = "accept" /\ phase' = "receive"
    /\ UNCHANGED << registered, peerVars, blockVars, pending, diskVars, netVars >>

(***************************************************************************)
(* receive_messages and process_message: one action per message type.  Every *)
(* complete message refreshes last_incoming_message.                        *)
(***************************************************************************)
Receive(p) ==
    /\ phase = "receive" /\ p \in connected
    /\ heard' = heard \cup {p}

\* The peer may drop the requests it has not answered when it chokes us.
RecvChoke(p, drop) ==
    /\ Receive(p) /\ p \in Flaky
    /\ we_choked' = we_choked \cup {p}
    /\ wire' = IF drop THEN [wire EXCEPT ![p] = NoCopies] ELSE wire
    /\ UNCHANGED << phase, registered, connected, we_interested, has_piece, outstanding,
                    blockVars, pending, diskVars, told >>

RecvUnchoke(p) ==
    /\ Receive(p) /\ (p \in Reserved => p \in we_interested)
    /\ we_choked' = we_choked \ {p}
    /\ UNCHANGED << phase, registered, connected, we_interested, has_piece, outstanding,
                    blockVars, pending, diskVars, netVars >>

\* Only a peer that may have restarted disowns a piece it had.
RecvBitfield(p, pieces) ==
    /\ Receive(p) /\ pieces \subseteq Holds[p]
    /\ p \in Flaky \/ has_piece[p] \subseteq pieces
    /\ has_piece' = [has_piece EXCEPT ![p] = pieces]
    /\ UNCHANGED << phase, registered, connected, we_choked, we_interested, outstanding,
                    blockVars, pending, diskVars, netVars >>

RecvHave(p, i) ==
    /\ Receive(p) /\ i \in Holds[p]
    /\ has_piece' = [has_piece EXCEPT ![p] = @ \cup {i}]
    /\ UNCHANGED << phase, registered, connected, we_choked, we_interested, outstanding,
                    blockVars, pending, diskVars, netVars >>

\* A peer asks for what it was told we have.
RecvRequest(p, i) ==
    /\ Receive(p) /\ p \in Leechers /\ i \in told[p]
    /\ pending' = pending \cup { << p, i >> }
    /\ UNCHANGED << phase, registered, connected, we_choked, we_interested, has_piece,
                    outstanding, blockVars, diskVars, netVars >>

(***************************************************************************)
(* A PIECE message (on_piece): the data are written before anything is       *)
(* looked at; the record is dropped only if it names this peer; then         *)
(* Piece::set_block_downloaded, on_piece_done, get_is_downloaded, on_done.   *)
(***************************************************************************)
AfterWrite(b, ok) == IF ok THEN intact \cup {b} ELSE intact \ {b}

PieceFull(b) == BlocksOf(PieceOf[b]) \subseteq block_downloaded \cup {b}

\* on_piece_done: the hash of the piece, read back from the file.
HashMatches(b, ok) == BlocksOf(PieceOf[b]) \subseteq AfterWrite(b, ok)

BlocksAfter(b, ok) ==
    IF PieceFull(b) /\ ~HashMatches(b, ok) THEN block_downloaded \ BlocksOf(PieceOf[b])
                                           ELSE block_downloaded \cup {b}
\* Faulty variant: a piece once downloaded is not hashed again.
PiecesHashedOnce(b, ok) ==
    IF PieceFull(b) /\ HashMatches(b, ok) THEN piece_downloaded \cup {PieceOf[b]}
                                          ELSE piece_downloaded

PiecesAfter(b, ok) ==
    IF ~PieceFull(b) THEN piece_downloaded
    ELSE IF HashMatches(b, ok) THEN piece_downloaded \cup {PieceOf[b]}
                               ELSE piece_downloaded \ {PieceOf[b]}

\* Faulty variant: the end of any piece is taken for the end.
AnyPieceDownloaded(b, ok) == PieceOf[b] \in PiecesAfter(b, ok)

\* get_is_downloaded, after the block.
AllDownloaded(b, ok) ==
    \A c \in Blocks : PieceOf[c] \in PiecesAfter(b, ok) \/ c \in BlocksAfter(b, ok)

\* on_done renames the temporary file; there must be one.
RenameFails(b, ok) == AllDownloaded(b, ok) /\ TempSuffix /\ at_final

\* Faulty variant: what counts is whether everything was there before this block.
MovedAfterNext(b, ok) == at_final \/ downloaded

\* on_done gives the file its final name.
Moved(b, ok) == at_final \/ AllDownloaded(b, ok)

Answer(p, b, ok) ==
    /\ phase = "receive" /\ p \in connected
    /\ wire[p][b] > 0
    /\ ok \/ p \in Faulty

\* Faulty variants: the answer clears a record that names another
\* peer; a late answer is counted against requests that are still open.
ClearAnyRecord(p, b) ==
    /\ request_peer' = [request_peer EXCEPT ![b] = NoPeer]
    /\ request_age' = [request_age EXCEPT ![b] = 0]
    /\ outstanding' = IF request_peer[b] = p /\ outstanding[p] > 0
                        THEN [outstanding EXCEPT ![p] = @ - 1] ELSE outstanding

ClearAndAlwaysCount(p, b) ==
    /\ request_peer' = IF request_peer[b] = p THEN [request_peer EXCEPT ![b] = NoPeer]
                                              ELSE request_peer
    /\ request_age' = IF request_peer[b] = p THEN [request_age EXCEPT ![b] = 0]
                                             ELSE request_age
    /\ outstanding' = IF outstanding[p] > 0 THEN [outstanding EXCEPT ![p] = @ - 1]
                                            ELSE outstanding

ClearRecord(p, b) ==
    /\ request_peer' = IF request_peer[b] = p THEN [request_peer EXCEPT ![b] = NoPeer]
                                              ELSE request_peer
    /\ request_age' = IF request_peer[b] = p THEN [request_age EXCEPT ![b] = 0]
                                             ELSE request_age
    /\ outstanding' = IF request_peer[b] = p /\ outstanding[p] > 0
                        THEN [outstanding EXCEPT ![p] = @ - 1] ELSE outstanding

RecvPiece(p, b, ok) ==
    /\ Answer(p, b, ok) /\ Receive(p)
    /\ writable /\ ~RenameFails(b, ok)
    /\ intact' = AfterWrite(b, ok)
    /\ ClearRecord(p, b)
    /\ block_downloaded' = BlocksAfter(b, ok)
    /\ piece_downloaded' = PiecesAfter(b, ok)
    /\ recent' = IF PieceFull(b) /\ HashMatches(b, ok) THEN recent \cup {PieceOf[b]} ELSE recent
    /\ downloaded' = (downloaded \/ AllDownloaded(b, ok))
    /\ at_final' = Moved(b, ok)
    /\ wire' = [wire EXCEPT ![p][b] = @ - 1]
    /\ UNCHANGED << phase, registered, connected, we_choked, we_interested, has_piece,
                    pending, writable, told >>

\* write(..).unwrap() on files opened read-only.
RecvPieceCannotWrite(p, b, ok) ==
    /\ Answer(p, b, ok) /\ ~writable
    /\ ProcessGone("panicked", intact, at_final)

\* fs::rename(..).unwrap() when the file was already moved.
RecvPieceCannotMove(p, b, ok) ==
    /\ Answer(p, b, ok) /\ writable /\ RenameFails(b, ok)
    /\ ProcessGone("panicked", AfterWrite(b, ok), at_final)

\* The process is killed after the write and before the rest of on_piece.
KillAfterWrite(p, b, ok) ==
    /\ MayKill /\ Answer(p, b, ok) /\ writable
    /\ ProcessGone("off", AfterWrite(b, ok), at_final)

\* Connections whose read failed are reset after all messages are processed.
ReceiveDone(broken) ==
    /\ phase = "receive" /\ phase' = "expire"
    /\ broken \subseteq connected \cap Flaky
    /\ OnBrokenConnection(broken, we_interested, outstanding, wire, told)
    /\ UNCHANGED << registered, heard, has_piece, blockVars, pending, diskVars >>

(***************************************************************************)
(* remove_expired_requests: every expired record is dropped and its peer's   *)
(* counter decremented once, whatever it is.                                *)
(***************************************************************************)
\* Faulty variant: only requests to connected peers expire.
ExpiredWhileConnected ==
    { b \in Blocks : request_peer[b] \in connected /\ request_age[b] > RequestExpiration }

Expired == { b \in Blocks : request_peer[b] # NoPeer /\ request_age[b] > RequestExpiration }

\* Faulty variant: the counter of the peer is not lowered.
ExpireKeepsCounter ==
    /\ phase = "expire" /\ phase' = "have"
    /\ request_peer' = [b \in Blocks |-> IF b \in Expired THEN NoPeer ELSE request_peer[b]]
    /\ request_age' = [b \in Blocks |-> IF b \in Expired THEN 0 ELSE request_age[b]]
    /\ UNCHANGED << registered, peerVars, block_downloaded, piece_downloaded, downloaded,
                    recent, pending, diskVars, netVars >>

ExpireRequests ==
    /\ phase = "expire" /\ phase' = "have"
    /\ request_peer' = [b \in Blocks |-> IF b \in Expired THEN NoPeer ELSE request_peer[b]]
    /\ request_age' = [b \in Blocks |-> IF b \in Expired THEN 0 ELSE request_age[b]]
    /\ outstanding' = [p \in Peers |-> outstanding[p] - Cardinality(Records(p) \cap Expired)]
    /\ UNCHANGED << registered, connected, we_choked, we_interested, heard, has_piece,
                    block_downloaded, piece_downloaded, downloaded, recent, pending,
                    diskVars, netVars >>

(***************************************************************************)
(* broadcast_have: decide_have_broadcasts empties the list; each connected   *)
(* peer is told of the pieces it is not known to have.                      *)
(***************************************************************************)
\* Faulty variant: peers that choke us are skipped.
have_broadcasts_to_unchoked(p) ==
    IF p \in connected \ we_choked THEN recent \ has_piece[p] ELSE {}

decide_have_broadcasts(p) == IF p \in connected THEN recent \ has_piece[p] ELSE {}

BroadcastHave(lost, broken) ==
    /\ phase = "have" /\ phase' = "request"
    /\ broken \cup lost \subseteq { p \in Flaky : decide_have_broadcasts(p) # {} }
    /\ OnBrokenConnection(broken, we_interested, outstanding, wire,
            [p \in Peers |-> IF p \in lost THEN told[p]
                                           ELSE told[p] \cup decide_have_broadcasts(p)])
    /\ recent' = {}
    /\ UNCHANGED << registered, heard, has_piece, request_peer, request_age,
                    block_downloaded, piece_downloaded, downloaded, pending, diskVars >>

(***************************************************************************)
(* decide_block_requests.  assign[b] is the peer block b is asked from, or   *)
(* NoPeer.  Blocks are visited in order: find_peer takes the first peer      *)
(* (lowest index) that is still below its limit.                            *)
(***************************************************************************)
Wanted == { b \in Blocks : /\ PieceOf[b] \notin piece_downloaded
                           /\ b \notin block_downloaded
                           /\ request_peer[b] = NoPeer }

AddedBefore(assign, b, p) == { c \in Blocks : c < b /\ assign[c] = p }
DecidedBefore(assign, b)  == { c \in Blocks : c < b /\ assign[c] # NoPeer }

\* Faulty variant: what this tick adds is not counted.
EligibleBeforeTick(assign, b) ==
    { p \in connected \ we_choked :
        PieceOf[b] \in has_piece[p] /\ outstanding[p] < MaxOutstanding }

Eligible(assign, b) ==
    { p \in connected \ we_choked :
        /\ PieceOf[b] \in has_piece[p]
        /\ outstanding[p] + Cardinality(AddedBefore(assign, b, p)) < MaxOutstanding }

find_peer(assign, b) ==
    IF Eligible(assign, b) = {} THEN NoPeer
    ELSE CHOOSE p \in Eligible(assign, b) : \A q \in Eligible(assign, b) : p <= q

decide_block_requests(assign) ==
    \A b \in Blocks :
        assign[b] = IF b \in Wanted /\ Cardinality(DecidedBefore(assign, b)) < MaxPerTick
                      THEN find_peer(assign, b) ELSE NoPeer

AddedInThis(assign, p) == { b \in Blocks : assign[b] = p }

(***************************************************************************)
(* execute_outgoing_block_requests: the records and counters are set before  *)
(* anything is sent.  `lost' are requests a full socket buffer swallowed     *)
(* (WouldBlock counts as success); `broken' are peers a send failed for.     *)
(***************************************************************************)
Lossy(assign) == { b \in Blocks : assign[b] \in Flaky }
Asked(assign) == { p \in Peers : AddedInThis(assign, p) # {} }

Sent(assign, lost) ==
    [p \in Peers |-> [b \in Blocks |->
        IF assign[b] = p /\ b \notin lost /\ wire[p][b] < MaxCopies
          THEN wire[p][b] + 1 ELSE wire[p][b]]]

RequestBlocks(assign, lost, broken) ==
    /\ phase = "request" /\ phase' = "serve"
    /\ decide_block_requests(assign)
    /\ lost \subseteq Lossy(assign)
    /\ broken \subseteq Asked(assign) \cap Flaky
    /\ request_peer' = [b \in Blocks |-> IF assign[b] # NoPeer THEN assign[b] ELSE request_peer[b]]
    /\ request_age' = [b \in Blocks |-> IF assign[b] # NoPeer THEN 0 ELSE request_age[b]]
    /\ OnBrokenConnection(broken, we_interested \cup Asked(assign),
            [p \in Peers |-> outstanding[p] + Cardinality(AddedInThis(assign, p))],
            Sent(assign, lost), told)
    /\ UNCHANGED << registered, heard, has_piece, block_downloaded, piece_downloaded,
                    downloaded, recent, pending, diskVars >>

(***************************************************************************)
(* execute_incoming_block_requests: the whole queue is answered, without a   *)
(* look at what we have.                                                    *)
(***************************************************************************)
ServeRequests(broken) ==
    /\ phase = "serve" /\ phase' = "reset"
    /\ broken \subseteq { p \in connected \cap Flaky : \E i \in Pieces : << p, i >> \in pending }
    /\ pending' = {}
    /\ OnBrokenConnection(broken, we_interested, outstanding, wire, told)
    /\ UNCHANGED << registered, heard, has_piece, blockVars, diskVars >>

(***************************************************************************)
(* reset_inactive_connections, then the sleep that ends the tick, in which   *)
(* the age of the requests grows by `passed'.  A connection nothing was ever *)
(* heard on has been inactive since the epoch.                              *)
(***************************************************************************)
Older(age) == IF age > RequestExpiration THEN age ELSE age + 1

EndTick(silent, passed) ==
    /\ phase = "reset" /\ phase' = "connect"
    /\ silent \subseteq connected \cap Flaky
    /\ OnBrokenConnection((connected \ heard) \cup silent, we_interested, outstanding, wire, told)
    /\ request_age' = IF passed THEN [b \in Blocks |-> IF request_peer[b] = NoPeer THEN 0
                                                       ELSE Older(request_age[b])]
                      ELSE request_age
    /\ UNCHANGED << registered, heard, has_piece, request_peer, block_downloaded,
                    piece_downloaded, downloaded, recent, pending, diskVars >>

-----------------------------------------------------------------------------

PeerSends ==
    \E p \in Peers :
        \/ \E drop \in BOOLEAN : RecvChoke(p, drop)
        \/ RecvUnchoke(p)
        \/ \E pieces \in SUBSET Pieces : RecvBitfield(p, pieces)
        \/ \E i \in Pieces : RecvHave(p, i)
        \/ \E i \in Pieces : RecvRequest(p, i)
        \/ \E b \in Blocks, ok \in BOOLEAN : RecvPiece(p, b, ok)

Dies ==
    \/ Kill
    \/ \E p \in Peers, b \in Blocks, ok \in BOOLEAN :
          \/ RecvPieceCannotWrite(p, b, ok)
          \/ RecvPieceCannotMove(p, b, ok)
          \/ KillAfterWrite(p, b, ok)

Assignments == [Blocks -> Peers \cup {NoPeer}]

ExecuteOutgoingBlockRequests ==
    /\ phase = "request"
    /\ \E assign \in { a \in Assignments : decide_block_requests(a) } :
          \E lost \in SUBSET Lossy(assign) : \E broken \in SUBSET Flaky :
             RequestBlocks(assign, lost, broken)

Next ==
    \/ Start
    \/ Dies
    \/ \E p \in Peers, broken \in SUBSET Flaky : ConnectOutgoing(p, broken)
    \/ ConnectDone
    \/ RegisterOutgoing
    \/ AnnounceDone
    \/ \E broken \in SUBSET Flaky : AcceptIncoming(broken)
    \/ AcceptNone
    \/ PeerSends
    \/ \E broken \in SUBSET Flaky : ReceiveDone(broken)
    \/ ExpireRequests
    \/ \E lost \in SUBSET Flaky : \E broken \in SUBSET Flaky : BroadcastHave(lost, broken)
    \/ ExecuteOutgoingBlockRequests
    \/ \E broken \in SUBSET Flaky : ServeRequests(broken)
    \/ \E silent \in SUBSET Flaky, passed \in BOOLEAN : EndTick(silent, passed)

Spec == Init /\ [][Next]_vars

(***************************************************************************)
(* Fairness.  The main loop and whoever starts the daemon keep going; time   *)
(* passes; a peer with a stable connection is found, reached, tells what it  *)
(* has, unchokes us, and answers when it is asked again and again.  Nothing  *)
(* is assumed of the other peers.                                           *)
(***************************************************************************)
MainLoop ==
    \/ ConnectDone \/ AnnounceDone \/ AcceptNone
    \/ ReceiveDone({}) \/ ExpireRequests \/ BroadcastHave({}, {})
    \/ /\ phase = "request"
       /\ \E assign \in { a \in Assignments : decide_block_requests(a) } :
             RequestBlocks(assign, {}, {})
    \/ ServeRequests({}) \/ EndTick({}, TRUE)

StablePeer(p) ==
    /\ SF_vars(p \notin connected /\ ConnectOutgoing(p, {}))
    /\ SF_vars(RecvBitfield(p, Holds[p]))
    /\ SF_vars(RecvUnchoke(p))
    /\ SF_vars(\E b \in Blocks : RecvPiece(p, b, TRUE))

Fairness ==
    /\ WF_vars(Start) /\ WF_vars(MainLoop) /\ SF_vars(EndTick({}, TRUE))
    /\ SF_vars(RegisterOutgoing \/ AcceptIncoming({}))
    /\ \A p \in Peers \ Flaky : StablePeer(p)

FairSpec == Spec /\ Fairness

-----------------------------------------------------------------------------
(***************************************************************************)
(* Properties                                                              *)
(***************************************************************************)

\* The type of every variable; a stream belongs to a peer of the vector, and a
\* peer without a stream is choking us and owed nothing (on_broken_connection).
TypeOK ==
    /\ phase \in Phases /\ registered \in 0 .. NumPeers
    /\ connected \subseteq 1 .. registered
    /\ we_choked \subseteq Peers /\ Peers \ connected \subseteq we_choked
    /\ we_interested \subseteq connected
    /\ heard \subseteq Peers
    /\ has_piece \in [Peers -> SUBSET Pieces]
    /\ outstanding \in [Peers -> Int]
    /\ request_peer \in [Blocks -> Peers \cup {NoPeer}]
    /\ request_age \in [Blocks -> 0 .. RequestExpiration + 1]
    /\ block_downloaded \subseteq Blocks /\ piece_downloaded \subseteq Pieces
    /\ downloaded \in BOOLEAN /\ recent \subseteq Pieces
    /\ pending \subseteq Peers \X Pieces
    /\ intact \subseteq Blocks /\ at_final \in BOOLEAN /\ writable \in BOOLEAN
    /\ wire \in [Peers -> [Blocks -> 0 .. MaxCopies]]
    /\ told \in [Peers -> SUBSET Pieces]

\* No peer's counter passes MAX_OUTSTANDING_REQUESTS_PER_PEER: what one tick adds
\* to it, spread over the blocks of many pieces, is counted before it is applied
\* (decide_block_requests, added_in_this).
OutstandingWithinCap == \A p \in Peers : outstanding[p] <= MaxOutstanding

\* The counter of a peer never exceeds the records that name it, so no peer is
\* ever held at its limit by requests nobody remembers; and it is below them by at
\* most the records that connection resets left behind (on_broken_connection
\* zeroes the counter and keeps the records).
RecordsBoundOutstanding ==
    \A p \in Peers :
        /\ outstanding[p] <= Cardinality(Records(p))
        /\ outstanding[p] >= Cardinality(Records(p)) - NumBlocks

\* For a peer whose connection is neither broken nor replaced, the counter is
\* exactly the number of records that name it, through answers, late answers,
\* expiry and re-requests in any order.
ExactForStable ==
    \A p \in Peers \ Flaky : outstanding[p] = Cardinality(Records(p))

\* A piece is marked downloaded exactly when all its blocks are, and then every one
\* of them is right on disk: even a damaged late answer that overwrites a verified
\* piece unmarks it (on_piece writes first, on_piece_done hashes again).
PiecesVerified ==
    \A i \in Pieces :
        /\ i \in piece_downloaded <=> BlocksOf(i) \subseteq block_downloaded
        /\ i \in piece_downloaded => BlocksOf(i) \subseteq intact

\* A piece we have is known to every peer on a stable connection: it was in the
\* bitfield or in a HAVE, or the peer has it, or the HAVE is still to be sent.
HaveCoverage ==
    \A p \in connected \ Flaky :
        piece_downloaded \subseteq told[p] \cup has_piece[p] \cup recent

\* With honest peers, every request waiting to be answered is for a piece whose data
\* on disk are right, although nothing checks that when it is answered.
PendingServable ==
    Faulty = {} => \A r \in pending : BlocksOf(r[2]) \subseteq intact

\* With honest peers, what the macOS build puts under the final name is complete.
FinalIsComplete == Faulty = {} /\ TempSuffix /\ at_final => intact = Blocks

\* A request that is not answered is given up, so that another peer can be asked.
RequestsRetried ==
    \A b \in Blocks : request_peer[b] # NoPeer ~> request_peer[b] = NoPeer

\* If the process is left to run and a peer with a stable connection has every
\* piece, the download completes.
Completion == <>[]downloaded

\* A finished download gets its final name, if the process is not killed: also when it
\* panics over late answers and is started again (on_done, set_block_downloaded).
FileMoved == <>[]downloaded => <>at_final

\* Every peer has at most MAX_OUTSTANDING_REQUESTS_PER_PEER requests under way.
RequestsInFlight(p) == { b \in Records(p) : wire[p][b] > 0 }
WireCap == \A p \in Peers : Cardinality(RequestsInFlight(p)) <= MaxOutstanding

\* The daemon does not die by itself.
NoPanic == phase # "panicked"

\* With honest peers the download implements Acquisition: what is right on disk only
\* grows, the process finds all of it when it starts, only verified pieces are offered,
\* and `downloaded' is set exactly when the last piece is verified, through breaks,
\* late and duplicate answers, panics and kills.
Promise == INSTANCE Acquisition WITH
    stored   <- VerifiedOnDisk(intact),
    known    <- piece_downloaded,
    offered  <- { r \in Peers \X Pieces : r[2] \in told[r[1]] },
    complete <- downloaded,
    up       <- Running
ImplementsAcquisition == Promise!Spec
=============================================================================
