----------------------------- MODULE PieceProofs -----------------------------
(***************************************************************************)
(* Download's pieces against what is on disk, what peers are told and served *)
(* of them, what is moved to the final name, and the refinement of           *)
(* Acquisition.                                                             *)
(***************************************************************************)
EXTENDS DownloadProofs

LEMMA PieceHasBlocks ==
    ASSUME NEW i \in Pieces
    PROVE  \E b \in Blocks : b \in BlocksOf(i)
BY DEF Pieces, BlocksOf

LEMMA InitVerified == Init => PiecesVerified
<1> SUFFICES ASSUME Init, NEW i \in Pieces
             PROVE  i \notin piece_downloaded /\ ~(BlocksOf(i) \subseteq block_downloaded)
  BY DEF PiecesVerified
<1> QED BY PieceHasBlocks DEF Init

\* An answer for block b: its piece is marked if it is full and its hash matches,
\* unmarked if it is full and the hash does not match; the other pieces share no
\* block with it.
LEMMA AnswerVerified ==
    ASSUME TypeOK, PiecesVerified, NEW p \in Peers, NEW b \in Blocks, NEW ok \in BOOLEAN,
           RecvPiece(p, b, ok)
    PROVE  PiecesVerified'
<1> SUFFICES ASSUME NEW i \in Pieces
             PROVE  /\ i \in piece_downloaded' <=> BlocksOf(i) \subseteq block_downloaded'
                    /\ i \in piece_downloaded' => BlocksOf(i) \subseteq intact'
  BY DEF PiecesVerified, BlocksOf
<1>1. /\ intact' = AfterWrite(b, ok)
      /\ block_downloaded' = BlocksAfter(b, ok)
      /\ piece_downloaded' = PiecesAfter(b, ok)
  BY DEF RecvPiece
<1>2. /\ i \in piece_downloaded <=> BlocksOf(i) \subseteq block_downloaded
      /\ i \in piece_downloaded => BlocksOf(i) \subseteq intact
  BY DEF PiecesVerified
<1>3. CASE i # PieceOf[b]
  <2>1. b \notin BlocksOf(i) /\ BlocksOf(i) \cap BlocksOf(PieceOf[b]) = {}
    BY <1>3 DEF BlocksOf
  <2>2. \A c \in BlocksOf(i) : /\ c \in block_downloaded' <=> c \in block_downloaded
                               /\ c \in intact' <=> c \in intact
    BY <1>1, <2>1 DEF BlocksAfter, AfterWrite
  <2>3. i \in piece_downloaded' <=> i \in piece_downloaded
    BY <1>1, <1>3 DEF PiecesAfter
  <2> QED BY <1>2, <2>2, <2>3
<1>4. CASE i = PieceOf[b]
  <2>1. b \in BlocksOf(i)
    BY <1>4 DEF BlocksOf
  <2>2. CASE PieceFull(b) /\ HashMatches(b, ok)
    BY <1>1, <1>4, <2>2 DEF PiecesAfter, BlocksAfter, PieceFull, HashMatches
  <2>3. CASE PieceFull(b) /\ ~HashMatches(b, ok)
    BY <1>1, <1>4, <2>1, <2>3 DEF PiecesAfter, BlocksAfter
  <2>4. CASE ~PieceFull(b)
    BY <1>1, <1>2, <1>4, <2>4 DEF PiecesAfter, BlocksAfter, PieceFull
  <2> QED BY <2>2, <2>3, <2>4
<1> QED BY <1>3, <1>4

LEMMA VerifiedStep == TypeOK /\ PiecesVerified /\ [Next]_vars => PiecesVerified'
<1> SUFFICES ASSUME TypeOK, PiecesVerified, [Next]_vars PROVE PiecesVerified'
  OBVIOUS
<1> USE DEF peerVars, blockVars, diskVars
<1>1. ASSUME UNCHANGED << block_downloaded, piece_downloaded, intact >>
      PROVE  PiecesVerified'
  BY <1>1 DEF PiecesVerified, BlocksOf
<1>2. CASE Start
  <2> SUFFICES ASSUME NEW i \in Pieces
               PROVE  /\ i \in piece_downloaded' <=> BlocksOf(i) \subseteq block_downloaded'
                      /\ i \in piece_downloaded' => BlocksOf(i) \subseteq intact'
    BY DEF PiecesVerified, BlocksOf
  <2>1. /\ piece_downloaded' = VerifiedOnDisk(intact) /\ intact' = intact
        /\ block_downloaded' = { b \in Blocks : PieceOf[b] \in VerifiedOnDisk(intact) }
    BY <1>2 DEF Start
  <2>2. PICK c \in Blocks : c \in BlocksOf(i)
    BY PieceHasBlocks
  <2>3. \A b \in BlocksOf(i) : b \in Blocks /\ PieceOf[b] = i
    BY DEF BlocksOf
  <2>4. i \in VerifiedOnDisk(intact) <=> BlocksOf(i) \subseteq block_downloaded'
    BY <2>1, <2>2, <2>3
  <2> QED BY <2>1, <2>4 DEF VerifiedOnDisk
<1>3. CASE Dies
  <2>1. block_downloaded' = {} /\ piece_downloaded' = {}
    BY <1>3 DEF Dies, Kill, RecvPieceCannotWrite, RecvPieceCannotMove, KillAfterWrite, ProcessGone
  <2> QED BY <2>1, PieceHasBlocks DEF PiecesVerified, BlocksOf
<1>4. CASE \/ \E p \in Peers, broken \in SUBSET Flaky : ConnectOutgoing(p, broken)
           \/ ConnectDone \/ RegisterOutgoing \/ AnnounceDone
           \/ \E broken \in SUBSET Flaky : AcceptIncoming(broken)
           \/ AcceptNone
  BY <1>1, <1>4 DEF ConnectOutgoing, ConnectDone, RegisterOutgoing, AnnounceDone,
                    AcceptIncoming, AcceptNone
<1>5. CASE PeerSends
  <2>1. PICK p \in Peers :
          \/ \E drop \in BOOLEAN : RecvChoke(p, drop)
          \/ RecvUnchoke(p)
          \/ \E pieces \in SUBSET Pieces : RecvBitfield(p, pieces)
          \/ \E i \in Pieces : RecvHave(p, i)
          \/ \E i \in Pieces : RecvRequest(p, i)
          \/ \E b \in Blocks, ok \in BOOLEAN : RecvPiece(p, b, ok)
    BY <1>5 DEF PeerSends
  <2>2. CASE \E b \in Blocks, ok \in BOOLEAN : RecvPiece(p, b, ok)
    BY <2>2, AnswerVerified
  <2>3. CASE ~ \E b \in Blocks, ok \in BOOLEAN : RecvPiece(p, b, ok)
    BY <1>1, <2>1, <2>3 DEF RecvChoke, RecvUnchoke, RecvBitfield, RecvHave, RecvRequest
  <2> QED BY <2>2, <2>3
<1>6. CASE \/ \E broken \in SUBSET Flaky : ReceiveDone(broken)
           \/ ExpireRequests
           \/ \E lost \in SUBSET Flaky : \E broken \in SUBSET Flaky : BroadcastHave(lost, broken)
           \/ \E broken \in SUBSET Flaky : ServeRequests(broken)
           \/ \E silent \in SUBSET Flaky, passed \in BOOLEAN : EndTick(silent, passed)
  BY <1>1, <1>6 DEF ReceiveDone, ExpireRequests, BroadcastHave, ServeRequests, EndTick
<1>7. CASE ExecuteOutgoingBlockRequests
  BY <1>1, <1>7 DEF ExecuteOutgoingBlockRequests, RequestBlocks
<1>8. CASE UNCHANGED vars
  BY <1>1, <1>8 DEF vars
<1> QED BY <1>2, <1>3, <1>4, <1>5, <1>6, <1>7, <1>8 DEF Next

\* In every reachable state, a piece is marked downloaded exactly when all its blocks
\* are, and the blocks of a piece so marked are right on disk, whatever the peers
\* send and wherever the process was killed before.
THEOREM DownloadedMeansVerified == Spec => []PiecesVerified
<1> QED BY InitVerified, VerifiedStep, TypeCorrect, PTL DEF Spec

-----------------------------------------------------------------------------
(***************************************************************************)
(* HAVE and bitfield.  HaveCoverage is inductive once it is known that a       *)
(* process that starts, and marks what it finds on disk, has no connections. *)
(***************************************************************************)
GoneClean == phase \in { "off", "panicked" } => connected = {} /\ recent = {}

LEMMA GoneStep == GoneClean /\ [Next]_vars => GoneClean'
<1> SUFFICES ASSUME GoneClean, [Next]_vars PROVE GoneClean'
  OBVIOUS
<1>1. CASE Dies
  BY <1>1 DEF Dies, Kill, RecvPieceCannotWrite, RecvPieceCannotMove, KillAfterWrite, ProcessGone,
              GoneClean
<1>2. CASE \/ Start \/ ConnectDone \/ AnnounceDone \/ AcceptNone \/ ExpireRequests
           \/ ExecuteOutgoingBlockRequests
           \/ \E broken \in SUBSET Flaky : AcceptIncoming(broken) \/ ReceiveDone(broken)
           \/ \E lost \in SUBSET Flaky : \E broken \in SUBSET Flaky : BroadcastHave(lost, broken)
           \/ \E broken \in SUBSET Flaky : ServeRequests(broken)
           \/ \E silent \in SUBSET Flaky, passed \in BOOLEAN : EndTick(silent, passed)
  <2>1. phase' \notin { "off", "panicked" }
    BY <1>2 DEF Start, ConnectDone, AnnounceDone, AcceptNone, ExpireRequests, AcceptIncoming,
                ExecuteOutgoingBlockRequests, RequestBlocks, ReceiveDone, BroadcastHave,
                ServeRequests, EndTick
  <2> QED BY <2>1 DEF GoneClean
<1>3. CASE \/ RegisterOutgoing \/ PeerSends
           \/ \E p \in Peers, broken \in SUBSET Flaky : ConnectOutgoing(p, broken)
  <2>1. phase' = phase /\ phase \notin { "off", "panicked" }
    BY <1>3 DEF RegisterOutgoing, PeerSends, ConnectOutgoing, RecvChoke, RecvUnchoke,
                RecvBitfield, RecvHave, RecvRequest, RecvPiece, Receive
  <2> QED BY <2>1 DEF GoneClean
<1>4. CASE UNCHANGED vars
  BY <1>4 DEF vars, peerVars, blockVars, GoneClean
<1> QED BY <1>1, <1>2, <1>3, <1>4 DEF Next

LEMMA InitCovered == Init => HaveCoverage /\ GoneClean
BY DEF Init, HaveCoverage, GoneClean

\* What is kept if nothing is taken back from a peer that was connected, and a peer
\* that becomes connected is told of everything.
LEMMA CoverageKept ==
    ASSUME HaveCoverage,
           \A p \in connected' \ Flaky :
              \/ /\ p \in connected /\ told[p] \subseteq told'[p]
                 /\ has_piece[p] \subseteq has_piece'[p]
                 /\ recent \subseteq recent' \cup told'[p] \cup has_piece'[p]
              \/ piece_downloaded \subseteq told'[p],
           piece_downloaded' \subseteq piece_downloaded \cup recent'
    PROVE  HaveCoverage'
BY DEF HaveCoverage

\* A broken connection takes its peer out of `connected'.
LEMMA BreakCoverage ==
    ASSUME TypeOK, HaveCoverage, NEW broken, NEW interested, NEW out, NEW sent,
           NEW tell \in [Peers -> SUBSET Pieces],
           OnBrokenConnection(broken, interested, out, sent, tell),
           UNCHANGED << has_piece, piece_downloaded >>,
           \A p \in connected \ Flaky :
              /\ told[p] \subseteq tell[p]
              /\ recent \subseteq recent' \cup tell[p] \cup has_piece[p]
    PROVE  HaveCoverage'
<1>1. connected' = connected \ broken /\ connected \subseteq Peers
  BY Numbers DEF OnBrokenConnection, TypeOK, Peers
<1>2. ASSUME NEW p \in connected' PROVE p \in connected /\ told'[p] = tell[p]
  BY <1>1, <1>2 DEF OnBrokenConnection
<1> QED BY <1>1, <1>2, CoverageKept

LEMMA CoverageStep ==
    TypeOK /\ GoneClean /\ HaveCoverage /\ [Next]_vars => HaveCoverage'
<1> SUFFICES ASSUME TypeOK, GoneClean, HaveCoverage, [Next]_vars PROVE HaveCoverage'
  OBVIOUS
<1> USE DEF peerVars, blockVars, netVars
<1>0. connected \subseteq Peers /\ told \in [Peers -> SUBSET Pieces]
      /\ has_piece \in [Peers -> SUBSET Pieces]
  BY Numbers DEF TypeOK, Peers
<1>1. ASSUME UNCHANGED << connected, told, has_piece, recent, piece_downloaded >>
      PROVE  HaveCoverage'
  BY <1>1 DEF HaveCoverage
<1>2. CASE Start
  <2>1. connected' = {}
    BY <1>2 DEF Start, GoneClean
  <2> QED BY <2>1 DEF HaveCoverage
<1>3. CASE Dies
  <2>1. connected' = {}
    BY <1>3 DEF Dies, Kill, RecvPieceCannotWrite, RecvPieceCannotMove, KillAfterWrite, ProcessGone
  <2> QED BY <2>1 DEF HaveCoverage
<1>4. ASSUME NEW q \in Peers, NEW broken \in SUBSET Flaky, ConnectOutgoing(q, broken)
      PROVE  HaveCoverage'
  <2>1. \A p \in connected' \ Flaky :
           IF p = q THEN told'[p] = piece_downloaded
                    ELSE p \in connected /\ told'[p] = told[p]
    BY <1>0, <1>4 DEF ConnectOutgoing
  <2> QED BY <1>4, <2>1, CoverageKept DEF ConnectOutgoing
<1>5. CASE ConnectDone \/ RegisterOutgoing \/ AnnounceDone \/ AcceptNone \/ UNCHANGED vars
  BY <1>1, <1>5 DEF ConnectDone, RegisterOutgoing, AnnounceDone, AcceptNone, vars
<1>6. ASSUME NEW broken \in SUBSET Flaky, AcceptIncoming(broken)
      PROVE  HaveCoverage'
  <2>1. registered + 1 \in Peers
    BY <1>6, Numbers DEF AcceptIncoming, TypeOK, Peers
  <2>2. \A p \in connected' \ Flaky :
           IF p = registered + 1 THEN told'[p] = piece_downloaded
                                 ELSE p \in connected /\ told'[p] = told[p]
    BY <1>0, <1>6, <2>1 DEF AcceptIncoming
  <2> QED BY <1>6, <2>2, CoverageKept DEF AcceptIncoming
<1>7. CASE PeerSends
  <2>1. PICK q \in Peers :
          \/ \E drop \in BOOLEAN : RecvChoke(q, drop)
          \/ RecvUnchoke(q)
          \/ \E pieces \in SUBSET Pieces : RecvBitfield(q, pieces)
          \/ \E i \in Pieces : RecvHave(q, i)
          \/ \E i \in Pieces : RecvRequest(q, i)
          \/ \E b \in Blocks, ok \in BOOLEAN : RecvPiece(q, b, ok)
    BY <1>7 DEF PeerSends
  <2>2. CASE \/ \E drop \in BOOLEAN : RecvChoke(q, drop)
             \/ RecvUnchoke(q)
             \/ \E i \in Pieces : RecvRequest(q, i)
    BY <1>1, <2>2 DEF RecvChoke, RecvUnchoke, RecvRequest
  <2>3. ASSUME NEW pieces \in SUBSET Pieces, RecvBitfield(q, pieces) PROVE HaveCoverage'
    <3>1. \A p \in connected \ Flaky : has_piece[p] \subseteq has_piece'[p]
      BY <1>0, <2>3 DEF RecvBitfield
    <3> QED BY <2>3, <3>1, CoverageKept DEF RecvBitfield
  <2>4. ASSUME NEW i \in Pieces, RecvHave(q, i) PROVE HaveCoverage'
    <3>1. \A p \in connected \ Flaky : has_piece[p] \subseteq has_piece'[p]
      BY <1>0, <2>4 DEF RecvHave
    <3> QED BY <2>4, <3>1, CoverageKept DEF RecvHave
  <2>5. ASSUME NEW b \in Blocks, NEW ok \in BOOLEAN, RecvPiece(q, b, ok) PROVE HaveCoverage'
    <3>1. recent \subseteq recent' /\ piece_downloaded' \subseteq piece_downloaded \cup recent'
      BY <2>5 DEF RecvPiece, PiecesAfter
    <3> QED BY <2>5, <3>1, CoverageKept DEF RecvPiece
  <2> QED BY <2>1, <2>2, <2>3, <2>4, <2>5
<1>8. CASE \/ \E broken \in SUBSET Flaky : ReceiveDone(broken)
           \/ \E broken \in SUBSET Flaky : ServeRequests(broken)
           \/ \E silent \in SUBSET Flaky, passed \in BOOLEAN : EndTick(silent, passed)
           \/ ExecuteOutgoingBlockRequests
  <2>1. UNCHANGED << has_piece, piece_downloaded, recent >>
    BY <1>8 DEF ReceiveDone, ServeRequests, EndTick, ExecuteOutgoingBlockRequests, RequestBlocks
  <2>2. \E broken, interested, out, sent : OnBrokenConnection(broken, interested, out, sent, told)
    BY <1>8, Zenon DEF ReceiveDone, ServeRequests, EndTick, ExecuteOutgoingBlockRequests,
                       RequestBlocks
  <2> QED BY <1>0, <2>1, <2>2, BreakCoverage
<1>9. CASE ExpireRequests
  BY <1>1, <1>9 DEF ExpireRequests
<1>10. ASSUME NEW lost \in SUBSET Flaky, NEW broken \in SUBSET Flaky, BroadcastHave(lost, broken)
       PROVE  HaveCoverage'
  <2> DEFINE tell == [p \in Peers |-> IF p \in lost THEN told[p]
                                      ELSE told[p] \cup decide_have_broadcasts(p)]
  <2>1. OnBrokenConnection(broken, we_interested, outstanding, wire, tell)
    BY <1>10, Zenon DEF BroadcastHave
  <2>2. tell \in [Peers -> SUBSET Pieces]
    BY <1>0 DEF decide_have_broadcasts, TypeOK
  <2>3. \A p \in connected \ Flaky :
           told[p] \subseteq tell[p] /\ recent \subseteq tell[p] \cup has_piece[p]
    BY <1>0 DEF decide_have_broadcasts
  <2>4. UNCHANGED << has_piece, piece_downloaded >>
    BY <1>10 DEF BroadcastHave
  <2> HIDE DEF tell
  <2> QED BY <2>1, <2>2, <2>3, <2>4, BreakCoverage
<1> QED BY <1>2, <1>3, <1>4, <1>5, <1>6, <1>7, <1>8, <1>9, <1>10 DEF Next

\* In every reachable state a stable peer we are connected to has been told of every
\* piece we have, or has it, or will be told in this tick: no piece falls between the
\* bitfield of a connection and the HAVEs that follow.
THEOREM StablePeersToldOfAll == Spec => []HaveCoverage
<1> QED BY InitCovered, CoverageStep, GoneStep, TypeCorrect, PTL DEF Spec

-----------------------------------------------------------------------------
(***************************************************************************)
(* Honest peers.  What is right on disk stays right; whatever was announced  *)
(* to a peer or is waiting to be announced or served was verified before.    *)
(***************************************************************************)
Right(i) == BlocksOf(i) \subseteq intact

HonestInv ==
    Faulty = {} =>
        /\ \A p \in Peers : \A i \in told[p] : Right(i)
        /\ \A i \in recent : Right(i)
        /\ \A r \in pending : Right(r[2])
        /\ TempSuffix /\ at_final => intact = Blocks

LEMMA InitHonest == Init => HonestInv
BY DEF Init, HonestInv

\* With honest peers nothing on disk goes wrong again.
LEMMA DiskGrows ==
    ASSUME TypeOK, Faulty = {}, [Next]_vars
    PROVE  intact \subseteq intact'
<1> USE DEF diskVars
<1>1. CASE Start
  BY <1>1 DEF Start
<1>2. CASE Dies
  BY <1>2 DEF Dies, Kill, RecvPieceCannotWrite, RecvPieceCannotMove, KillAfterWrite, Answer,
              AfterWrite, ProcessGone
<1>3. CASE PeerSends
  BY <1>3 DEF PeerSends, RecvChoke, RecvUnchoke, RecvBitfield, RecvHave, RecvRequest, RecvPiece,
              Answer, AfterWrite
<1>4. CASE \/ \E p \in Peers, broken \in SUBSET Flaky : ConnectOutgoing(p, broken)
           \/ ConnectDone \/ RegisterOutgoing \/ AnnounceDone
           \/ \E broken \in SUBSET Flaky : AcceptIncoming(broken)
           \/ AcceptNone
           \/ \E broken \in SUBSET Flaky : ReceiveDone(broken)
           \/ ExpireRequests
           \/ \E lost \in SUBSET Flaky : \E broken \in SUBSET Flaky : BroadcastHave(lost, broken)
           \/ ExecuteOutgoingBlockRequests
           \/ \E broken \in SUBSET Flaky : ServeRequests(broken)
           \/ \E silent \in SUBSET Flaky, passed \in BOOLEAN : EndTick(silent, passed)
           \/ UNCHANGED vars
  BY <1>4 DEF ConnectOutgoing, ConnectDone, RegisterOutgoing, AnnounceDone, AcceptIncoming,
              AcceptNone, ReceiveDone, ExpireRequests, BroadcastHave, ExecuteOutgoingBlockRequests,
              RequestBlocks, ServeRequests, EndTick, vars
<1> QED BY <1>1, <1>2, <1>3, <1>4 DEF Next

\* What a step has to do for HonestInv to go on.
LEMMA HonestKept ==
    ASSUME Faulty = {}, TypeOK', PiecesVerified, PiecesVerified', HonestInv,
           intact \subseteq intact',
           \A p \in Peers : told'[p] \subseteq told[p] \cup piece_downloaded \cup recent,
           recent' \subseteq recent \cup piece_downloaded', recent \subseteq Pieces,
           \A p \in Peers : told[p] \subseteq Pieces,
           \A r \in pending' : r \in pending \/ \E p \in Peers : r[2] \in told[p],
           TempSuffix /\ at_final' => at_final \/ intact' = Blocks
    PROVE  HonestInv'
<1>1. \A i \in Pieces : Right(i) => Right(i)'
  BY DEF Right, BlocksOf
<1>2. \A i \in piece_downloaded' : Right(i)'
  BY DEF PiecesVerified, Right, BlocksOf, TypeOK
<1>3. \A i \in piece_downloaded \cap Pieces : Right(i)'
  BY <1>1 DEF PiecesVerified, Right
<1>4. ASSUME NEW p \in Peers, NEW i \in told'[p] PROVE Right(i)'
  <2>1. i \in Pieces
    BY <1>4 DEF TypeOK
  <2>2. i \in told[p] \cup piece_downloaded \cup recent
    BY <1>4
  <2>3. i \in piece_downloaded \/ Right(i)
    BY <2>2 DEF HonestInv
  <2> QED BY <1>1, <1>3, <2>1, <2>3
<1>5. ASSUME NEW i \in recent' PROVE Right(i)'
  BY <1>1, <1>2, <1>5 DEF HonestInv
<1>6. ASSUME NEW r \in pending' PROVE Right(r[2])'
  <2>1. Right(r[2])
    BY <1>6 DEF HonestInv
  <2>2. r[2] \in Pieces
    BY <1>6 DEF TypeOK
  <2> QED BY <1>1, <2>1, <2>2
<1>7. TempSuffix /\ at_final' => intact' = Blocks
  BY DEF HonestInv, TypeOK
<1> QED BY <1>4, <1>5, <1>6, <1>7 DEF HonestInv

\* get_is_downloaded and the marks of the pieces agree after an answer: a piece all of
\* whose blocks are downloaded is itself marked.
LEMMA AllDownloadedMarked ==
    ASSUME TypeOK', PiecesVerified', NEW p \in Peers, NEW b \in Blocks, NEW ok \in BOOLEAN,
           RecvPiece(p, b, ok)
    PROVE  AllDownloaded(b, ok) <=> piece_downloaded' = Pieces
<1>1. AllDownloaded(b, ok) <=>
        \A c \in Blocks : PieceOf[c] \in piece_downloaded' \/ c \in block_downloaded'
  BY DEF RecvPiece, AllDownloaded
<1>2. CASE piece_downloaded' = Pieces
  BY <1>1, <1>2 DEF Pieces
<1>3. ASSUME AllDownloaded(b, ok), NEW i \in Pieces PROVE i \in piece_downloaded'
  <2> SUFFICES ASSUME i \notin piece_downloaded' PROVE FALSE
    OBVIOUS
  <2>1. BlocksOf(i) \subseteq block_downloaded'
    BY <1>1, <1>3 DEF BlocksOf
  <2> QED BY <2>1 DEF PiecesVerified, BlocksOf
<1> QED BY <1>2, <1>3 DEF TypeOK

\* If the answer completes the download, everything is right on disk.
LEMMA AllDownloadedIntact ==
    ASSUME TypeOK', PiecesVerified', NEW p \in Peers, NEW b \in Blocks, NEW ok \in BOOLEAN,
           RecvPiece(p, b, ok), AllDownloaded(b, ok)
    PROVE  intact' = Blocks
<1>1. ASSUME NEW c \in Blocks PROVE c \in intact'
  <2>1. PieceOf[c] \in piece_downloaded' /\ PieceOf[c] \in Pieces /\ c \in BlocksOf(PieceOf[c])
    BY AllDownloadedMarked DEF Pieces, BlocksOf
  <2> QED BY <2>1 DEF PiecesVerified, BlocksOf
<1> QED BY <1>1 DEF TypeOK

LEMMA HonestStep ==
    /\ TypeOK /\ TypeOK' /\ PiecesVerified /\ PiecesVerified' /\ HonestInv /\ [Next]_vars
    => HonestInv'
<1> SUFFICES ASSUME TypeOK, TypeOK', PiecesVerified, PiecesVerified', HonestInv, [Next]_vars,
                    Faulty = {}
             PROVE  HonestInv'
  BY DEF HonestInv
<1> USE DEF peerVars, blockVars, diskVars, netVars
<1>1. intact \subseteq intact'
  BY DiskGrows
<1>2. recent \subseteq Pieces /\ told \in [Peers -> SUBSET Pieces]
  BY DEF TypeOK
<1>3. ASSUME \A p \in Peers : told'[p] \subseteq told[p] \cup piece_downloaded \cup recent,
             recent' \subseteq recent, pending' \subseteq pending,
             TempSuffix /\ at_final' => at_final
      PROVE  HonestInv'
  BY <1>1, <1>2, <1>3, HonestKept
<1>4. CASE Start \/ ConnectDone \/ RegisterOutgoing \/ AnnounceDone \/ AcceptNone
           \/ ExpireRequests \/ UNCHANGED vars
  <2>1. told' = told /\ recent' = recent /\ pending' = pending
    BY <1>4 DEF Start, ConnectDone, RegisterOutgoing, AnnounceDone, AcceptNone, ExpireRequests,
                vars
  <2>2. TempSuffix /\ at_final' => at_final
    BY <1>4 DEF Start, ConnectDone, RegisterOutgoing, AnnounceDone, AcceptNone, ExpireRequests,
                vars
  <2> QED BY <1>3, <2>1, <2>2
<1>5. CASE Dies
  <2>1. recent' = {} /\ pending' = {} /\ at_final' = at_final /\ told' = [p \in Peers |-> {}]
    BY <1>5 DEF Dies, Kill, RecvPieceCannotWrite, RecvPieceCannotMove, KillAfterWrite, ProcessGone
  <2> QED BY <1>3, <2>1
<1>6. ASSUME NEW q \in Peers, NEW broken \in SUBSET Flaky, ConnectOutgoing(q, broken)
      PROVE  HonestInv'
  <2>1. \A p \in Peers : told'[p] \subseteq told[p] \cup piece_downloaded
    BY <1>2, <1>6 DEF ConnectOutgoing
  <2> QED BY <1>3, <1>6, <2>1 DEF ConnectOutgoing
<1>7. ASSUME NEW broken \in SUBSET Flaky, AcceptIncoming(broken)
      PROVE  HonestInv'
  <2>1. \A p \in Peers : told'[p] \subseteq told[p] \cup piece_downloaded
    BY <1>2, <1>7 DEF AcceptIncoming
  <2> QED BY <1>3, <1>7, <2>1 DEF AcceptIncoming
<1>8. CASE PeerSends
  <2>1. PICK q \in Peers :
          \/ \E drop \in BOOLEAN : RecvChoke(q, drop)
          \/ RecvUnchoke(q)
          \/ \E pieces \in SUBSET Pieces : RecvBitfield(q, pieces)
          \/ \E i \in Pieces : RecvHave(q, i)
          \/ \E i \in Pieces : RecvRequest(q, i)
          \/ \E b \in Blocks, ok \in BOOLEAN : RecvPiece(q, b, ok)
    BY <1>8 DEF PeerSends
  <2>2. CASE \/ \E drop \in BOOLEAN : RecvChoke(q, drop)
             \/ RecvUnchoke(q)
             \/ \E pieces \in SUBSET Pieces : RecvBitfield(q, pieces)
             \/ \E i \in Pieces : RecvHave(q, i)
    BY <1>3, <2>2 DEF RecvChoke, RecvUnchoke, RecvBitfield, RecvHave
  <2>3. ASSUME NEW i \in Pieces, RecvRequest(q, i) PROVE HonestInv'
    <3>1. \A r \in pending' : r \in pending \/ \E p \in Peers : r[2] \in told[p]
      BY <2>3 DEF RecvRequest
    <3>2. UNCHANGED << told, recent, at_final >>
      BY <2>3 DEF RecvRequest
    <3> QED BY <1>1, <1>2, <3>1, <3>2, HonestKept
  <2>4. ASSUME NEW b \in Blocks, NEW ok \in BOOLEAN, RecvPiece(q, b, ok) PROVE HonestInv'
    <3>1. recent' \subseteq recent \cup piece_downloaded'
      BY <2>4 DEF RecvPiece, PiecesAfter
    <3>2. at_final' => at_final \/ intact' = Blocks
      BY <2>4, AllDownloadedIntact DEF RecvPiece, Moved
    <3>3. UNCHANGED << told, pending >>
      BY <2>4 DEF RecvPiece
    <3> QED BY <1>1, <1>2, <3>1, <3>2, <3>3, HonestKept
  <2> QED BY <2>1, <2>2, <2>3, <2>4
<1>9. CASE \/ \E broken \in SUBSET Flaky : ReceiveDone(broken)
           \/ \E broken \in SUBSET Flaky : ServeRequests(broken)
           \/ \E silent \in SUBSET Flaky, passed \in BOOLEAN : EndTick(silent, passed)
           \/ ExecuteOutgoingBlockRequests
  <2>1. recent' = recent /\ pending' \subseteq pending /\ at_final' = at_final
    BY <1>9 DEF ReceiveDone, ServeRequests, EndTick, ExecuteOutgoingBlockRequests, RequestBlocks
  <2>2. \E broken, interested, out, sent : OnBrokenConnection(broken, interested, out, sent, told)
    BY <1>9, Zenon DEF ReceiveDone, ServeRequests, EndTick, ExecuteOutgoingBlockRequests,
                       RequestBlocks
  <2>3. \A p \in Peers : told'[p] \subseteq told[p]
    BY <2>2 DEF OnBrokenConnection
  <2> QED BY <1>3, <2>1, <2>3
<1>10. ASSUME NEW lost \in SUBSET Flaky, NEW broken \in SUBSET Flaky, BroadcastHave(lost, broken)
       PROVE  HonestInv'
  <2>1. \A p \in Peers : told'[p] \subseteq told[p] \cup recent
    BY <1>10 DEF BroadcastHave, OnBrokenConnection, decide_have_broadcasts
  <2>2. recent' = {} /\ UNCHANGED << pending, at_final >>
    BY <1>10 DEF BroadcastHave
  <2> QED BY <1>3, <2>1, <2>2
<1> QED BY <1>4, <1>5, <1>6, <1>7, <1>8, <1>9, <1>10 DEF Next

LEMMA AlwaysHonest == Spec => []HonestInv
<1> QED BY InitHonest, HonestStep, TypeCorrect, DownloadedMeansVerified, PTL DEF Spec

\* With honest peers every request that waits to be answered is for a piece that is
\* right on disk, although nobody looks when it is answered: it was asked for
\* because it had been announced, and a piece is announced only when verified.
THEOREM RequestsServable == Spec => []PendingServable
<1> HonestInv => PendingServable
  BY DEF HonestInv, PendingServable, Right
<1> QED BY AlwaysHonest, PTL

\* With honest peers what has been moved to the final name is complete, in every state
\* after it, restarts included.
THEOREM MovedIsComplete == Spec => []FinalIsComplete
<1> HonestInv => FinalIsComplete
  BY DEF HonestInv, FinalIsComplete
<1> QED BY AlwaysHonest, PTL

-----------------------------------------------------------------------------
(***************************************************************************)
(* The refinement.  With honest peers the download implements Acquisition.  *)
(* Beyond the invariants above it needs that what is downloaded is on disk  *)
(* (so that a full piece always matches its hash), that what waits to be    *)
(* announced is still marked, and that `downloaded' follows the marks.      *)
(***************************************************************************)
KnownInv ==
    /\ GoneClean
    /\ block_downloaded \subseteq intact
    /\ recent \subseteq piece_downloaded
    /\ downloaded <=> piece_downloaded = Pieces

Offered == { r \in Peers \X Pieces : r[2] \in told[r[1]] }
PromiseVars == << VerifiedOnDisk(intact), piece_downloaded, Offered, downloaded, Running >>

LEMMA SomePiece == Pieces # {}
<1> 1 \in Blocks
  BY SizeAssumption DEF SizeAssumption, Blocks
<1> QED BY DEF Pieces

LEMMA InitKnown == Init => KnownInv
BY SomePiece DEF Init, KnownInv, GoneClean

\* An honest answer adds its block to the disk, and marks its piece if that was the
\* last block.
LEMMA HonestAnswer ==
    ASSUME TypeOK, TypeOK', PiecesVerified', KnownInv, Faulty = {},
           NEW p \in Peers, NEW b \in Blocks, NEW ok \in BOOLEAN, RecvPiece(p, b, ok)
    PROVE  /\ intact' = intact \cup {b} /\ block_downloaded' = block_downloaded \cup {b}
           /\ piece_downloaded' = IF PieceFull(b) THEN piece_downloaded \cup {PieceOf[b]}
                                                 ELSE piece_downloaded
           /\ PieceFull(b) => BlocksOf(PieceOf[b]) \subseteq intact'
           /\ recent' \subseteq recent \cup piece_downloaded'
           /\ downloaded' <=> piece_downloaded' = Pieces
<1>1. ok
  BY DEF RecvPiece, Answer
<1>2. intact' = intact \cup {b}
  BY <1>1 DEF RecvPiece, AfterWrite
<1>3. PieceFull(b) => HashMatches(b, ok) /\ BlocksOf(PieceOf[b]) \subseteq intact'
  BY <1>1, <1>2 DEF PieceFull, HashMatches, AfterWrite, KnownInv
<1>4. /\ block_downloaded' = block_downloaded \cup {b}
      /\ piece_downloaded' = IF PieceFull(b) THEN piece_downloaded \cup {PieceOf[b]}
                                            ELSE piece_downloaded
      /\ recent' \subseteq recent \cup piece_downloaded'
  BY <1>3 DEF RecvPiece, BlocksAfter, PiecesAfter
<1>5. downloaded' <=> piece_downloaded' = Pieces
  <2>1. downloaded' <=> downloaded \/ piece_downloaded' = Pieces
    BY AllDownloadedMarked DEF RecvPiece
  <2>2. piece_downloaded \subseteq piece_downloaded' /\ piece_downloaded' \subseteq Pieces
    BY <1>4 DEF TypeOK
  <2> QED BY <2>1, <2>2 DEF KnownInv
<1> QED BY <1>2, <1>3, <1>4, <1>5

LEMMA KnownStep ==
    ASSUME TypeOK, TypeOK', PiecesVerified', KnownInv, [Next]_vars, Faulty = {}
    PROVE  KnownInv'
<1> USE DEF blockVars, diskVars
<1>0. GoneClean'
  BY GoneStep DEF KnownInv
<1>1. ASSUME UNCHANGED << block_downloaded, intact, piece_downloaded, downloaded >>,
             recent' \subseteq recent
      PROVE  KnownInv'
  BY <1>0, <1>1 DEF KnownInv
<1>2. CASE Start
  <2>1. recent' = {}
    BY <1>2 DEF Start, KnownInv, GoneClean
  <2>2. block_downloaded' \subseteq intact'
    BY <1>2 DEF Start, VerifiedOnDisk, BlocksOf
  <2>3. downloaded' <=> piece_downloaded' = Pieces
    BY <1>2 DEF Start
  <2> QED BY <1>0, <2>1, <2>2, <2>3 DEF KnownInv
<1>3. CASE Dies
  <2>1. block_downloaded' = {} /\ piece_downloaded' = {} /\ recent' = {} /\ ~downloaded'
    BY <1>3 DEF Dies, Kill, RecvPieceCannotWrite, RecvPieceCannotMove, KillAfterWrite, ProcessGone
  <2> QED BY <1>0, <2>1, SomePiece DEF KnownInv
<1>4. CASE PeerSends
  <2>1. PICK q \in Peers :
          \/ \E drop \in BOOLEAN : RecvChoke(q, drop)
          \/ RecvUnchoke(q)
          \/ \E pieces \in SUBSET Pieces : RecvBitfield(q, pieces)
          \/ \E i \in Pieces : RecvHave(q, i)
          \/ \E i \in Pieces : RecvRequest(q, i)
          \/ \E b \in Blocks, ok \in BOOLEAN : RecvPiece(q, b, ok)
    BY <1>4 DEF PeerSends
  <2>2. ASSUME NEW b \in Blocks, NEW ok \in BOOLEAN, RecvPiece(q, b, ok) PROVE KnownInv'
    <3>1. block_downloaded' \subseteq intact' /\ recent' \subseteq piece_downloaded'
      BY <2>2, HonestAnswer DEF KnownInv
    <3> QED BY <1>0, <2>2, <3>1, HonestAnswer DEF KnownInv
  <2>3. CASE ~ \E b \in Blocks, ok \in BOOLEAN : RecvPiece(q, b, ok)
    BY <1>1, <2>1, <2>3 DEF RecvChoke, RecvUnchoke, RecvBitfield, RecvHave, RecvRequest
  <2> QED BY <2>2, <2>3
<1>5. CASE \/ \E p \in Peers, broken \in SUBSET Flaky : ConnectOutgoing(p, broken)
           \/ ConnectDone \/ RegisterOutgoing \/ AnnounceDone
           \/ \E broken \in SUBSET Flaky : AcceptIncoming(broken)
           \/ AcceptNone
           \/ \E broken \in SUBSET Flaky : ReceiveDone(broken)
           \/ ExpireRequests
  BY <1>1, <1>5 DEF ConnectOutgoing, ConnectDone, RegisterOutgoing, AnnounceDone, AcceptIncoming,
                    AcceptNone, ReceiveDone, ExpireRequests
<1>6. CASE \/ \E lost \in SUBSET Flaky : \E broken \in SUBSET Flaky : BroadcastHave(lost, broken)
           \/ ExecuteOutgoingBlockRequests
           \/ \E broken \in SUBSET Flaky : ServeRequests(broken)
           \/ \E silent \in SUBSET Flaky, passed \in BOOLEAN : EndTick(silent, passed)
           \/ UNCHANGED vars
  BY <1>1, <1>6 DEF BroadcastHave, ExecuteOutgoingBlockRequests, RequestBlocks, ServeRequests,
                    EndTick, vars
<1> QED BY <1>2, <1>3, <1>4, <1>5, <1>6 DEF Next

\* One more right block on disk completes at most its own piece.
LEMMA OneMorePiece ==
    ASSUME NEW b \in Blocks
    PROVE  \/ VerifiedOnDisk(intact \cup {b}) = VerifiedOnDisk(intact)
           \/ /\ PieceOf[b] \in Pieces \ VerifiedOnDisk(intact)
              /\ VerifiedOnDisk(intact \cup {b}) = VerifiedOnDisk(intact) \cup {PieceOf[b]}
<1>1. PieceOf[b] \in Pieces
  BY DEF Pieces
<1>2. \A i \in Pieces \ {PieceOf[b]} :
        BlocksOf(i) \subseteq intact \cup {b} <=> BlocksOf(i) \subseteq intact
  BY DEF BlocksOf
<1>3. \A i \in Pieces : BlocksOf(i) \subseteq intact => BlocksOf(i) \subseteq intact \cup {b}
  OBVIOUS
<1> QED BY <1>1, <1>2, <1>3 DEF VerifiedOnDisk

\* A step between connections and peers is an Exchange if nothing is told but what is
\* marked.
LEMMA ExchangeStep ==
    ASSUME TypeOK', Running, Running',
           UNCHANGED << intact, piece_downloaded, downloaded >>,
           \A p \in Peers : told'[p] \subseteq told[p] \cup piece_downloaded
    PROVE  Promise!Exchange
<1>1. Offered' \subseteq Offered \cup (Peers \X piece_downloaded)
  <2> SUFFICES ASSUME NEW p \in Peers, NEW i \in Pieces, i \in told'[p]
               PROVE  i \in told[p] \/ i \in piece_downloaded
    BY DEF Offered
  <2> QED OBVIOUS
<1> QED BY <1>1 DEF Promise!Exchange, Offered, VerifiedOnDisk

LEMMA AnswerPromised ==
    ASSUME TypeOK, TypeOK', PiecesVerified, PiecesVerified', KnownInv, Faulty = {},
           NEW p \in Peers, NEW b \in Blocks, NEW ok \in BOOLEAN, RecvPiece(p, b, ok)
    PROVE  Promise!Next
<1>1. Running /\ Running' /\ told' = told
  BY DEF RecvPiece, Answer, Running
<1>2. Offered' = Offered
  BY <1>1 DEF Offered
<1>3. VerifiedOnDisk(intact)' = VerifiedOnDisk(intact \cup {b})
  BY HonestAnswer DEF VerifiedOnDisk
<1>4. PieceOf[b] \in Pieces
  BY DEF Pieces
<1>5. downloaded <=> piece_downloaded = Pieces
  BY DEF KnownInv
<1>6. CASE PieceFull(b) /\ PieceOf[b] \notin piece_downloaded
  <2>1. PieceOf[b] \in VerifiedOnDisk(intact)'
    BY <1>4, <1>6, HonestAnswer DEF VerifiedOnDisk
  <2>2. VerifiedOnDisk(intact)' = VerifiedOnDisk(intact) \cup {PieceOf[b]}
    BY <1>3, <2>1, OneMorePiece
  <2>3. piece_downloaded' = piece_downloaded \cup {PieceOf[b]}
    BY <1>6, HonestAnswer
  <2>4. downloaded' = (piece_downloaded' = Pieces)
    BY HonestAnswer DEF TypeOK
  <2>5. Promise!Verify(PieceOf[b])
    BY <1>1, <1>2, <1>4, <1>6, <2>2, <2>3, <2>4 DEF Promise!Verify, Offered
  <2> QED BY <1>4, <2>5 DEF Promise!Next
<1>7. CASE ~(PieceFull(b) /\ PieceOf[b] \notin piece_downloaded)
  <2>1. piece_downloaded' = piece_downloaded
    BY <1>7, HonestAnswer
  <2>2. downloaded' = downloaded
    BY <1>5, <2>1, HonestAnswer DEF TypeOK
  <2>3. CASE VerifiedOnDisk(intact)' = VerifiedOnDisk(intact)
    <3>1. Promise!Exchange
      BY <1>1, <1>2, <2>1, <2>2, <2>3 DEF Promise!Exchange, Offered
    <3> QED BY <3>1 DEF Promise!Next
  <2>4. CASE VerifiedOnDisk(intact)' # VerifiedOnDisk(intact)
    <3>1. Promise!Store(PieceOf[b])
      BY <1>1, <1>2, <1>3, <2>1, <2>2, <2>4, OneMorePiece DEF Promise!Store, Offered
    <3> QED BY <1>4, <3>1 DEF Promise!Next
  <2> QED BY <2>3, <2>4
<1> QED BY <1>6, <1>7

LEMMA DiesPromised ==
    ASSUME Faulty = {}, Dies
    PROVE  Promise!Stop
<1>1. /\ Running /\ ~Running'
      /\ piece_downloaded' = {} /\ ~downloaded' /\ told' = [p \in Peers |-> {}]
  BY DEF Dies, Kill, RecvPieceCannotWrite, RecvPieceCannotMove, KillAfterWrite, Answer,
         ProcessGone, Running
<1>2. Offered' = {}
  BY <1>1 DEF Offered
<1>3. intact' = intact \/ \E b \in Blocks : intact' = intact \cup {b}
  BY DEF Dies, Kill, RecvPieceCannotWrite, RecvPieceCannotMove, KillAfterWrite, Answer,
         AfterWrite, ProcessGone
<1>4. \/ VerifiedOnDisk(intact)' = VerifiedOnDisk(intact)
      \/ \E i \in Pieces \ VerifiedOnDisk(intact) :
            VerifiedOnDisk(intact)' = VerifiedOnDisk(intact) \cup {i}
  <2>1. CASE intact' = intact
    BY <2>1 DEF VerifiedOnDisk
  <2>2. CASE \E b \in Blocks : intact' = intact \cup {b}
    <3>1. PICK b \in Blocks : intact' = intact \cup {b}
      BY <2>2
    <3>2. VerifiedOnDisk(intact)' = VerifiedOnDisk(intact \cup {b})
      BY <3>1 DEF VerifiedOnDisk
    <3> QED BY <3>2, OneMorePiece
  <2> QED BY <1>3, <2>1, <2>2
<1> QED BY <1>1, <1>2, <1>4 DEF Promise!Stop, Offered

LEMMA PromiseStep ==
    ASSUME TypeOK, TypeOK', PiecesVerified, PiecesVerified', KnownInv, [Next]_vars, Faulty = {}
    PROVE  [Promise!Next]_PromiseVars
<1> USE DEF peerVars, blockVars, diskVars, netVars
<1>1. ASSUME Promise!Exchange PROVE [Promise!Next]_PromiseVars
  BY <1>1 DEF Promise!Next
<1>2. CASE Start
  <2>1. ~Running /\ Running' /\ UNCHANGED << intact, told >>
    BY <1>2 DEF Start, Running
  <2>2. Offered' = Offered /\ VerifiedOnDisk(intact)' = VerifiedOnDisk(intact)
    BY <2>1 DEF Offered, VerifiedOnDisk
  <2>3. Promise!Start
    BY <1>2, <2>1, <2>2 DEF Start, Promise!Start, Offered
  <2> QED BY <2>3 DEF Promise!Next
<1>3. CASE Dies
  BY <1>3, DiesPromised DEF Promise!Next
<1>4. ASSUME NEW q \in Peers, NEW broken \in SUBSET Flaky, ConnectOutgoing(q, broken)
      PROVE  Promise!Exchange
  <2>1. \A p \in Peers : told'[p] \subseteq told[p] \cup piece_downloaded
    BY <1>4 DEF ConnectOutgoing, TypeOK
  <2>2. Running /\ Running' /\ UNCHANGED << intact, piece_downloaded, downloaded >>
    BY <1>4 DEF ConnectOutgoing, Running
  <2> QED BY <2>1, <2>2, ExchangeStep
<1>5. ASSUME NEW broken \in SUBSET Flaky, AcceptIncoming(broken)
      PROVE  Promise!Exchange
  <2>1. \A p \in Peers : told'[p] \subseteq told[p] \cup piece_downloaded
    BY <1>5 DEF AcceptIncoming, TypeOK
  <2>2. Running /\ Running' /\ UNCHANGED << intact, piece_downloaded, downloaded >>
    BY <1>5 DEF AcceptIncoming, Running
  <2> QED BY <2>1, <2>2, ExchangeStep
<1>6. CASE ConnectDone \/ RegisterOutgoing \/ AnnounceDone \/ AcceptNone \/ ExpireRequests
  <2>1. /\ Running /\ Running'
        /\ UNCHANGED << intact, piece_downloaded, downloaded, told >>
    BY <1>6 DEF ConnectDone, RegisterOutgoing, AnnounceDone, AcceptNone, ExpireRequests, Running
  <2> QED BY <1>1, <2>1, ExchangeStep
<1>7. CASE PeerSends
  <2>1. PICK q \in Peers :
          \/ \E drop \in BOOLEAN : RecvChoke(q, drop)
          \/ RecvUnchoke(q)
          \/ \E pieces \in SUBSET Pieces : RecvBitfield(q, pieces)
          \/ \E i \in Pieces : RecvHave(q, i)
          \/ \E i \in Pieces : RecvRequest(q, i)
          \/ \E b \in Blocks, ok \in BOOLEAN : RecvPiece(q, b, ok)
    BY <1>7 DEF PeerSends
  <2>2. CASE \E b \in Blocks, ok \in BOOLEAN : RecvPiece(q, b, ok)
    BY <2>2, AnswerPromised
  <2>3. CASE ~ \E b \in Blocks, ok \in BOOLEAN : RecvPiece(q, b, ok)
    <3>1. /\ Running /\ Running'
          /\ UNCHANGED << intact, piece_downloaded, downloaded, told >>
      BY <2>1, <2>3 DEF RecvChoke, RecvUnchoke, RecvBitfield, RecvHave, RecvRequest, Receive,
                        Running
    <3> QED BY <1>1, <3>1, ExchangeStep
  <2> QED BY <2>2, <2>3
<1>8. CASE \/ \E broken \in SUBSET Flaky : ReceiveDone(broken)
           \/ \E broken \in SUBSET Flaky : ServeRequests(broken)
           \/ \E silent \in SUBSET Flaky, passed \in BOOLEAN : EndTick(silent, passed)
           \/ ExecuteOutgoingBlockRequests
  <2>1. Running /\ Running' /\ UNCHANGED << intact, piece_downloaded, downloaded >>
    BY <1>8 DEF ReceiveDone, ServeRequests, EndTick, ExecuteOutgoingBlockRequests, RequestBlocks,
                Running
  <2>2. \E broken, interested, out, sent : OnBrokenConnection(broken, interested, out, sent, told)
    BY <1>8, Zenon DEF ReceiveDone, ServeRequests, EndTick, ExecuteOutgoingBlockRequests,
                       RequestBlocks
  <2>3. \A p \in Peers : told'[p] \subseteq told[p]
    BY <2>2 DEF OnBrokenConnection
  <2> QED BY <1>1, <2>1, <2>3, ExchangeStep
<1>9. ASSUME NEW lost \in SUBSET Flaky, NEW broken \in SUBSET Flaky, BroadcastHave(lost, broken)
      PROVE  Promise!Exchange
  <2>1. \A p \in Peers : told'[p] \subseteq told[p] \cup recent
    BY <1>9 DEF BroadcastHave, OnBrokenConnection, decide_have_broadcasts
  <2>2. Running /\ Running' /\ UNCHANGED << intact, piece_downloaded, downloaded >>
    BY <1>9 DEF BroadcastHave, Running
  <2> QED BY <2>1, <2>2, ExchangeStep DEF KnownInv
<1>10. CASE UNCHANGED vars
  BY <1>10 DEF vars, PromiseVars, Offered, VerifiedOnDisk, Running
<1> QED BY <1>1, <1>2, <1>3, <1>4, <1>5, <1>6, <1>7, <1>8, <1>9, <1>10 DEF Next

\* With honest peers every behaviour of the download is one of Acquisition, for any
\* number of peers, blocks and pieces: nothing right on disk is lost, a process that
\* starts finds all of it, only marked pieces are offered, and `downloaded' is set
\* exactly when the last piece is marked.
THEOREM DownloadImplementsAcquisition ==
    ASSUME Faulty = {}
    PROVE  Spec => ImplementsAcquisition
<1>1. Init => Promise!Init
  <2> SUFFICES ASSUME Init PROVE Promise!Init
    OBVIOUS
  <2>1. VerifiedOnDisk(intact) = {}
    BY PieceHasBlocks DEF Init, VerifiedOnDisk
  <2> QED BY <2>1 DEF Init, Promise!Init, Running
<1>2. TypeOK /\ TypeOK' /\ PiecesVerified' /\ KnownInv /\ [Next]_vars => KnownInv'
  BY KnownStep
<1>3. TypeOK /\ TypeOK' /\ PiecesVerified /\ PiecesVerified' /\ KnownInv /\ [Next]_vars
        => [Promise!Next]_<< VerifiedOnDisk(intact), piece_downloaded,
                             { r \in Peers \X Pieces : r[2] \in told[r[1]] },
                             downloaded, Running >>
  BY PromiseStep DEF PromiseVars, Offered
<1> QED BY TypeCorrect, DownloadedMeansVerified, InitKnown, <1>1, <1>2, <1>3, PTL
        DEF Spec, ImplementsAcquisition, Promise!Spec, Promise!vars
=============================================================================
