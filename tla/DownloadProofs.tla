--------------------------- MODULE DownloadProofs ---------------------------
(***************************************************************************)
(* Types of Download, and the counters of its peers: the theorems hold for   *)
(* any number of peers and blocks, any limits and any behaviour of the peers.*)
(***************************************************************************)
EXTENDS Download, NatSets, FiniteSetTheorems

\* The constants are numbers of the kinds the code declares.
LEMMA Numbers ==
    /\ NumPeers \in Nat /\ NumBlocks \in Nat
    /\ Peers \subseteq Nat /\ NoPeer \notin Peers
    /\ 0 \in 0 .. NumPeers
    /\ 0 \in 0 .. RequestExpiration + 1
    /\ NoCopies \in [Blocks -> 0 .. MaxCopies]
<1>1. NumPeers \in Nat /\ NumBlocks \in Nat
  BY SizeAssumption DEF SizeAssumption
<1>2. Peers \subseteq Nat /\ NoPeer \notin Peers /\ 0 \in 0 .. NumPeers
  BY <1>1 DEF Peers, NoPeer
<1>3. RequestExpiration \in Nat /\ MaxCopies \in Nat
  BY LimitAssumption DEF LimitAssumption
<1>4. 0 \in 0 .. RequestExpiration + 1
  BY <1>3
<1>5. NoCopies \in [Blocks -> 0 .. MaxCopies]
  BY <1>3 DEF NoCopies
<1> QED BY <1>1, <1>2, <1>4, <1>5

LEMMA BlocksFinite == IsFiniteSet(Blocks) /\ Cardinality(Blocks) = NumBlocks
<1>1. NumBlocks \in Nat \ {0}
  BY SizeAssumption DEF SizeAssumption
<1> QED BY <1>1, FS_Interval DEF Blocks

\* find_peer returns a peer of the vector that is connected, has unchoked us, has the
\* piece and is below its limit, counting what the tick has already given it.
LEMMA FindPeer ==
    ASSUME connected \subseteq Peers, NEW assign \in Assignments, NEW b \in Blocks
    PROVE  \/ find_peer(assign, b) = NoPeer
           \/ find_peer(assign, b) \in Eligible(assign, b)
<1>1. CASE Eligible(assign, b) = {}
  BY <1>1 DEF find_peer
<1>2. CASE Eligible(assign, b) # {}
  <2>1. Eligible(assign, b) \subseteq connected
    BY Zenon DEF Eligible
  <2>2. Eligible(assign, b) \subseteq Nat
    BY <2>1, Numbers
  <2>3. PICK x \in Eligible(assign, b) : \A y \in Eligible(assign, b) : x <= y
    BY <1>2, <2>2, NatHasMin
  <2> HIDE DEF Eligible
  <2> QED BY <1>2, <2>3 DEF find_peer
<1> QED BY <1>1, <1>2

\* What a tick decides, block by block.
LEMMA Decided ==
    ASSUME connected \subseteq Peers, NEW assign \in Assignments,
           decide_block_requests(assign),
           NEW b \in Blocks, assign[b] # NoPeer
    PROVE  b \in Wanted /\ assign[b] \in Eligible(assign, b)
<1>1. assign[b] = IF b \in Wanted /\ Cardinality(DecidedBefore(assign, b)) < MaxPerTick
                    THEN find_peer(assign, b) ELSE NoPeer
  BY Zenon DEF decide_block_requests
<1>2. assign[b] = find_peer(assign, b) /\ b \in Wanted
  BY <1>1, Zenon
<1> QED BY <1>2, FindPeer, Zenon

-----------------------------------------------------------------------------
\* What a break leaves behind has the right types if what it was given has.
LEMMA BreakTypes ==
    ASSUME TypeOK, NEW broken, NEW interested, NEW out, NEW sent, NEW tell,
           interested \subseteq connected,
           out \in [Peers -> Int],
           sent \in [Peers -> [Blocks -> 0 .. MaxCopies]],
           tell \in [Peers -> SUBSET Pieces],
           broken \subseteq Peers,
           OnBrokenConnection(broken, interested, out, sent, tell)
    PROVE  /\ connected' \subseteq 1 .. registered
           /\ we_choked' \subseteq Peers /\ Peers \ connected' \subseteq we_choked'
           /\ we_interested' \subseteq connected'
           /\ outstanding' \in [Peers -> Int]
           /\ wire' \in [Peers -> [Blocks -> 0 .. MaxCopies]]
           /\ told' \in [Peers -> SUBSET Pieces]
<1>1. /\ connected' \subseteq 1 .. registered
      /\ we_choked' \subseteq Peers /\ Peers \ connected' \subseteq we_choked'
      /\ we_interested' \subseteq connected'
  BY Zenon DEF OnBrokenConnection, TypeOK
<1>2. outstanding' \in [Peers -> Int]
  BY DEF OnBrokenConnection
<1>3. wire' \in [Peers -> [Blocks -> 0 .. MaxCopies]]
  BY Numbers DEF OnBrokenConnection
<1>4. told' \in [Peers -> SUBSET Pieces]
  BY DEF OnBrokenConnection
<1> QED BY <1>1, <1>2, <1>3, <1>4

\* The process starts with nothing in memory; whatever is on disk is kept.
LEMMA GoneTypes ==
    ASSUME NEW how \in Phases, NEW on_disk \in SUBSET Blocks, NEW final \in BOOLEAN,
           ProcessGone(how, on_disk, final)
    PROVE  TypeOK'
<1>1. /\ wire' \in [Peers -> [Blocks -> 0 .. MaxCopies]]
      /\ request_age' \in [Blocks -> 0 .. RequestExpiration + 1]
      /\ registered' \in 0 .. NumPeers
  BY Numbers DEF ProcessGone
<1>2. /\ has_piece' \in [Peers -> SUBSET Pieces] /\ told' \in [Peers -> SUBSET Pieces]
      /\ outstanding' \in [Peers -> Int]
      /\ request_peer' \in [Blocks -> Peers \cup {NoPeer}]
  BY DEF ProcessGone, NoPeer
<1>3. /\ phase' \in Phases /\ connected' = {} /\ we_interested' = {} /\ heard' = {}
      /\ we_choked' = Peers /\ block_downloaded' = {} /\ piece_downloaded' = {}
      /\ downloaded' \in BOOLEAN /\ recent' = {} /\ pending' = {}
      /\ intact' \subseteq Blocks /\ at_final' \in BOOLEAN /\ writable' \in BOOLEAN
  BY DEF ProcessGone
<1> QED BY <1>1, <1>2, <1>3 DEF TypeOK

LEMMA InitTypes == Init => TypeOK
<1> SUFFICES ASSUME Init PROVE TypeOK
  OBVIOUS
<1>1. /\ wire \in [Peers -> [Blocks -> 0 .. MaxCopies]]
      /\ request_age \in [Blocks -> 0 .. RequestExpiration + 1]
      /\ registered \in 0 .. NumPeers
  BY Numbers DEF Init
<1>2. /\ has_piece \in [Peers -> SUBSET Pieces] /\ told \in [Peers -> SUBSET Pieces]
      /\ outstanding \in [Peers -> Int]
      /\ request_peer \in [Blocks -> Peers \cup {NoPeer}]
  BY DEF Init, NoPeer
<1>3. phase \in Phases
  BY DEF Init, Phases
<1> QED BY <1>1, <1>2, <1>3 DEF Init, TypeOK

-----------------------------------------------------------------------------
\* The types that every action but a few leaves alone, in groups.
LEMMA TypeStep == TypeOK /\ [Next]_vars => TypeOK'
<1> SUFFICES ASSUME TypeOK, [Next]_vars PROVE TypeOK'
  OBVIOUS
<1> USE DEF peerVars, blockVars, diskVars, netVars
<1>0. connected \subseteq Peers
  BY Numbers DEF TypeOK, Peers
<1>1. CASE Start
  <2>1. VerifiedOnDisk(intact) \subseteq Pieces
    BY DEF VerifiedOnDisk
  <2>2. phase' \in Phases
    BY <1>1 DEF Start, Phases
  <2> HIDE DEF peerVars, netVars
  <2>3. /\ writable' \in BOOLEAN /\ at_final' \in BOOLEAN /\ downloaded' \in BOOLEAN
    BY <1>1 DEF Start
  <2> QED BY <1>1, <2>1, <2>2, <2>3 DEF Start, TypeOK, peerVars, netVars
<1>2. CASE Dies
  <2> "off" \in Phases /\ "panicked" \in Phases
    BY DEF Phases
  <2>1. CASE Kill
    BY <2>1, GoneTypes DEF Kill, TypeOK
  <2>2. ASSUME NEW p \in Peers, NEW b \in Blocks, NEW ok \in BOOLEAN,
               \/ RecvPieceCannotWrite(p, b, ok)
               \/ RecvPieceCannotMove(p, b, ok)
               \/ KillAfterWrite(p, b, ok)
        PROVE  TypeOK'
    <3>1. AfterWrite(b, ok) \in SUBSET Blocks
      BY DEF AfterWrite, TypeOK
    <3> QED BY <2>2, <3>1, GoneTypes
            DEF RecvPieceCannotWrite, RecvPieceCannotMove, KillAfterWrite, TypeOK
  <2> QED BY <1>2, <2>1, <2>2 DEF Dies
<1>3. ASSUME NEW p \in Peers, NEW broken \in SUBSET Flaky, ConnectOutgoing(p, broken)
      PROVE  TypeOK'
  <2>1. /\ connected' \subseteq 1 .. registered'
        /\ we_choked' \subseteq Peers /\ Peers \ connected' \subseteq we_choked'
        /\ we_interested' \subseteq connected'
        /\ heard' \subseteq Peers
    BY <1>3, Numbers DEF ConnectOutgoing, TypeOK, Peers
  <2>2. wire' \in [Peers -> [Blocks -> 0 .. MaxCopies]]
    BY <1>3, Numbers DEF ConnectOutgoing, TypeOK
  <2>3. told' \in [Peers -> SUBSET Pieces] /\ outstanding' \in [Peers -> Int]
    BY <1>3 DEF ConnectOutgoing, TypeOK
  <2> QED BY <1>3, <2>1, <2>2, <2>3 DEF ConnectOutgoing, TypeOK
<1>4. CASE ConnectDone \/ AnnounceDone \/ AcceptNone
  <2>1. phase' \in Phases
    BY <1>4 DEF ConnectDone, AnnounceDone, AcceptNone, Phases
  <2> QED BY <1>4, <2>1 DEF ConnectDone, AnnounceDone, AcceptNone, TypeOK
<1>5. CASE RegisterOutgoing
  <2>1. registered' \in 0 .. NumPeers /\ connected \subseteq 1 .. registered'
    BY <1>5, Numbers DEF RegisterOutgoing, TypeOK
  <2> QED BY <1>5, <2>1 DEF RegisterOutgoing, TypeOK
<1>6. ASSUME NEW broken \in SUBSET Flaky, AcceptIncoming(broken)
      PROVE  TypeOK'
  <2>1. registered + 1 \in Peers /\ registered' = registered + 1
    BY <1>6, Numbers DEF AcceptIncoming, TypeOK, Peers
  <2>2. registered' \in 0 .. NumPeers /\ connected' \subseteq 1 .. registered'
    BY <1>6, <2>1, Numbers DEF AcceptIncoming, TypeOK
  <2>3. registered + 1 \notin connected
    BY Numbers DEF TypeOK
  <2>4. we_interested' \subseteq connected' /\ Peers \ connected' \subseteq we_choked'
    BY <1>6, <2>3, Zenon DEF AcceptIncoming, TypeOK
  <2>5. told' \in [Peers -> SUBSET Pieces]
    BY <1>6 DEF AcceptIncoming, TypeOK
  <2>6. phase' \in Phases
    BY <1>6 DEF AcceptIncoming, Phases
  <2> QED BY <1>6, <2>2, <2>4, <2>5, <2>6 DEF AcceptIncoming, TypeOK
<1>7. CASE PeerSends
  <2>1. PICK p \in Peers :
          \/ \E drop \in BOOLEAN : RecvChoke(p, drop)
          \/ RecvUnchoke(p)
          \/ \E pieces \in SUBSET Pieces : RecvBitfield(p, pieces)
          \/ \E i \in Pieces : RecvHave(p, i)
          \/ \E i \in Pieces : RecvRequest(p, i)
          \/ \E b \in Blocks, ok \in BOOLEAN : RecvPiece(p, b, ok)
    BY <1>7 DEF PeerSends
  <2>2. ASSUME NEW drop \in BOOLEAN, RecvChoke(p, drop) PROVE TypeOK'
    <3>1. wire' \in [Peers -> [Blocks -> 0 .. MaxCopies]]
      BY <2>2, Numbers DEF RecvChoke, TypeOK
    <3> QED BY <2>2, <3>1 DEF RecvChoke, Receive, TypeOK
  <2>3. CASE RecvUnchoke(p)
    BY <2>3 DEF RecvUnchoke, Receive, TypeOK
  <2>4. ASSUME NEW pieces \in SUBSET Pieces, RecvBitfield(p, pieces) PROVE TypeOK'
    BY <2>4 DEF RecvBitfield, Receive, TypeOK
  <2>5. ASSUME NEW i \in Pieces, RecvHave(p, i) PROVE TypeOK'
    BY <2>5 DEF RecvHave, Receive, TypeOK
  <2>6. ASSUME NEW i \in Pieces, RecvRequest(p, i) PROVE TypeOK'
    BY <2>6 DEF RecvRequest, Receive, TypeOK
  <2>7. ASSUME NEW b \in Blocks, NEW ok \in BOOLEAN, RecvPiece(p, b, ok) PROVE TypeOK'
    <3>1. wire' \in [Peers -> [Blocks -> 0 .. MaxCopies]]
      <4>1. wire[p][b] \in 0 .. MaxCopies /\ wire[p][b] > 0
        BY <2>7 DEF RecvPiece, Answer, TypeOK
      <4>2. wire[p][b] - 1 \in 0 .. MaxCopies
        BY <4>1, LimitAssumption DEF LimitAssumption
      <4> QED BY <2>7, <4>2 DEF RecvPiece, TypeOK
    <3>2. /\ request_peer' \in [Blocks -> Peers \cup {NoPeer}]
          /\ request_age' \in [Blocks -> 0 .. RequestExpiration + 1]
          /\ outstanding' \in [Peers -> Int]
      BY <2>7, Numbers DEF RecvPiece, ClearRecord, TypeOK
    <3>3. /\ intact' \subseteq Blocks /\ block_downloaded' \subseteq Blocks
          /\ piece_downloaded' \subseteq Pieces /\ recent' \subseteq Pieces
      BY <2>7 DEF RecvPiece, AfterWrite, BlocksAfter, PiecesAfter, Pieces, TypeOK
    <3>4. downloaded' \in BOOLEAN /\ at_final' \in BOOLEAN
      BY <2>7 DEF RecvPiece, Moved
    <3> QED BY <2>7, <3>1, <3>2, <3>3, <3>4 DEF RecvPiece, Receive, TypeOK
  <2> QED BY <2>1, <2>2, <2>3, <2>4, <2>5, <2>6, <2>7
<1>8. ASSUME NEW broken \in SUBSET Flaky, ReceiveDone(broken)
      PROVE  TypeOK'
  <2>1. broken \subseteq Peers /\ phase' \in Phases
    BY <1>8, PeerAssumption DEF PeerAssumption, ReceiveDone, Phases
  <2>2. OnBrokenConnection(broken, we_interested, outstanding, wire, told)
    BY <1>8 DEF ReceiveDone
  <2> QED BY <1>8, <2>1, <2>2, BreakTypes DEF ReceiveDone, TypeOK
<1>9. CASE ExpireRequests
  <2>1. ASSUME NEW p \in Peers PROVE Cardinality(Records(p) \cap Expired) \in Nat
    BY BlocksFinite, FS_Subset, FS_CardinalityType DEF Records
  <2>2. outstanding' \in [Peers -> Int]
    <3>1. outstanding' = [p \in Peers |-> outstanding[p] - Cardinality(Records(p) \cap Expired)]
      BY <1>9, Zenon DEF ExpireRequests
    <3>2. ASSUME NEW p \in Peers
          PROVE  outstanding[p] - Cardinality(Records(p) \cap Expired) \in Int
      <4>1. Cardinality(Records(p) \cap Expired) \in Nat
        BY <2>1, Zenon
      <4>2. outstanding[p] \in Int
        BY DEF TypeOK
      <4> QED BY <4>1, <4>2
    <3> QED BY <3>1, <3>2
  <2>3. /\ request_peer' \in [Blocks -> Peers \cup {NoPeer}]
        /\ request_age' \in [Blocks -> 0 .. RequestExpiration + 1]
    BY <1>9, Numbers DEF ExpireRequests, TypeOK
  <2>4. phase' \in Phases
    BY <1>9 DEF ExpireRequests, Phases
  <2> QED BY <1>9, <2>2, <2>3, <2>4 DEF ExpireRequests, TypeOK
<1>10. ASSUME NEW lost \in SUBSET Flaky, NEW broken \in SUBSET Flaky,
              BroadcastHave(lost, broken)
       PROVE  TypeOK'
  <2> DEFINE tell == [p \in Peers |-> IF p \in lost THEN told[p]
                                      ELSE told[p] \cup decide_have_broadcasts(p)]
  <2>1. broken \subseteq Peers /\ phase' \in Phases
    BY <1>10, PeerAssumption DEF PeerAssumption, BroadcastHave, Phases
  <2>2. tell \in [Peers -> SUBSET Pieces]
    BY DEF decide_have_broadcasts, TypeOK
  <2>3. OnBrokenConnection(broken, we_interested, outstanding, wire, tell)
    BY <1>10, Zenon DEF BroadcastHave
  <2> HIDE DEF tell
  <2>4. we_interested \subseteq connected /\ outstanding \in [Peers -> Int]
        /\ wire \in [Peers -> [Blocks -> 0 .. MaxCopies]]
    BY DEF TypeOK
  <2> QED BY <1>10, <2>1, <2>2, <2>3, <2>4, BreakTypes DEF BroadcastHave, TypeOK
<1>11. CASE ExecuteOutgoingBlockRequests
  <2>1. PICK assign \in Assignments, lost \in SUBSET Blocks, broken \in SUBSET Flaky :
          decide_block_requests(assign) /\ RequestBlocks(assign, lost, broken)
    BY <1>11 DEF ExecuteOutgoingBlockRequests, Lossy
  <2> DEFINE out == [p \in Peers |-> outstanding[p] + Cardinality(AddedInThis(assign, p))]
             asked == we_interested \cup Asked(assign)
             sent == Sent(assign, lost)
  <2>2. broken \subseteq Peers /\ phase' \in Phases
    BY <2>1, PeerAssumption DEF PeerAssumption, RequestBlocks, Phases
  <2>3. asked \subseteq connected
    <3>1. ASSUME NEW p \in Asked(assign) PROVE p \in connected
      <4>1. PICK b \in Blocks : assign[b] = p /\ p \in Peers
        BY DEF Asked, AddedInThis
      <4>2. assign[b] \in Eligible(assign, b)
        BY <1>0, <2>1, <4>1, Numbers, Decided
      <4> QED BY <4>1, <4>2 DEF Eligible
    <3> QED BY <3>1 DEF TypeOK
  <2>4. out \in [Peers -> Int]
    <3>1. ASSUME NEW p \in Peers PROVE Cardinality(AddedInThis(assign, p)) \in Nat
      BY BlocksFinite, FS_Subset, FS_CardinalityType DEF AddedInThis
    <3> QED BY <3>1 DEF TypeOK
  <2>5. sent \in [Peers -> [Blocks -> 0 .. MaxCopies]]
    <3>1. ASSUME NEW p \in Peers, NEW b \in Blocks
          PROVE  (IF assign[b] = p /\ b \notin lost /\ wire[p][b] < MaxCopies
                    THEN wire[p][b] + 1 ELSE wire[p][b]) \in 0 .. MaxCopies
      <4>1. wire[p][b] \in 0 .. MaxCopies /\ MaxCopies \in Nat
        BY LimitAssumption DEF LimitAssumption, TypeOK
      <4> QED BY <4>1
    <3> QED BY <3>1 DEF Sent
  <2>6. OnBrokenConnection(broken, asked, out, sent, told)
    BY <2>1, Zenon DEF RequestBlocks
  <2>7. /\ request_peer' \in [Blocks -> Peers \cup {NoPeer}]
        /\ request_age' \in [Blocks -> 0 .. RequestExpiration + 1]
    BY <2>1, Numbers DEF RequestBlocks, Assignments, TypeOK
  <2>8. told \in [Peers -> SUBSET Pieces]
    BY DEF TypeOK
  <2> HIDE DEF out, asked, sent
  <2>9. /\ connected' \subseteq 1 .. registered
        /\ we_choked' \subseteq Peers /\ Peers \ connected' \subseteq we_choked'
        /\ we_interested' \subseteq connected'
        /\ outstanding' \in [Peers -> Int]
        /\ wire' \in [Peers -> [Blocks -> 0 .. MaxCopies]]
        /\ told' \in [Peers -> SUBSET Pieces]
    BY <2>2, <2>3, <2>4, <2>5, <2>6, <2>8, BreakTypes
  <2> QED BY <2>1, <2>2, <2>7, <2>9 DEF RequestBlocks, TypeOK
<1>12. ASSUME NEW broken \in SUBSET Flaky, ServeRequests(broken)
       PROVE  TypeOK'
  <2>1. broken \subseteq Peers /\ phase' \in Phases
    BY <1>12, PeerAssumption DEF PeerAssumption, ServeRequests, Phases
  <2>2. OnBrokenConnection(broken, we_interested, outstanding, wire, told)
    BY <1>12 DEF ServeRequests
  <2> QED BY <1>12, <2>1, <2>2, BreakTypes DEF ServeRequests, TypeOK
<1>13. ASSUME NEW silent \in SUBSET Flaky, NEW passed \in BOOLEAN, EndTick(silent, passed)
       PROVE  TypeOK'
  <2> DEFINE broken == (connected \ heard) \cup silent
  <2>1. broken \subseteq Peers /\ phase' \in Phases
    BY <1>0, <1>13, PeerAssumption DEF PeerAssumption, EndTick, Phases
  <2>2. OnBrokenConnection(broken, we_interested, outstanding, wire, told)
    BY <1>13 DEF EndTick
  <2>3. request_age' \in [Blocks -> 0 .. RequestExpiration + 1]
    <3>1. ASSUME NEW b \in Blocks
          PROVE  Older(request_age[b]) \in 0 .. RequestExpiration + 1
      <4>1. request_age[b] \in 0 .. RequestExpiration + 1 /\ RequestExpiration \in Nat
        BY LimitAssumption DEF LimitAssumption, TypeOK
      <4> QED BY <4>1 DEF Older
    <3> HIDE DEF broken
    <3> QED BY <1>13, <3>1, Numbers DEF EndTick, TypeOK
  <2> HIDE DEF broken
  <2> QED BY <1>13, <2>1, <2>2, <2>3, BreakTypes DEF EndTick, TypeOK
<1>14. CASE UNCHANGED vars
  BY <1>14 DEF vars, TypeOK
<1> QED BY <1>1, <1>2, <1>3, <1>4, <1>5, <1>6, <1>7, <1>8, <1>9, <1>10, <1>11, <1>12,
           <1>13, <1>14 DEF Next

\* Every reachable state of a download is well typed: peers' indices are within the
\* vector, a peer without a stream is choking us, not known to be interested in, and
\* was told nothing.
THEOREM TypeCorrect == Spec => []TypeOK
<1> QED BY InitTypes, TypeStep, PTL DEF Spec

-----------------------------------------------------------------------------
(***************************************************************************)
(* The counters.  The inductive invariant is the conjunction of the limit   *)
(* and of the two bounds by the records that name the peer: the limit alone  *)
(* is not inductive, because a tick adds up to MAX_REQUESTS_PER_TICK to it.   *)
(***************************************************************************)
Counters == OutstandingWithinCap /\ RecordsBoundOutstanding

LEMMA RecordsFinite ==
    ASSUME NEW p \in Peers
    PROVE  /\ IsFiniteSet(Records(p)) /\ Cardinality(Records(p)) \in Nat
           /\ Cardinality(Records(p)) <= NumBlocks
<1>1. Records(p) \in SUBSET Blocks
  BY DEF Records
<1> QED BY <1>1, BlocksFinite, FS_Subset, FS_CardinalityType

\* What a tick adds to the counter of a peer fits under its limit: the last block
\* given to the peer was given below the limit, counting the others.
LEMMA AddedFits ==
    ASSUME TypeOK, OutstandingWithinCap, NEW assign \in Assignments,
           decide_block_requests(assign), NEW p \in Peers
    PROVE  /\ IsFiniteSet(AddedInThis(assign, p))
           /\ Cardinality(AddedInThis(assign, p)) \in Nat
           /\ outstanding[p] + Cardinality(AddedInThis(assign, p)) <= MaxOutstanding
<1> DEFINE A == AddedInThis(assign, p)
<1>1. A \in SUBSET Blocks
  BY DEF AddedInThis
<1>2. IsFiniteSet(A) /\ Cardinality(A) \in Nat
  <2> HIDE DEF A
  <2> QED BY <1>1, BlocksFinite, FS_Subset, FS_CardinalityType
<1>3. outstanding[p] \in Int /\ outstanding[p] <= MaxOutstanding /\ MaxOutstanding \in Int
  BY LimitAssumption DEF LimitAssumption, TypeOK, OutstandingWithinCap
<1>4. CASE A = {}
  <2>1. Cardinality(A) = 0
    BY <1>4, FS_EmptySet
  <2> HIDE DEF A
  <2> QED BY <1>2, <1>3, <2>1 DEF A
<1>5. CASE A # {}
  <2>1. PICK m \in A : \A c \in A : c <= m
    <3> HIDE DEF A
    <3> QED BY <1>1, <1>5, IntervalHasMax, Numbers DEF Blocks
  <2>2. m \in Blocks /\ assign[m] = p /\ p # NoPeer
    BY <2>1, Numbers DEF AddedInThis
  <2>3. AddedBefore(assign, m, p) = A \ {m}
    BY <2>1, <2>2, Numbers DEF AddedBefore, AddedInThis, Blocks
  <2>4. Cardinality(AddedBefore(assign, m, p)) = Cardinality(A) - 1
    <3> HIDE DEF A
    <3> QED BY <1>2, <2>1, <2>3, FS_RemoveElement
  <2>5. outstanding[p] + Cardinality(AddedBefore(assign, m, p)) < MaxOutstanding
    <3>1. connected \subseteq Peers
      BY Numbers DEF TypeOK, Peers
    <3>2. p \in Eligible(assign, m)
      BY <2>2, <3>1, Decided
    <3> QED BY <3>2, Zenon DEF Eligible
  <2> HIDE DEF A
  <2> QED BY <1>2, <1>3, <2>4, <2>5 DEF A
<1> QED BY <1>4, <1>5

\* One step of a peer's counter in the terms the arithmetic needs.
LEMMA CounterOf ==
    ASSUME TypeOK, Counters, NEW p \in Peers
    PROVE  /\ outstanding[p] \in Int /\ Cardinality(Records(p)) \in Nat
           /\ NumBlocks \in Nat /\ MaxOutstanding \in Nat \ {0}
           /\ Cardinality(Records(p)) <= NumBlocks
           /\ outstanding[p] <= MaxOutstanding
           /\ outstanding[p] <= Cardinality(Records(p))
           /\ outstanding[p] >= Cardinality(Records(p)) - NumBlocks
<1>1. /\ outstanding[p] <= MaxOutstanding
      /\ outstanding[p] <= Cardinality(Records(p))
      /\ outstanding[p] >= Cardinality(Records(p)) - NumBlocks
  BY Zenon DEF Counters, OutstandingWithinCap, RecordsBoundOutstanding
<1>2. outstanding[p] \in Int /\ MaxOutstanding \in Nat \ {0}
  BY LimitAssumption DEF LimitAssumption, TypeOK
<1> QED BY <1>1, <1>2, RecordsFinite, Numbers

\* A counter that is zero is within its bounds.
LEMMA ZeroCounter ==
    ASSUME TypeOK', NEW p \in Peers, outstanding'[p] = 0
    PROVE  /\ outstanding'[p] <= MaxOutstanding
           /\ outstanding'[p] <= Cardinality(Records(p)')
           /\ outstanding'[p] >= Cardinality(Records(p)') - NumBlocks
<1>1. Records(p)' \in SUBSET Blocks
  BY DEF Records
<1>2. Cardinality(Records(p)') \in Nat /\ Cardinality(Records(p)') <= NumBlocks
  <2> DEFINE R == Records(p)'
  <2> HIDE DEF R
  <2>1. R \in SUBSET Blocks
    BY <1>1 DEF R
  <2>2. Cardinality(R) \in Nat /\ Cardinality(R) <= NumBlocks
    BY <2>1, BlocksFinite, FS_Subset, FS_CardinalityType
  <2> QED BY <2>2 DEF R
<1>3. MaxOutstanding \in Nat
  BY LimitAssumption DEF LimitAssumption
<1> QED BY <1>2, <1>3, Numbers

\* What Counters says of one peer, after a step.
WithinBounds(p) ==
    /\ outstanding[p] <= MaxOutstanding
    /\ outstanding[p] <= Cardinality(Records(p))
    /\ outstanding[p] >= Cardinality(Records(p)) - NumBlocks

LEMMA SameCounter ==
    ASSUME TypeOK, TypeOK', Counters, NEW p \in Peers,
           request_peer' = request_peer,
           outstanding'[p] = outstanding[p] \/ outstanding'[p] = 0
    PROVE  WithinBounds(p)'
<1>1. CASE outstanding'[p] = 0
  BY <1>1, ZeroCounter DEF WithinBounds
<1>2. CASE outstanding'[p] = outstanding[p]
  <2>1. Records(p)' = Records(p)
    BY DEF Records
  <2> QED BY <1>2, <2>1, CounterOf DEF WithinBounds
<1> QED BY <1>1, <1>2

\* An answer: the record goes with the counter, unless the counter had been zeroed.
LEMMA AnswerCounter ==
    ASSUME TypeOK, TypeOK', Counters, NEW q \in Peers, NEW b \in Blocks,
           ClearRecord(q, b), NEW p \in Peers
    PROVE  WithinBounds(p)'
<1>1. CASE request_peer[b] # q
  BY <1>1, SameCounter DEF ClearRecord
<1>2. CASE request_peer[b] = q
  <2>1. request_peer' = [request_peer EXCEPT ![b] = NoPeer]
    BY <1>2 DEF ClearRecord
  <2>2. CASE p # q
    <3>1. outstanding'[p] = outstanding[p]
      BY <2>2 DEF ClearRecord, TypeOK
    <3>2. Records(p)' = Records(p)
      BY <1>2, <2>1, <2>2, Numbers DEF Records, TypeOK
    <3> QED BY <3>1, <3>2, CounterOf DEF WithinBounds
  <2>3. CASE p = q
    <3>1. Records(p)' = Records(p) \ {b} /\ b \in Records(p)
      BY <1>2, <2>1, <2>3, Numbers DEF Records, TypeOK
    <3>2. Cardinality(Records(p)') = Cardinality(Records(p)) - 1
      <4> DEFINE R == Records(p)
      <4>1. IsFiniteSet(R) /\ b \in R
        BY <3>1, RecordsFinite
      <4> HIDE DEF R
      <4>2. Cardinality(R \ {b}) = Cardinality(R) - 1
        BY <4>1, FS_RemoveElement
      <4> QED BY <3>1, <4>2 DEF R
    <3>3. outstanding'[p] = IF outstanding[p] > 0 THEN outstanding[p] - 1 ELSE outstanding[p]
      BY <1>2, <2>3 DEF ClearRecord, TypeOK
    <3>4. Cardinality(Records(p)') \in Nat
      BY <3>1, <3>2, RecordsFinite, FS_RemoveElement, FS_CardinalityType
    <3> QED BY <3>2, <3>3, <3>4, CounterOf DEF WithinBounds
  <2> QED BY <2>2, <2>3
<1> QED BY <1>1, <1>2

\* Expiry: each expired record is dropped and counted down exactly once.
LEMMA ExpiryCounter ==
    ASSUME TypeOK, Counters, ExpireRequests, NEW p \in Peers
    PROVE  WithinBounds(p)'
<1> DEFINE R == Records(p)
           X == Records(p) \cap Expired
<1>1. outstanding'[p] = outstanding[p] - Cardinality(X)
  BY DEF ExpireRequests
<1>2. Records(p)' = R \ Expired
  BY Numbers DEF Records, ExpireRequests
<1>3. IsFiniteSet(R) /\ Cardinality(R) \in Nat
  BY RecordsFinite
<1>4. Cardinality(R \ Expired) = Cardinality(R) - Cardinality(X) /\ Cardinality(X) \in Nat
  <2> HIDE DEF R
  <2>1. X = R \cap Expired
    BY DEF R
  <2>2. Cardinality(R \ Expired) = Cardinality(R) - Cardinality(R \cap Expired)
    BY <1>3, FS_Difference
  <2>3. IsFiniteSet(R \cap Expired)
    BY <1>3, FS_Subset
  <2>4. Cardinality(R \cap Expired) \in Nat
    BY <2>3, FS_CardinalityType
  <2> HIDE DEF X
  <2> QED BY <2>1, <2>2, <2>4
<1> QED BY <1>1, <1>2, <1>3, <1>4, CounterOf DEF WithinBounds

\* What a tick asks of a peer gets a record each, and no block it asks for had one.
LEMMA RequestCounter ==
    ASSUME TypeOK, TypeOK', Counters, NEW assign \in Assignments, NEW lost, NEW broken,
           RequestBlocks(assign, lost, broken), NEW p \in Peers
    PROVE  WithinBounds(p)'
<1> DEFINE R == Records(p)
           A == AddedInThis(assign, p)
<1>1. /\ decide_block_requests(assign)
      /\ request_peer' = [b \in Blocks |-> IF assign[b] # NoPeer THEN assign[b] ELSE request_peer[b]]
      /\ outstanding'[p] = IF p \in broken THEN 0 ELSE outstanding[p] + Cardinality(A)
  BY DEF RequestBlocks, OnBrokenConnection
<1>2. CASE p \in broken
  BY <1>1, <1>2, ZeroCounter DEF WithinBounds
<1>3. CASE p \notin broken
  <2>1. connected \subseteq Peers
    BY Numbers DEF TypeOK, Peers
  <2>2. ASSUME NEW b \in Blocks, assign[b] # NoPeer PROVE request_peer[b] = NoPeer
    BY <1>1, <2>1, <2>2, Decided DEF Wanted
  <2>3. Records(p)' = R \cup A
    BY <1>1, <2>2, Numbers DEF Records, AddedInThis
  <2>4. R \cap A = {}
    BY <2>2, Numbers DEF Records, AddedInThis
  <2>5. /\ IsFiniteSet(R) /\ IsFiniteSet(A)
        /\ Cardinality(R) \in Nat /\ Cardinality(A) \in Nat
        /\ outstanding[p] + Cardinality(A) <= MaxOutstanding
    BY <1>1, RecordsFinite, AddedFits DEF Counters
  <2>6. Cardinality(Records(p)') = Cardinality(R) + Cardinality(A)
    <3> HIDE DEF R, A
    <3>1. Cardinality(R \cup A) = Cardinality(R) + Cardinality(A) - Cardinality(R \cap A)
      BY <2>5, FS_Union
    <3>2. Cardinality(R \cap A) = 0
      BY <2>4, FS_EmptySet
    <3> QED BY <2>3, <2>5, <3>1, <3>2
  <2>7. outstanding'[p] = outstanding[p] + Cardinality(A)
    BY <1>1, <1>3
  <2> QED BY <2>5, <2>6, <2>7, CounterOf DEF WithinBounds
<1> QED BY <1>2, <1>3

LEMMA CountersStep == TypeOK /\ TypeOK' /\ Counters /\ [Next]_vars => Counters'
<1> SUFFICES ASSUME TypeOK, TypeOK', Counters, [Next]_vars, NEW p \in Peers
             PROVE  WithinBounds(p)'
  BY Zenon DEF Counters, OutstandingWithinCap, RecordsBoundOutstanding, WithinBounds
<1> USE DEF peerVars, blockVars
<1>1. CASE Start \/ ConnectDone \/ RegisterOutgoing \/ AnnounceDone \/ AcceptNone
           \/ UNCHANGED vars
  <2>1. request_peer' = request_peer /\ outstanding' = outstanding
    BY <1>1 DEF Start, ConnectDone, RegisterOutgoing, AnnounceDone, AcceptNone, vars
  <2> QED BY <2>1, SameCounter
<1>2. CASE Dies
  <2>1. outstanding'[p] = 0
    BY <1>2 DEF Dies, Kill, RecvPieceCannotWrite, RecvPieceCannotMove, KillAfterWrite, ProcessGone
  <2> QED BY <2>1, ZeroCounter DEF WithinBounds
<1>3. ASSUME NEW q \in Peers, NEW broken \in SUBSET Flaky, ConnectOutgoing(q, broken)
      PROVE  WithinBounds(p)'
  <2>1. request_peer' = request_peer /\ (outstanding'[p] = outstanding[p] \/ outstanding'[p] = 0)
    BY <1>3 DEF ConnectOutgoing, TypeOK
  <2> QED BY <2>1, SameCounter
<1>4. ASSUME NEW broken \in SUBSET Flaky, AcceptIncoming(broken)
      PROVE  WithinBounds(p)'
  BY <1>4, SameCounter DEF AcceptIncoming
<1>5. CASE PeerSends
  <2>1. PICK q \in Peers :
          \/ \E drop \in BOOLEAN : RecvChoke(q, drop)
          \/ RecvUnchoke(q)
          \/ \E pieces \in SUBSET Pieces : RecvBitfield(q, pieces)
          \/ \E i \in Pieces : RecvHave(q, i)
          \/ \E i \in Pieces : RecvRequest(q, i)
          \/ \E b \in Blocks, ok \in BOOLEAN : RecvPiece(q, b, ok)
    BY <1>5 DEF PeerSends
  <2>2. ASSUME NEW b \in Blocks, NEW ok \in BOOLEAN, RecvPiece(q, b, ok)
        PROVE  WithinBounds(p)'
    BY <2>2, AnswerCounter DEF RecvPiece
  <2>3. CASE ~ \E b \in Blocks, ok \in BOOLEAN : RecvPiece(q, b, ok)
    <3>1. request_peer' = request_peer /\ outstanding' = outstanding
      BY <2>1, <2>3 DEF RecvChoke, RecvUnchoke, RecvBitfield, RecvHave, RecvRequest
    <3> QED BY <3>1, SameCounter
  <2> QED BY <2>2, <2>3
<1>6. ASSUME NEW broken, NEW interested, NEW sent, NEW tell,
             OnBrokenConnection(broken, interested, outstanding, sent, tell),
             request_peer' = request_peer
      PROVE  WithinBounds(p)'
  <2>1. outstanding'[p] = outstanding[p] \/ outstanding'[p] = 0
    BY <1>6 DEF OnBrokenConnection
  <2> QED BY <1>6, <2>1, SameCounter
<1>7. CASE \/ \E broken \in SUBSET Flaky : ReceiveDone(broken)
           \/ \E lost \in SUBSET Flaky : \E broken \in SUBSET Flaky : BroadcastHave(lost, broken)
           \/ \E broken \in SUBSET Flaky : ServeRequests(broken)
           \/ \E silent \in SUBSET Flaky, passed \in BOOLEAN : EndTick(silent, passed)
  <2>1. request_peer' = request_peer
    BY <1>7 DEF ReceiveDone, BroadcastHave, ServeRequests, EndTick
  <2>2. \E broken, interested, sent, tell :
           OnBrokenConnection(broken, interested, outstanding, sent, tell)
    BY <1>7, Zenon DEF ReceiveDone, BroadcastHave, ServeRequests, EndTick
  <2> QED BY <1>6, <2>1, <2>2
<1>8. CASE ExpireRequests
  BY <1>8, ExpiryCounter
<1>9. CASE ExecuteOutgoingBlockRequests
  <2>1. PICK assign \in Assignments, lost \in SUBSET Blocks, broken \in SUBSET Flaky :
          RequestBlocks(assign, lost, broken)
    BY <1>9 DEF ExecuteOutgoingBlockRequests, Lossy
  <2> QED BY <2>1, RequestCounter
<1> QED BY <1>1, <1>2, <1>3, <1>4, <1>5, <1>7, <1>8, <1>9 DEF Next

LEMMA InitCounters == Init => Counters
<1> SUFFICES ASSUME Init, NEW p \in Peers PROVE WithinBounds(p)
  BY Zenon DEF Counters, OutstandingWithinCap, RecordsBoundOutstanding, WithinBounds
<1>1. outstanding[p] = 0 /\ Records(p) = {}
  BY Numbers DEF Init, Records
<1>2. Cardinality(Records(p)) = 0
  BY <1>1, FS_EmptySet
<1> QED BY <1>1, <1>2, Numbers, LimitAssumption DEF WithinBounds, LimitAssumption

\* No reachable state has a peer above its limit of outstanding requests, however
\* breaks, late answers and expiry interleave with what the ticks add.
THEOREM LimitKept == Spec => []OutstandingWithinCap
<1> Counters => OutstandingWithinCap
  BY DEF Counters
<1> QED BY InitCounters, CountersStep, TypeCorrect, PTL DEF Spec

\* The counter of a peer never exceeds the records that name the peer, and is below
\* them by no more than the blocks of the torrent.
THEOREM CounterFollowsRecords == Spec => []RecordsBoundOutstanding
<1> Counters => RecordsBoundOutstanding
  BY DEF Counters
<1> QED BY InitCounters, CountersStep, TypeCorrect, PTL DEF Spec

-----------------------------------------------------------------------------
(***************************************************************************)
(* The exact counter of a peer whose connection is neither broken nor        *)
(* replaced.  Exactness alone is not inductive: process_new_connections      *)
(* zeroes the counter of a peer it connects, and reset_inactive_connections  *)
(* that of a peer nothing was heard from; the strengthening says that such a *)
(* peer has no records.                                                     *)
(***************************************************************************)

StableAt(p) ==
    /\ outstanding[p] = Cardinality(Records(p))
    /\ p \notin heard => p \in we_choked
    /\ p \notin connected \cap heard => Records(p) = {}

StableInv == \A p \in Peers \ Flaky : StableAt(p)

\* A step that leaves the records alone, does not lower `heard' or `we_choked', and
\* keeps the connection and counter of the peer if it has been heard.
LEMMA StableKept ==
    ASSUME NEW p \in Peers \ Flaky, StableAt(p),
           request_peer' = request_peer,
           p \in heard => p \in heard',
           p \in we_choked /\ p \notin heard' => p \in we_choked',
           p \in connected \cap heard => p \in connected',
           \/ outstanding'[p] = outstanding[p]
           \/ outstanding'[p] = 0 /\ p \notin connected \cap heard
    PROVE  StableAt(p)'
<1>1. Records(p)' = Records(p)
  BY DEF Records
<1>2. outstanding'[p] = Cardinality(Records(p))
  BY FS_EmptySet DEF StableAt
<1> QED BY <1>1, <1>2 DEF StableAt

\* An answer from q: if the record of the block names p, then q is p and both the
\* record and one unit of its counter go.
LEMMA StableAnswer ==
    ASSUME TypeOK, TypeOK', NEW p \in Peers \ Flaky, StableAt(p), NEW q \in Peers,
           NEW b \in Blocks, ClearRecord(q, b), q \in connected,
           heard' = heard \cup {q}, connected' = connected, we_choked' = we_choked
    PROVE  StableAt(p)'
<1>1. CASE request_peer[b] # q
  BY <1>1, StableKept DEF ClearRecord
<1>2. CASE request_peer[b] = q
  <2>1. request_peer' = [request_peer EXCEPT ![b] = NoPeer]
    BY <1>2 DEF ClearRecord
  <2>2. CASE p # q
    <3>1. outstanding'[p] = outstanding[p]
      BY <2>2 DEF ClearRecord, TypeOK
    <3>2. Records(p)' = Records(p)
      BY <1>2, <2>1, <2>2, Numbers DEF Records, TypeOK
    <3> QED BY <2>2, <3>1, <3>2 DEF StableAt
  <2>3. CASE p = q
    <3>1. Records(p)' = Records(p) \ {b} /\ b \in Records(p)
      BY <1>2, <2>1, <2>3, Numbers DEF Records, TypeOK
    <3>2. /\ Cardinality(Records(p)') = Cardinality(Records(p)) - 1
          /\ Cardinality(Records(p)) \in Nat /\ Cardinality(Records(p)') \in Nat
      <4> DEFINE R == Records(p)
      <4>1. IsFiniteSet(R) /\ b \in R
        BY <3>1, RecordsFinite
      <4> HIDE DEF R
      <4>2. Cardinality(R \ {b}) = Cardinality(R) - 1 /\ IsFiniteSet(R \ {b})
        BY <4>1, FS_RemoveElement
      <4>3. Cardinality(R) \in Nat /\ Cardinality(R \ {b}) \in Nat
        BY <4>1, <4>2, FS_CardinalityType
      <4> QED BY <3>1, <4>2, <4>3 DEF R
    <3>3. outstanding'[p] = IF outstanding[p] > 0 THEN outstanding[p] - 1 ELSE outstanding[p]
      BY <1>2, <2>3 DEF ClearRecord, TypeOK
    <3>4. outstanding[p] = Cardinality(Records(p))
      BY DEF StableAt
    <3>5. outstanding'[p] = Cardinality(Records(p)')
      BY <3>2, <3>3, <3>4
    <3>6. p \in heard' /\ p \in connected'
      BY <2>3
    <3> QED BY <3>5, <3>6 DEF StableAt
  <2> QED BY <2>2, <2>3
<1> QED BY <1>1, <1>2

\* Expiry takes as many records as it takes from the counter.
LEMMA StableExpiry ==
    ASSUME TypeOK, NEW p \in Peers \ Flaky, StableAt(p), ExpireRequests
    PROVE  StableAt(p)'
<1> DEFINE R == Records(p)
           X == Records(p) \cap Expired
<1>1. outstanding'[p] = outstanding[p] - Cardinality(X)
  BY DEF ExpireRequests
<1>2. Records(p)' = R \ Expired
  BY Numbers DEF Records, ExpireRequests
<1>3. IsFiniteSet(R) /\ Cardinality(R) \in Nat
  BY RecordsFinite
<1>4. Cardinality(R \ Expired) = Cardinality(R) - Cardinality(X)
  BY <1>3, FS_Difference
<1>5. outstanding[p] = Cardinality(R)
  BY DEF StableAt
<1>6. outstanding'[p] = Cardinality(Records(p)')
  BY <1>1, <1>2, <1>4, <1>5, Zenon
<1>7. R = {} => Records(p)' = {}
  BY <1>2
<1>8. heard' = heard /\ connected' = connected /\ we_choked' = we_choked
  BY DEF ExpireRequests
<1> QED BY <1>6, <1>7, <1>8 DEF StableAt

\* A tick asks only peers that unchoked us, hence peers that were heard, and each
\* request is counted once and recorded once.
LEMMA StableRequest ==
    ASSUME TypeOK, OutstandingWithinCap, NEW p \in Peers \ Flaky, StableAt(p),
           NEW assign \in Assignments, NEW lost, NEW broken \in SUBSET Flaky,
           RequestBlocks(assign, lost, broken)
    PROVE  StableAt(p)'
<1> DEFINE R == Records(p)
           A == AddedInThis(assign, p)
<1>1. /\ decide_block_requests(assign)
      /\ request_peer' = [b \in Blocks |-> IF assign[b] # NoPeer THEN assign[b] ELSE request_peer[b]]
      /\ outstanding'[p] = outstanding[p] + Cardinality(A)
      /\ heard' = heard /\ connected' = connected \ broken /\ we_choked' = we_choked \cup broken
  BY DEF RequestBlocks, OnBrokenConnection
<1>2. connected \subseteq Peers
  BY Numbers DEF TypeOK, Peers
<1>3. ASSUME NEW b \in Blocks, assign[b] # NoPeer
      PROVE  request_peer[b] = NoPeer /\ assign[b] \in connected \ we_choked
  <2>1. b \in Wanted /\ assign[b] \in Eligible(assign, b)
    BY <1>1, <1>2, <1>3, Decided
  <2> QED BY <2>1 DEF Wanted, Eligible
<1>4. Records(p)' = R \cup A
  BY <1>1, <1>3, Numbers DEF Records, AddedInThis
<1>5. R \cap A = {}
  BY <1>3, Numbers DEF Records, AddedInThis
<1>6. A # {} => p \in connected \cap heard
  BY <1>3, Numbers DEF AddedInThis, StableAt
<1>7. IsFiniteSet(R) /\ IsFiniteSet(A) /\ Cardinality(R) \in Nat /\ Cardinality(A) \in Nat
  BY <1>1, RecordsFinite, AddedFits
<1>8. Cardinality(Records(p)') = Cardinality(R) + Cardinality(A)
  <2> HIDE DEF R, A
  <2>1. Cardinality(R \cup A) = Cardinality(R) + Cardinality(A) - Cardinality(R \cap A)
    BY <1>7, FS_Union
  <2>2. Cardinality(R \cap A) = 0
    BY <1>5, FS_EmptySet
  <2> QED BY <1>4, <1>7, <2>1, <2>2
<1>9. outstanding[p] = Cardinality(R)
  BY DEF StableAt
<1>10. outstanding'[p] = Cardinality(Records(p)')
  BY <1>1, <1>8, <1>9, Zenon
<1>11. p \notin connected' \cap heard' => Records(p)' = {}
  BY <1>1, <1>4, <1>6 DEF StableAt
<1>12. p \notin heard' => p \in we_choked'
  BY <1>1 DEF StableAt
<1> QED BY <1>10, <1>11, <1>12 DEF StableAt

-----------------------------------------------------------------------------
LEMMA InitStable == Init => StableInv
<1> SUFFICES ASSUME Init, NEW p \in Peers \ Flaky PROVE StableAt(p)
  BY DEF StableInv
<1>1. outstanding[p] = 0 /\ Records(p) = {} /\ p \in we_choked
  BY Numbers DEF Init, Records
<1> QED BY <1>1, FS_EmptySet DEF StableAt

LEMMA StableStep ==
    TypeOK /\ TypeOK' /\ OutstandingWithinCap /\ StableInv /\ [Next]_vars => StableInv'
<1> SUFFICES ASSUME TypeOK, TypeOK', OutstandingWithinCap, [Next]_vars,
                    NEW p \in Peers \ Flaky, StableAt(p)
             PROVE  StableAt(p)'
  BY DEF StableInv
<1> USE DEF peerVars, blockVars
<1>1. CASE Start \/ ConnectDone \/ RegisterOutgoing \/ AnnounceDone \/ AcceptNone
           \/ UNCHANGED vars
  <2>1. /\ request_peer' = request_peer /\ outstanding' = outstanding /\ heard' = heard
        /\ we_choked' = we_choked /\ connected' = connected
    BY <1>1 DEF Start, ConnectDone, RegisterOutgoing, AnnounceDone, AcceptNone, vars
  <2> QED BY <2>1, StableKept
<1>2. CASE Dies
  <2>1. /\ outstanding' = [q \in Peers |-> 0] /\ we_choked' = Peers
        /\ request_peer' = [b \in Blocks |-> NoPeer]
    BY <1>2 DEF Dies, Kill, RecvPieceCannotWrite, RecvPieceCannotMove, KillAfterWrite, ProcessGone
  <2>2. Records(p)' = {}
    BY <2>1, Numbers DEF Records
  <2> QED BY <2>1, <2>2, FS_EmptySet DEF StableAt
<1>3. ASSUME NEW q \in Peers, NEW broken \in SUBSET Flaky, ConnectOutgoing(q, broken)
      PROVE  StableAt(p)'
  <2>1. /\ request_peer' = request_peer /\ heard' = heard \cup {q}
        /\ we_choked' = we_choked \cup broken /\ connected' = (connected \cup {q}) \ broken
        /\ outstanding' = [outstanding EXCEPT ![q] = 0]
        /\ q \in connected => q \in Flaky
    BY <1>3 DEF ConnectOutgoing
  <2>2. \/ outstanding'[p] = outstanding[p]
        \/ outstanding'[p] = 0 /\ p \notin connected \cap heard
    BY <2>1 DEF TypeOK
  <2> QED BY <2>1, <2>2, StableKept
<1>4. ASSUME NEW broken \in SUBSET Flaky, AcceptIncoming(broken)
      PROVE  StableAt(p)'
  BY <1>4, StableKept DEF AcceptIncoming
<1>5. CASE PeerSends
  <2>1. PICK q \in Peers :
          \/ \E drop \in BOOLEAN : RecvChoke(q, drop)
          \/ RecvUnchoke(q)
          \/ \E pieces \in SUBSET Pieces : RecvBitfield(q, pieces)
          \/ \E i \in Pieces : RecvHave(q, i)
          \/ \E i \in Pieces : RecvRequest(q, i)
          \/ \E b \in Blocks, ok \in BOOLEAN : RecvPiece(q, b, ok)
    BY <1>5 DEF PeerSends
  <2>2. ASSUME NEW b \in Blocks, NEW ok \in BOOLEAN, RecvPiece(q, b, ok)
        PROVE  StableAt(p)'
    BY <2>2, StableAnswer DEF RecvPiece, Receive
  <2>3. CASE ~ \E b \in Blocks, ok \in BOOLEAN : RecvPiece(q, b, ok)
    <3>1. /\ request_peer' = request_peer /\ outstanding' = outstanding
          /\ heard' = heard \cup {q} /\ connected' = connected
          /\ we_choked \ {q} \subseteq we_choked'
      BY <2>1, <2>3 DEF RecvChoke, RecvUnchoke, RecvBitfield, RecvHave, RecvRequest, Receive
    <3> QED BY <3>1, StableKept
  <2> QED BY <2>2, <2>3
<1>6. ASSUME NEW broken, NEW interested, NEW sent, NEW tell,
             OnBrokenConnection(broken, interested, outstanding, sent, tell),
             request_peer' = request_peer, heard' = heard,
             broken \subseteq (connected \ heard) \cup Flaky
      PROVE  StableAt(p)'
  <2>1. \/ outstanding'[p] = outstanding[p]
        \/ outstanding'[p] = 0 /\ p \notin connected \cap heard
    BY <1>6 DEF OnBrokenConnection
  <2>2. /\ p \in connected \cap heard => p \in connected'
        /\ p \in we_choked => p \in we_choked'
    BY <1>6, Zenon DEF OnBrokenConnection
  <2> QED BY <1>6, <2>1, <2>2, StableKept
<1>7. CASE \/ \E broken \in SUBSET Flaky : ReceiveDone(broken)
           \/ \E lost \in SUBSET Flaky : \E broken \in SUBSET Flaky : BroadcastHave(lost, broken)
           \/ \E broken \in SUBSET Flaky : ServeRequests(broken)
           \/ \E silent \in SUBSET Flaky, passed \in BOOLEAN : EndTick(silent, passed)
  <2>1. request_peer' = request_peer /\ heard' = heard
    BY <1>7 DEF ReceiveDone, BroadcastHave, ServeRequests, EndTick
  <2>2. \E broken, interested, sent, tell :
           /\ OnBrokenConnection(broken, interested, outstanding, sent, tell)
           /\ broken \subseteq (connected \ heard) \cup Flaky
    BY <1>7, Zenon DEF ReceiveDone, BroadcastHave, ServeRequests, EndTick
  <2> QED BY <1>6, <2>1, <2>2
<1>8. CASE ExpireRequests
  BY <1>8, StableExpiry
<1>9. CASE ExecuteOutgoingBlockRequests
  <2>1. PICK assign \in Assignments, lost \in SUBSET Blocks, broken \in SUBSET Flaky :
          RequestBlocks(assign, lost, broken)
    BY <1>9 DEF ExecuteOutgoingBlockRequests, Lossy
  <2> QED BY <2>1, StableRequest
<1> QED BY <1>1, <1>2, <1>3, <1>4, <1>5, <1>7, <1>8, <1>9 DEF Next

\* For a peer whose connection is neither broken nor replaced, the counter is exactly
\* the number of records that name the peer, through answers, late answers, expiry
\* and renewed requests in any order.
THEOREM CounterExactForStable == Spec => []ExactForStable
<1> StableInv => ExactForStable
  BY DEF StableInv, StableAt, ExactForStable
<1> QED BY InitStable, StableStep, TypeCorrect, LimitKept, PTL DEF Spec
=============================================================================
