-------------------------- MODULE ConnectionsProofs --------------------------
(***************************************************************************)
(* Theorems about Connections, for any number of peers, any limits and any   *)
(* behaviour of the helper threads.                                         *)
(***************************************************************************)
EXTENDS Connections, TLAPS

\* A sequence over a set is one over any larger set.
LEMMA SeqOverLarger ==
    ASSUME NEW S, NEW T, S \subseteq T, NEW s \in Seq(S)
    PROVE  s \in Seq(T)
OBVIOUS

LEMMA InitTypes == Init => TypeOK
<1> SUFFICES ASSUME Init PROVE TypeOK
  OBVIOUS
<1>1. PeersOK
  BY SizeAssumption DEF Init, PeersOK
<1>2. TimesOK
  BY TimeAssumption DEF Init, TimesOK
<1>3. ChannelsOK
  BY SizeAssumption DEF Init, ChannelsOK
<1> QED BY <1>1, <1>2, <1>3 DEF Init, TypeOK, Phases

-----------------------------------------------------------------------------
(***************************************************************************)
(* The vector of peers.                                                     *)
(***************************************************************************)
LEMMA HeadIsOutgoing ==
    ASSUME ChannelsOK, responses # << >>
    PROVE  Head(responses).peer \in outgoing
<1>1. Head(responses) \in Responses(outgoing)
  BY DEF ChannelsOK
<1> QED BY <1>1 DEF Responses

\* Every step of the main loop keeps streams, marks and loops within the vector.
LEMMA LoopPeers ==
    ASSUME TypeOK, MainLoop
    PROVE  PeersOK'
<1> USE SizeAssumption DEF PeersOK, Peers
<1> PeersOK /\ ChannelsOK
  BY DEF TypeOK
<1>1. CASE CheckWithTracker \/ TrackerNotDue \/ CheckFails
  BY <1>1 DEF CheckWithTracker, TrackerNotDue, CheckFails, peerVars
<1>2. ASSUME NEW broken \in BOOLEAN, ProcessNewConnection(broken)
      PROVE  PeersOK'
  <2>1. Head(responses).peer \in outgoing
    BY <1>2, HeadIsOutgoing DEF ProcessNewConnection
  <2> QED BY <1>2, <2>1 DEF ProcessNewConnection, TakeUp
<1>3. CASE ProcessConnectionError
  BY <1>3 DEF ProcessConnectionError
<1>4. CASE ConnectDone \/ ProcessAnnouncementError \/ AnnounceDone \/ AskDone \/ AskFails
             \/ AcceptNone \/ ReconnectDone
  BY <1>4 DEF ConnectDone, ProcessAnnouncementError, AnnounceDone, AskDone, AskFails,
              AcceptNone, ReconnectDone, peerVars
<1>5. ASSUME NEW n \in 0 .. NumPeers, ProcessAnnouncement(n)
      PROVE  PeersOK'
  BY <1>5 DEF ProcessAnnouncement, Missing
<1>6. ASSUME NEW p \in Peers, AskForConnection(p) \/ RequestReconnect(p)
      PROVE  PeersOK'
  BY <1>6 DEF AskForConnection, RequestReconnect, NextTodo
<1>7. ASSUME NEW broken \in BOOLEAN, AcceptIncoming(broken)
      PROVE  PeersOK'
  BY <1>7 DEF AcceptIncoming
<1>8. ASSUME NEW p \in Peers, NEW last \in BOOLEAN, ReceiveMessage(p, last)
      PROVE  PeersOK'
  BY <1>8 DEF ReceiveMessage
<1>9. ASSUME NEW broken \in SUBSET connected, ReceiveDone(broken) \/ Send(broken)
      PROVE  PeersOK'
  BY <1>9 DEF ReceiveDone, Send
<1>10. CASE ResetInactive
  BY <1>10 DEF ResetInactive
<1>11. CASE DecideReconnect
  BY <1>11 DEF DecideReconnect, decide_peers_to_reconnect, peerVars
<1>12. ASSUME NEW passed \in BOOLEAN, Sleep(passed)
       PROVE  PeersOK'
  BY <1>12 DEF Sleep
<1> QED BY <1>1, <1>2, <1>3, <1>4, <1>5, <1>6, <1>7, <1>8, <1>9, <1>10, <1>11, <1>12
        DEF MainLoop

-----------------------------------------------------------------------------
(***************************************************************************)
(* Times and attempts.                                                      *)
(***************************************************************************)
LEMMA OlderBounded ==
    ASSUME NEW limit \in Nat, NEW t \in 0 .. limit
    PROVE  Older(t, limit) \in 0 .. limit
BY DEF Older

\* Only a peer with attempts left is in the list of a reconnecting loop.
LEMMA LoopTimes ==
    ASSUME TypeOK, MainLoop
    PROVE  TimesOK'
<1> USE TimeAssumption DEF TimesOK, Peers
<1> TimesOK /\ PeersOK /\ ChannelsOK
  BY DEF TypeOK
<1>1. CASE CheckWithTracker \/ TrackerNotDue \/ CheckFails
  BY <1>1 DEF CheckWithTracker, TrackerNotDue, CheckFails, peerVars, trackerVars
<1>2. ASSUME NEW broken \in BOOLEAN, ProcessNewConnection(broken)
      PROVE  TimesOK'
  <2> DEFINE p == Head(responses).peer
  <2>1. /\ TakeUp(p, broken) /\ phase' = "connect"
        /\ UNCHANGED << todo, attempts, since, tracker_age >>
    BY <1>2 DEF ProcessNewConnection, trackerVars
  <2> HIDE DEF p
  <2>2. /\ quiet' = [quiet EXCEPT ![p] = 0]
        /\ age' = [age EXCEPT ![p] = 0]
    BY <2>1 DEF TakeUp
  <2>3. 0 \in 0 .. InactivityTimeout + 1
    OBVIOUS
  <2>4. /\ quiet' \in [Peers -> 0 .. InactivityTimeout + 1]
        /\ age' \in [Peers -> 0 .. InactivityTimeout + 1]
    BY <2>2, <2>3
  <2> QED BY <2>1, <2>4
<1>3. CASE ProcessConnectionError \/ ConnectDone \/ ProcessAnnouncementError \/ AnnounceDone
             \/ AskDone \/ AskFails \/ AcceptNone \/ ReconnectDone
  BY <1>3 DEF ProcessConnectionError, ConnectDone, ProcessAnnouncementError, AnnounceDone,
              AskDone, AskFails, AcceptNone, ReconnectDone, peerVars, trackerVars
<1>4. ASSUME NEW n \in 0 .. NumPeers, ProcessAnnouncement(n)
      PROVE  TimesOK'
  BY <1>4 DEF ProcessAnnouncement
<1>5. ASSUME NEW p \in Peers, AskForConnection(p)
      PROVE  TimesOK'
  BY <1>5 DEF AskForConnection, trackerVars
<1>6. ASSUME NEW p \in Peers, RequestReconnect(p)
      PROVE  TimesOK'
  BY <1>6 DEF RequestReconnect, NextTodo, trackerVars
<1>7. ASSUME NEW broken \in BOOLEAN, AcceptIncoming(broken)
      PROVE  TimesOK'
  BY <1>7 DEF AcceptIncoming, trackerVars
<1>8. ASSUME NEW p \in Peers, NEW last \in BOOLEAN, ReceiveMessage(p, last)
      PROVE  TimesOK'
  BY <1>8 DEF ReceiveMessage, trackerVars
<1>9. ASSUME NEW broken \in SUBSET connected, ReceiveDone(broken) \/ Send(broken)
      PROVE  TimesOK'
  BY <1>9 DEF ReceiveDone, Send, trackerVars
<1>10. CASE ResetInactive
  BY <1>10 DEF ResetInactive, trackerVars
<1>11. CASE DecideReconnect
  BY <1>11 DEF DecideReconnect, decide_peers_to_reconnect, peerVars, trackerVars
<1>12. ASSUME NEW passed \in BOOLEAN, Sleep(passed)
       PROVE  TimesOK'
  <2>1. attempts' = attempts /\ phase' = "tracker"
    BY <1>12 DEF Sleep
  <2>2. CASE passed
    <3>1. /\ since' = [p \in Peers |-> Older(since[p], MinInterval)]
          /\ quiet' = [p \in Peers |-> Older(quiet[p], InactivityTimeout + 1)]
          /\ age' = [p \in Peers |-> IF p \in connected THEN Older(age[p], InactivityTimeout + 1)
                                                       ELSE 0]
          /\ tracker_age' = Older(tracker_age, TrackerInterval)
      BY <1>12, <2>2 DEF Sleep
    <3>2. InactivityTimeout + 1 \in Nat
      OBVIOUS
    <3>3. since' \in [Peers -> 0 .. MinInterval]
      BY <3>1, OlderBounded
    <3>4. quiet' \in [Peers -> 0 .. InactivityTimeout + 1]
      BY <3>1, <3>2, OlderBounded
    <3>5. age' \in [Peers -> 0 .. InactivityTimeout + 1]
      <4>1. \A p \in Peers : Older(age[p], InactivityTimeout + 1) \in 0 .. InactivityTimeout + 1
        BY <3>2, OlderBounded
      <4>2. 0 \in 0 .. InactivityTimeout + 1
        OBVIOUS
      <4> QED BY <3>1, <4>1, <4>2
    <3>6. tracker_age' \in 0 .. TrackerInterval
      BY <3>1, OlderBounded
    <3> QED BY <2>1, <3>3, <3>4, <3>5, <3>6
  <2>3. CASE ~passed
    BY <1>12, <2>1, <2>3 DEF Sleep
  <2> QED BY <2>2, <2>3
<1> QED BY <1>1, <1>2, <1>3, <1>4, <1>5, <1>6, <1>7, <1>8, <1>9, <1>10, <1>11, <1>12
        DEF MainLoop

-----------------------------------------------------------------------------
(***************************************************************************)
(* The channels.  Appending keeps a channel over the peers that have an      *)
(* address, taking the head off does, and peers are only ever added.         *)
(***************************************************************************)
LEMMA TailOver ==
    ASSUME NEW S, NEW s \in Seq(S), s # << >>
    PROVE  /\ Tail(s) \in Seq(S) /\ Len(Tail(s)) = Len(s) - 1
           /\ Head(s) \in S
OBVIOUS

LEMMA AppendOver ==
    ASSUME NEW S, NEW s \in Seq(S), NEW e \in S
    PROVE  Append(s, e) \in Seq(S) /\ Len(Append(s, e)) = Len(s) + 1
OBVIOUS

LEMMA LoopChannels ==
    ASSUME TypeOK, MainLoop
    PROVE  ChannelsOK'
<1> USE SizeAssumption DEF ChannelsOK, Outcomes
<1> PeersOK /\ ChannelsOK
  BY DEF TypeOK
<1>1. CASE CheckWithTracker
  <2>1. Len(announcements) \in Nat
    OBVIOUS
  <2> QED BY <1>1, <2>1 DEF CheckWithTracker, peerVars, connVars
<1>2. CASE TrackerNotDue \/ CheckFails \/ ConnectDone \/ AnnounceDone \/ AskDone \/ AskFails
             \/ AcceptNone \/ ReconnectDone
  BY <1>2 DEF TrackerNotDue, CheckFails, ConnectDone, AnnounceDone, AskDone, AskFails,
              AcceptNone, ReconnectDone, peerVars, trackerVars, connVars
<1>3. ASSUME NEW broken \in BOOLEAN, ProcessNewConnection(broken)
      PROVE  ChannelsOK'
  BY <1>3, TailOver DEF ProcessNewConnection, trackerVars
<1>4. CASE ProcessConnectionError
  BY <1>4, TailOver DEF ProcessConnectionError, trackerVars
<1>5. ASSUME NEW n \in 0 .. NumPeers, ProcessAnnouncement(n)
      PROVE  ChannelsOK'
  <2>1. outgoing \subseteq outgoing' /\ requests' = requests /\ responses' = responses
    BY <1>5 DEF ProcessAnnouncement, connVars
  <2>2. Responses(outgoing) \subseteq Responses(outgoing')
    BY <2>1 DEF Responses
  <2>3. requests' \in Seq(outgoing') /\ responses' \in Seq(Responses(outgoing'))
    BY <2>1, <2>2, SeqOverLarger
  <2>4. announcements' \in Seq(Outcomes) /\ Len(announcements') = Len(announcements) - 1
    BY <1>5, TailOver DEF ProcessAnnouncement
  <2> QED BY <1>5, <2>3, <2>4 DEF ProcessAnnouncement
<1>6. CASE ProcessAnnouncementError
  <2>1. announcements' \in Seq(Outcomes) /\ Len(announcements') = Len(announcements) - 1
    BY <1>6, TailOver DEF ProcessAnnouncementError
  <2> QED BY <1>6, <2>1 DEF ProcessAnnouncementError, peerVars, connVars
<1>7. ASSUME NEW p \in Peers, AskForConnection(p) \/ RequestReconnect(p)
      PROVE  ChannelsOK'
  <2>1. p \in outgoing /\ requests' = Append(requests, p)
    BY <1>7 DEF PeersOK, AskForConnection, RequestReconnect, NextTodo
  <2> QED BY <1>7, <2>1, AppendOver DEF AskForConnection, RequestReconnect, trackerVars
<1>8. ASSUME NEW broken \in BOOLEAN, AcceptIncoming(broken)
      PROVE  ChannelsOK'
  BY <1>8 DEF AcceptIncoming, trackerVars, connVars
<1>9. ASSUME NEW p \in Peers, NEW last \in BOOLEAN, ReceiveMessage(p, last)
      PROVE  ChannelsOK'
  BY <1>9 DEF ReceiveMessage, trackerVars, connVars
<1>10. ASSUME NEW broken \in SUBSET connected, ReceiveDone(broken) \/ Send(broken)
       PROVE  ChannelsOK'
  BY <1>10 DEF ReceiveDone, Send, trackerVars, connVars
<1>11. CASE ResetInactive
  BY <1>11 DEF ResetInactive, trackerVars, connVars
<1>12. CASE DecideReconnect
  BY <1>12 DEF DecideReconnect, peerVars, trackerVars, connVars
<1>13. ASSUME NEW passed \in BOOLEAN, Sleep(passed)
       PROVE  ChannelsOK'
  BY <1>13 DEF Sleep, connVars
<1> QED BY <1>1, <1>2, <1>3, <1>4, <1>5, <1>6, <1>7, <1>8, <1>9, <1>10, <1>11, <1>12, <1>13
        DEF MainLoop

\* The phase of the main loop and the life of the threads.
LEMMA LoopControl ==
    ASSUME TypeOK, MainLoop
    PROVE  /\ phase' \in Phases
           /\ downloaded' \in BOOLEAN /\ UNCHANGED << connector, tracker >>
<1> USE DEF Phases, trackerVars, connVars
<1>1. UNCHANGED << connector, tracker >>
  BY DEF MainLoop, CheckWithTracker, TrackerNotDue, CheckFails, ProcessNewConnection,
         ProcessConnectionError, ConnectDone, ProcessAnnouncement, ProcessAnnouncementError,
         AnnounceDone, AskForConnection, AskDone, AskFails, AcceptIncoming, AcceptNone,
         ReceiveMessage, ReceiveDone, Send, ResetInactive, DecideReconnect, RequestReconnect,
         ReconnectDone, Sleep
<1>2. phase' \in Phases
  BY DEF TypeOK, MainLoop, CheckWithTracker, TrackerNotDue, CheckFails, ProcessNewConnection,
         ProcessConnectionError, ConnectDone, ProcessAnnouncement, ProcessAnnouncementError,
         AnnounceDone, AskForConnection, AskDone, AskFails, AcceptIncoming, AcceptNone,
         ReceiveMessage, ReceiveDone, Send, ResetInactive, DecideReconnect, RequestReconnect,
         ReconnectDone, Sleep
<1>3. downloaded' \in BOOLEAN
  BY DEF TypeOK, MainLoop, CheckWithTracker, TrackerNotDue, CheckFails, ProcessNewConnection,
         ProcessConnectionError, ConnectDone, ProcessAnnouncement, ProcessAnnouncementError,
         AnnounceDone, AskForConnection, AskDone, AskFails, AcceptIncoming, AcceptNone,
         ReceiveMessage, ReceiveDone, Send, ResetInactive, DecideReconnect, RequestReconnect,
         ReconnectDone, Sleep
<1> QED BY <1>1, <1>2, <1>3

\* The helper threads change nothing but the channels and their own life.
LEMMA HelpersTypes ==
    ASSUME TypeOK, Helpers
    PROVE  TypeOK'
<1> USE SizeAssumption
<1> ChannelsOK
  BY DEF TypeOK
<1>1. UNCHANGED << phase, todo, registered, peerVars, downloaded, tracker_age >>
  BY DEF Helpers, ConnectorAnswers, ConnectorDies, TrackerAnswers, TrackerDies, trackerVars
<1>2. connector' \in BOOLEAN /\ tracker' \in BOOLEAN
  BY DEF TypeOK, Helpers, ConnectorAnswers, ConnectorDies, TrackerAnswers, TrackerDies,
         trackerVars, connVars
<1>3. PeersOK' /\ TimesOK'
  BY <1>1 DEF TypeOK, PeersOK, TimesOK, peerVars
<1>4. ChannelsOK'
  <2>1. ASSUME NEW p \in Peers, NEW result \in Outcomes, ConnectorAnswers(p, result)
        PROVE  ChannelsOK'
    <3>1. [peer |-> p, result |-> result] \in Responses(outgoing)
      BY <2>1, TailOver DEF ConnectorAnswers, ChannelsOK, Responses
    <3> QED BY <1>1, <2>1, <3>1, TailOver, AppendOver
            DEF ConnectorAnswers, ChannelsOK, trackerVars, peerVars
  <2>2. CASE ConnectorDies
    BY <1>1, <2>2 DEF ConnectorDies, ChannelsOK, trackerVars, peerVars
  <2>3. ASSUME NEW result \in Outcomes, TrackerAnswers(result)
        PROVE  ChannelsOK'
    <3>1. /\ announcements' \in Seq(Outcomes)
          /\ Len(announcements') = Len(announcements) + 1
      BY <2>3, AppendOver DEF TrackerAnswers, ChannelsOK
    <3> QED BY <1>1, <2>3, <3>1 DEF TrackerAnswers, ChannelsOK, connVars, peerVars
  <2>4. CASE TrackerDies
    BY <1>1, <2>4 DEF TrackerDies, ChannelsOK, connVars, peerVars
  <2> QED BY <2>1, <2>2, <2>3, <2>4 DEF Helpers
<1> QED BY <1>1, <1>2, <1>3, <1>4 DEF TypeOK

LEMMA StutterTypes ==
    ASSUME TypeOK, UNCHANGED vars
    PROVE  TypeOK'
BY DEF TypeOK, PeersOK, TimesOK, ChannelsOK, vars, peerVars, trackerVars, connVars

LEMMA StepTypes ==
    ASSUME TypeOK, [Next]_vars
    PROVE  TypeOK'
<1>1. CASE MainLoop
  <2>1. phase' \in Phases /\ downloaded' \in BOOLEAN /\ UNCHANGED << connector, tracker >>
    BY <1>1, LoopControl
  <2>2. PeersOK' /\ TimesOK' /\ ChannelsOK'
    BY <1>1, LoopPeers, LoopTimes, LoopChannels
  <2> QED BY <2>1, <2>2 DEF TypeOK
<1>2. CASE Helpers
  BY <1>2, HelpersTypes
<1>3. CASE UNCHANGED vars
  BY <1>3, StutterTypes
<1> QED BY <1>1, <1>2, <1>3 DEF Next, Stopped

\* Every reachable state is well typed; in particular a late or doubled response never
\* names an entry of the vector that does not exist or has no address.
THEOREM ConnectionsTyped == Spec => []TypeOK
<1>1. TypeOK /\ [Next]_vars => TypeOK'
  BY StepTypes
<1> QED BY InitTypes, <1>1, PTL DEF Spec

-----------------------------------------------------------------------------
(***************************************************************************)
(* Marked peers are attended to.                                            *)
(***************************************************************************)
LEMMA MovesToResponses ==
    ASSUME ChannelsOK, NEW q \in Peers, NEW p \in Peers, NEW result \in Outcomes,
           ConnectorAnswers(q, result), InRequests(p) \/ InResponses(p)
    PROVE  (InRequests(p) \/ InResponses(p))'
<1>1. /\ requests' = Tail(requests) /\ q = Head(requests) /\ requests # << >>
      /\ responses' = Append(responses, [peer |-> q, result |-> result])
  BY DEF ConnectorAnswers
<1>2. responses \in Seq(Responses(outgoing)) /\ requests \in Seq(outgoing)
  BY DEF ChannelsOK
<1>3. CASE p = q
  <2>1. /\ Len(responses') = Len(responses) + 1 /\ Len(responses) \in Nat
        /\ responses'[Len(responses) + 1] = [peer |-> q, result |-> result]
    BY <1>1, <1>2
  <2> QED BY <1>3, <2>1 DEF InResponses
<1>4. CASE p # q /\ InRequests(p)
  <2>1. PICK i \in 1 .. Len(requests) : requests[i] = p
    BY <1>4 DEF InRequests
  <2>2. i # 1
    BY <1>1, <1>2, <1>4, <2>1
  <2>3. i - 1 \in 1 .. Len(requests') /\ requests'[i - 1] = p
    BY <1>1, <1>2, <2>1, <2>2
  <2> QED BY <2>3 DEF InRequests
<1>5. CASE InResponses(p)
  <2>1. PICK i \in 1 .. Len(responses) : responses[i].peer = p
    BY <1>5 DEF InResponses
  <2>2. i \in 1 .. Len(responses') /\ responses'[i] = responses[i]
    BY <1>1, <1>2, <2>1
  <2> QED BY <2>1, <2>2 DEF InResponses
<1> QED BY <1>3, <1>4, <1>5

\* Taking a response off the channel leaves those for other peers.
LEMMA OthersStay ==
    ASSUME ChannelsOK, responses # << >>, responses' = Tail(responses),
           NEW p \in Peers, p # Head(responses).peer, InResponses(p)
    PROVE  InResponses(p)'
<1>1. responses \in Seq(Responses(outgoing))
  BY DEF ChannelsOK
<1>2. PICK i \in 1 .. Len(responses) : responses[i].peer = p
  BY DEF InResponses
<1>3. i # 1
  BY <1>1, <1>2
<1>4. i - 1 \in 1 .. Len(responses') /\ responses'[i - 1] = responses[i]
  BY <1>1, <1>2, <1>3
<1> QED BY <1>2, <1>4 DEF InResponses

LEMMA AskedIsQueued ==
    ASSUME ChannelsOK, NEW q \in outgoing, requests' = Append(requests, q),
           UNCHANGED responses, NEW p, p = q \/ InRequests(p) \/ InResponses(p)
    PROVE  (InRequests(p) \/ InResponses(p))'
<1>1. requests \in Seq(outgoing)
  BY DEF ChannelsOK
<1>2. /\ Len(requests') = Len(requests) + 1 /\ Len(requests) \in Nat
      /\ requests'[Len(requests) + 1] = q
      /\ \A i \in 1 .. Len(requests) : requests'[i] = requests[i]
  BY <1>1
<1>3. CASE p = q
  BY <1>2, <1>3 DEF InRequests
<1>4. CASE InRequests(p)
  BY <1>2, <1>4 DEF InRequests
<1>5. CASE InResponses(p)
  BY <1>5 DEF InResponses
<1> QED BY <1>3, <1>4, <1>5

LEMMA PipelineStep ==
    ASSUME TypeOK, PipelineSound, [Next]_vars
    PROVE  PipelineSound'
<1> SUFFICES ASSUME connector', NEW p \in being_connected'
             PROVE  (InRequests(p) \/ InResponses(p))'
  BY DEF PipelineSound
<1> PeersOK /\ ChannelsOK
  BY DEF TypeOK
<1>0. \A q \in outgoing : q \in Peers
  BY SizeAssumption DEF PeersOK, Peers
<1>1. ASSUME UNCHANGED << being_connected, requests, responses >>, connector
      PROVE  (InRequests(p) \/ InResponses(p))'
  BY <1>1 DEF PipelineSound, InRequests, InResponses
<1>2. ASSUME NEW broken \in BOOLEAN, ProcessNewConnection(broken) \/ ProcessConnectionError
      PROVE  (InRequests(p) \/ InResponses(p))'
  <2>1. /\ being_connected' = being_connected \ {Head(responses).peer}
        /\ responses # << >> /\ responses' = Tail(responses)
        /\ UNCHANGED << requests, connector >>
    BY <1>2 DEF ProcessNewConnection, ProcessConnectionError, TakeUp
  <2>2. p \in Peers /\ p # Head(responses).peer /\ (InRequests(p) \/ InResponses(p))
    BY <1>0, <2>1 DEF PipelineSound, PeersOK
  <2> QED BY <2>1, <2>2, OthersStay DEF InRequests
<1>3. ASSUME NEW q \in Peers, AskForConnection(q) \/ RequestReconnect(q)
      PROVE  (InRequests(p) \/ InResponses(p))'
  <2>1. /\ being_connected' = being_connected \cup {q} /\ q \in outgoing
        /\ requests' = Append(requests, q) /\ UNCHANGED responses /\ connector
    BY <1>3 DEF AskForConnection, RequestReconnect, NextTodo, PeersOK
  <2> QED BY <2>1, AskedIsQueued DEF PipelineSound
<1>4. CASE MainLoop
  <2>1. connector
    BY <1>4, LoopControl
  <2>2. CASE UNCHANGED << being_connected, requests, responses >>
    BY <1>1, <2>1, <2>2
  <2>3. \/ UNCHANGED << being_connected, requests, responses >>
        \/ \E broken \in BOOLEAN : ProcessNewConnection(broken) \/ ProcessConnectionError
        \/ \E q \in Peers : AskForConnection(q) \/ RequestReconnect(q)
    BY <1>4 DEF MainLoop, CheckWithTracker, TrackerNotDue, CheckFails, ConnectDone,
           ProcessAnnouncement, ProcessAnnouncementError, AnnounceDone, AskDone, AskFails,
           AcceptIncoming, AcceptNone, ReceiveMessage, ReceiveDone, Send, ResetInactive,
           DecideReconnect, ReconnectDone, Sleep, peerVars, connVars
  <2> QED BY <1>2, <1>3, <2>2, <2>3
<1>5. CASE Helpers
  <2>1. ASSUME NEW q \in Peers, NEW result \in Outcomes, ConnectorAnswers(q, result)
        PROVE  (InRequests(p) \/ InResponses(p))'
    <3>1. connector /\ being_connected' = being_connected
      BY <2>1 DEF ConnectorAnswers, peerVars
    <3> QED BY <1>0, <2>1, <3>1, MovesToResponses DEF PipelineSound, PeersOK
  <2>2. ASSUME ConnectorDies
        PROVE  FALSE
    BY <2>2 DEF ConnectorDies
  <2>3. CASE TrackerDies \/ \E result \in Outcomes : TrackerAnswers(result)
    BY <1>1, <2>3 DEF TrackerDies, TrackerAnswers, peerVars, connVars
  <2> QED BY <1>5, <2>1, <2>2, <2>3 DEF Helpers
<1>6. CASE UNCHANGED vars
  BY <1>1, <1>6 DEF vars, peerVars, connVars
<1> QED BY <1>4, <1>5, <1>6 DEF Next, Stopped

\* While the connector thread lives, every peer marked being_connected has a request or
\* a response under way, so reconnection to it is never switched off for good.
THEOREM MarkedPeersAttended == Spec => []PipelineSound
<1>1. Init => PipelineSound
  BY DEF Init, PipelineSound
<1>2. TypeOK /\ PipelineSound /\ [Next]_vars => PipelineSound'
  BY PipelineStep
<1> QED BY <1>1, <1>2, ConnectionsTyped, PTL DEF Spec

-----------------------------------------------------------------------------
(***************************************************************************)
(* Outgoing connections get the whole timeout.                              *)
(***************************************************************************)
\* Nothing was heard on an outgoing connection at most since it was taken up.
QuietSinceTakenUp == \A p \in outgoing \cap connected : quiet[p] <= age[p]

LEMMA OlderMonotonic ==
    ASSUME NEW limit \in Nat, NEW s \in 0 .. limit, NEW t \in 0 .. limit, s <= t
    PROVE  Older(s, limit) <= Older(t, limit)
BY DEF Older

LEMMA QuietStep ==
    ASSUME TypeOK, QuietSinceTakenUp, [Next]_vars
    PROVE  QuietSinceTakenUp'
<1> PeersOK /\ TimesOK /\ ChannelsOK
  BY DEF TypeOK
<1>0. \A p \in Peers : quiet[p] \in 0 .. InactivityTimeout + 1 /\ age[p] \in 0 .. InactivityTimeout + 1
  BY DEF TimesOK
<1>1. outgoing \subseteq Peers
  BY SizeAssumption DEF PeersOK, Peers
<1>2. ASSUME UNCHANGED << outgoing, quiet, age >>, connected' \subseteq connected
      PROVE  QuietSinceTakenUp'
  BY <1>2 DEF QuietSinceTakenUp
<1>3. ASSUME NEW broken \in BOOLEAN, ProcessNewConnection(broken)
      PROVE  QuietSinceTakenUp'
  <2> DEFINE q == Head(responses).peer
  <2>1. q \in outgoing
    BY <1>3, HeadIsOutgoing DEF ProcessNewConnection
  <2>2. /\ connected' \subseteq connected \cup {q} /\ outgoing' = outgoing
        /\ quiet' = [quiet EXCEPT ![q] = 0] /\ age' = [age EXCEPT ![q] = 0]
    BY <1>3 DEF ProcessNewConnection, TakeUp
  <2> HIDE DEF q
  <2>3. ASSUME NEW p \in outgoing' \cap connected'
        PROVE  quiet'[p] <= age'[p]
    <3>1. CASE p = q
      BY <1>1, <2>1, <2>2, <3>1 DEF TimesOK
    <3>2. CASE p # q
      BY <1>1, <2>2, <2>3, <3>2 DEF QuietSinceTakenUp, TimesOK
    <3> QED BY <3>1, <3>2
  <2> QED BY <2>3 DEF QuietSinceTakenUp
<1>4. ASSUME NEW n \in 0 .. NumPeers, ProcessAnnouncement(n)
      PROVE  QuietSinceTakenUp'
  <2>1. /\ outgoing' = outgoing \cup (registered + 1) .. (registered + n)
        /\ UNCHANGED << connected, quiet, age >>
    BY <1>4 DEF ProcessAnnouncement
  <2>2. outgoing' \cap connected' \subseteq outgoing
    BY <2>1 DEF PeersOK
  <2> QED BY <2>1, <2>2 DEF QuietSinceTakenUp
<1>5. ASSUME NEW broken \in BOOLEAN, AcceptIncoming(broken)
      PROVE  QuietSinceTakenUp'
  <2>1. /\ connected' \subseteq connected \cup {registered + 1}
        /\ UNCHANGED << outgoing, quiet, age >>
    BY <1>5 DEF AcceptIncoming
  <2>2. outgoing' \cap connected' \subseteq connected
    BY <2>1 DEF PeersOK
  <2> QED BY <2>1, <2>2 DEF QuietSinceTakenUp
<1>6. ASSUME NEW q \in Peers, NEW last \in BOOLEAN, ReceiveMessage(q, last)
      PROVE  QuietSinceTakenUp'
  <2>1. quiet' = [quiet EXCEPT ![q] = 0] /\ UNCHANGED << outgoing, connected, age >>
    BY <1>6 DEF ReceiveMessage
  <2>2. ASSUME NEW p \in outgoing \cap connected
        PROVE  quiet'[p] <= age[p]
    BY <1>0, <1>1, <2>1 DEF QuietSinceTakenUp, TimesOK
  <2> QED BY <2>1, <2>2 DEF QuietSinceTakenUp
<1>7. ASSUME NEW passed \in BOOLEAN, Sleep(passed)
      PROVE  QuietSinceTakenUp'
  <2>1. CASE ~passed
    BY <1>2, <1>7, <2>1 DEF Sleep
  <2>2. CASE passed
    <3>1. /\ quiet' = [p \in Peers |-> Older(quiet[p], InactivityTimeout + 1)]
          /\ age' = [p \in Peers |-> IF p \in connected THEN Older(age[p], InactivityTimeout + 1)
                                                       ELSE 0]
          /\ UNCHANGED << outgoing, connected >>
      BY <1>7, <2>2 DEF Sleep
    <3>2. ASSUME NEW p \in outgoing \cap connected
          PROVE  quiet'[p] <= age'[p]
      <4>1. quiet'[p] = Older(quiet[p], InactivityTimeout + 1)
            /\ age'[p] = Older(age[p], InactivityTimeout + 1)
        BY <1>1, <3>1
      <4>2. InactivityTimeout + 1 \in Nat /\ quiet[p] <= age[p]
        BY TimeAssumption DEF QuietSinceTakenUp
      <4>3. quiet[p] \in 0 .. InactivityTimeout + 1 /\ age[p] \in 0 .. InactivityTimeout + 1
        BY <1>0, <1>1
      <4> QED BY <4>1, <4>2, <4>3, OlderMonotonic
    <3> QED BY <3>1, <3>2 DEF QuietSinceTakenUp
  <2> QED BY <2>1, <2>2
<1>8. CASE MainLoop
  <2>1. \/ UNCHANGED << outgoing, quiet, age >> /\ connected' \subseteq connected
        \/ \E broken \in BOOLEAN : ProcessNewConnection(broken) \/ AcceptIncoming(broken)
        \/ \E n \in 0 .. NumPeers : ProcessAnnouncement(n)
        \/ \E p \in Peers, last \in BOOLEAN : ReceiveMessage(p, last)
        \/ \E passed \in BOOLEAN : Sleep(passed)
    BY <1>8 DEF MainLoop, CheckWithTracker, TrackerNotDue, CheckFails, ProcessConnectionError,
           ConnectDone, ProcessAnnouncementError, AnnounceDone, AskForConnection, AskDone,
           AskFails, AcceptNone, ReceiveDone, Send, ResetInactive, DecideReconnect,
           RequestReconnect, ReconnectDone, peerVars
  <2> QED BY <1>2, <1>3, <1>4, <1>5, <1>6, <1>7, <2>1
<1>9. CASE Helpers
  BY <1>2, <1>9 DEF Helpers, ConnectorAnswers, ConnectorDies, TrackerAnswers, TrackerDies, peerVars
<1>10. CASE UNCHANGED vars
  BY <1>2, <1>10 DEF vars, peerVars
<1> QED BY <1>8, <1>9, <1>10 DEF Next, Stopped

\* Only reset_inactive_connections takes streams away in its phase.
LEMMA ResetStep ==
    ASSUME TypeOK, QuietSinceTakenUp, [Next]_vars,
           NEW p \in outgoing, phase = "reset", p \in connected \ connected'
    PROVE  age[p] > InactivityTimeout
<1>1. ResetInactive
  BY DEF Next, Stopped, MainLoop, Helpers, vars, peerVars, CheckWithTracker, TrackerNotDue,
         CheckFails, ProcessNewConnection, ProcessConnectionError, ConnectDone,
         ProcessAnnouncement, ProcessAnnouncementError, AnnounceDone, AskForConnection,
         AskDone, AskFails, AcceptIncoming, AcceptNone, ReceiveMessage, ReceiveDone, Send,
         DecideReconnect, RequestReconnect, ReconnectDone, Sleep, ConnectorAnswers,
         ConnectorDies, TrackerAnswers, TrackerDies
<1>2. quiet[p] > InactivityTimeout
  BY <1>1 DEF ResetInactive, Inactive
<1>3. quiet[p] <= age[p] /\ quiet[p] \in Int /\ age[p] \in Int
  <2>1. p \in Peers
    BY SizeAssumption DEF TypeOK, PeersOK, Peers
  <2> QED BY <2>1 DEF QuietSinceTakenUp, TypeOK, TimesOK
<1> QED BY <1>2, <1>3, TimeAssumption

\* An outgoing connection is reset as inactive only when it is older than
\* INACTIVITY_TIMEOUT, whatever happened on the peer's connections before.
THEOREM OutgoingNotResetEarly == Spec => OutgoingGetTimeout
<1>1. Init => QuietSinceTakenUp
  BY DEF Init, QuietSinceTakenUp
<1>2. TypeOK /\ QuietSinceTakenUp /\ [Next]_vars => QuietSinceTakenUp'
  BY QuietStep
<1>3. TypeOK /\ QuietSinceTakenUp /\ [Next]_vars
        => [\A p \in outgoing : phase = "reset" /\ p \in connected \ connected'
                                  => age[p] > InactivityTimeout]_vars
  BY ResetStep
<1> QED BY <1>1, <1>2, <1>3, ConnectionsTyped, PTL DEF Spec, OutgoingGetTimeout
=============================================================================
