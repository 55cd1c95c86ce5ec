---------------------------- MODULE Connections ----------------------------
(***************************************************************************)
(* How one download comes by its connections: the vector of peers, the main *)
(* loop (main_loop.rs, decider.rs), the connector thread                     *)
(* (outgoing_connections.rs), the tracker thread (announcement.rs) and the   *)
(* four channels between them.                                              *)
(*                                                                         *)
(* The two helpers run beside the main loop: each takes the head of its      *)
(* request channel, works on it for as long as it likes and appends an       *)
(* answer.  A helper that panics drops its end of the channel, and what was  *)
(* queued is lost.  Times are ages, which grow when the main loop sleeps.    *)
(***************************************************************************)
EXTENDS Integers, Sequences

CONSTANTS
    NumPeers,          \* how many peers ever enter the vector Download::peers
    BadAddress,        \* peers whose announced address is not an ip:port that parses
    Reachable,         \* peers that accept a connection when it is tried again and again
    TrackerMayDie,     \* the tracker may send an answer that does not parse
    MaxAttempts,       \* config::MAX_PEER_RECONNECT_ATTEMPTS
    MinInterval,       \* config::MIN_PEER_RECONNECT_INTERVAL
    InactivityTimeout, \* config::INACTIVITY_TIMEOUT
    TrackerInterval,   \* Download::tracker_interval
    MaxAnnouncements,  \* bound: announcements asked for and not yet processed
    MaxQueued          \* bound: connections asked for when an announcement arrives

Peers == 1 .. NumPeers

ASSUME SizeAssumption ==
    /\ NumPeers \in Nat /\ BadAddress \subseteq Peers /\ Reachable \subseteq Peers
    /\ TrackerMayDie \in BOOLEAN
    /\ MaxAnnouncements \in Nat /\ MaxQueued \in Nat
ASSUME TimeAssumption ==
    /\ MaxAttempts \in Nat /\ MinInterval \in Nat
    /\ InactivityTimeout \in Nat /\ TrackerInterval \in Nat

VARIABLES
    phase,           \* next step of the main loop; "panicked": the daemon has died
    todo,            \* peers a loop that asks for connections has yet to come to
    registered,      \* length of Download::peers: peers 1 .. registered exist
    outgoing,        \* peers whose peer_info is Some
    connected,       \* peers whose stream is Some
    being_connected, \* Peer::being_connected
    attempts,        \* Peer::reconnect_attempts
    since,           \* time since Peer::last_reconnect_attempt, saturating
    quiet,           \* time since Peer::last_incoming_message, saturating
    age,             \* history: time since the present stream was taken up, saturating
    downloaded,      \* Download::downloaded
    tracker_age,     \* time since Download::last_check_with_tracker, saturating
    asked,           \* requests queued for the tracker thread
    announcements,   \* its answers
    requests,        \* peers of the OpenConnectionRequests queued for the connector thread
    responses,       \* its OpenConnectionResponses
    connector,       \* the connector thread runs
    tracker          \* the tracker thread runs

peerVars    == << outgoing, connected, being_connected, attempts, since, quiet, age >>
trackerVars == << tracker_age, asked, announcements, tracker >>
connVars    == << requests, responses, connector >>
vars == << phase, todo, registered, peerVars, downloaded, trackerVars, connVars >>

Phases == { "tracker", "connect", "announce", "ask", "accept", "receive", "send",
            "reset", "decide", "reconnect", "sleep", "panicked" }

Outcomes == { "Ok", "Err" }
Responses(set) == [peer : set, result : Outcomes]

\* Every SystemTime of a new Peer, and last_check_with_tracker, is UNIX_EPOCH.
Init ==
    /\ phase = "tracker" /\ todo = {}
    /\ registered = 0
    /\ outgoing = {} /\ connected = {} /\ being_connected = {}
    /\ attempts = [p \in Peers |-> 0]
    /\ since = [p \in Peers |-> MinInterval]
    /\ quiet = [p \in Peers |-> InactivityTimeout + 1]
    /\ age = [p \in Peers |-> 0]
    /\ downloaded = FALSE
    /\ tracker_age = TrackerInterval /\ asked = 0 /\ announcements = << >> /\ tracker = TRUE
    /\ requests = << >> /\ responses = << >> /\ connector = TRUE

-----------------------------------------------------------------------------
(***************************************************************************)
(* request_checking_with_tracker.  A send to a thread that has died fails,   *)
(* and its unwrap ends the daemon.                                          *)
(***************************************************************************)
TrackerDue == tracker_age >= TrackerInterval

CheckWithTracker ==
    /\ phase = "tracker" /\ TrackerDue /\ tracker
    /\ phase' = "connect"
    /\ tracker_age' = 0
    /\ asked' = IF asked + Len(announcements) < MaxAnnouncements THEN asked + 1 ELSE asked
    /\ UNCHANGED << todo, registered, peerVars, downloaded, announcements, tracker, connVars >>

TrackerNotDue ==
    /\ phase = "tracker" /\ ~TrackerDue
    /\ phase' = "connect"
    /\ UNCHANGED << todo, registered, peerVars, downloaded, trackerVars, connVars >>

CheckFails ==
    /\ phase = "tracker" /\ TrackerDue /\ ~tracker
    /\ phase' = "panicked"
    /\ UNCHANGED << todo, registered, peerVars, downloaded, trackerVars, connVars >>

\* Faulty variants: the time of the last message is not set; only a failure
\* clears being_connected.
TakeUpWithoutTime(p, broken) ==
    /\ connected' = IF broken THEN connected \ {p} ELSE connected \cup {p}
    /\ being_connected' = being_connected \ {p}
    /\ age' = [age EXCEPT ![p] = 0]
    /\ UNCHANGED quiet

TakeUpStillBeing(p, broken) ==
    /\ connected' = IF broken THEN connected \ {p} ELSE connected \cup {p}
    /\ quiet' = [quiet EXCEPT ![p] = 0]
    /\ age' = [age EXCEPT ![p] = 0]
    /\ UNCHANGED being_connected

(***************************************************************************)
(* process_new_connections, one response at a time.  A stream that arrives   *)
(* for a peer that has one replaces it.  Bitfield, unchoke and interested    *)
(* are sent at once; if a send fails the new stream is dropped again.        *)
(***************************************************************************)
TakeUp(p, broken) ==
    /\ connected' = IF broken THEN connected \ {p} ELSE connected \cup {p}
    /\ being_connected' = being_connected \ {p}
    /\ quiet' = [quiet EXCEPT ![p] = 0]
    /\ age' = [age EXCEPT ![p] = 0]

ProcessNewConnection(broken) ==
    /\ phase = "connect" /\ responses # << >> /\ Head(responses).result = "Ok"
    /\ responses' = Tail(responses)
    /\ TakeUp(Head(responses).peer, broken)
    /\ UNCHANGED << phase, todo, registered, outgoing, attempts, since, downloaded,
                    trackerVars, requests, connector >>

ProcessConnectionError ==
    /\ phase = "connect" /\ responses # << >> /\ Head(responses).result = "Err"
    /\ responses' = Tail(responses)
    /\ being_connected' = being_connected \ {Head(responses).peer}
    /\ UNCHANGED << phase, todo, registered, outgoing, connected, attempts, since, quiet, age,
                    downloaded, trackerVars, requests, connector >>

ConnectDone ==
    /\ phase = "connect" /\ responses = << >>
    /\ phase' = "announce"
    /\ UNCHANGED << todo, registered, peerVars, downloaded, trackerVars, connVars >>

(***************************************************************************)
(* process_new_announcements: the peers of an announcement that are not in   *)
(* the vector are appended (register_outgoing_peer), `n' of them; then        *)
(* request_new_connections asks for every peer that has an address and no    *)
(* stream.                                                                  *)
(***************************************************************************)
\* Faulty variants: only peers with attempts left are asked for; peers without an
\* address are asked for too.
MissingWithAttempts(out) == { p \in out \ connected : attempts[p] < MaxAttempts }

MissingAny(out) == 1 .. registered \ connected

Missing(out) == out \ connected

ProcessAnnouncement(n) ==
    /\ phase = "announce" /\ announcements # << >> /\ Head(announcements) = "Ok"
    /\ phase' = "ask"
    /\ registered + n <= NumPeers
    /\ registered' = registered + n
    /\ outgoing' = outgoing \cup (registered + 1) .. (registered + n)
    /\ todo' = Missing(outgoing')
    /\ announcements' = Tail(announcements)
    /\ UNCHANGED << connected, being_connected, attempts, since, quiet, age, downloaded,
                    tracker_age, asked, tracker, connVars >>

ProcessAnnouncementError ==
    /\ phase = "announce" /\ announcements # << >> /\ Head(announcements) = "Err"
    /\ announcements' = Tail(announcements)
    /\ UNCHANGED << phase, todo, registered, peerVars, downloaded, tracker_age, asked, tracker,
                    connVars >>

AnnounceDone ==
    /\ phase = "announce" /\ announcements = << >>
    /\ phase' = "accept"
    /\ UNCHANGED << todo, registered, peerVars, downloaded, trackerVars, connVars >>

\* The next peer of a loop over the vector.
NextTodo(p) == p \in todo /\ \A q \in todo : p <= q

AskForConnection(p) ==
    /\ phase = "ask" /\ NextTodo(p) /\ connector
    /\ todo' = todo \ {p}
    /\ being_connected' = being_connected \cup {p}
    /\ requests' = Append(requests, p)
    /\ UNCHANGED << phase, registered, outgoing, connected, attempts, since, quiet, age,
                    downloaded, trackerVars, responses, connector >>

AskDone ==
    /\ phase = "ask" /\ todo = {}
    /\ phase' = "announce"
    /\ UNCHANGED << todo, registered, peerVars, downloaded, trackerVars, connVars >>

\* The send of request_new_connections or request_resetting_broken_connections
\* fails: its expect ends the daemon.
AskFails ==
    /\ phase \in { "ask", "reconnect" } /\ todo # {} /\ ~connector
    /\ phase' = "panicked"
    /\ UNCHANGED << todo, registered, peerVars, downloaded, trackerVars, connVars >>

(***************************************************************************)
(* receive_incoming_connections: a stream that shook hands is appended as a  *)
(* new peer without an address; its last_incoming_message stays the epoch.   *)
(***************************************************************************)
AcceptIncoming(broken) ==
    /\ phase = "accept" /\ phase' = "receive"
    /\ registered < NumPeers
    /\ registered' = registered + 1
    /\ connected' = IF broken THEN connected ELSE connected \cup {registered + 1}
    /\ UNCHANGED << todo, outgoing, being_connected, attempts, since, quiet, age, downloaded,
                    trackerVars, connVars >>

AcceptNone ==
    /\ phase = "accept" /\ phase' = "receive"
    /\ UNCHANGED << todo, registered, peerVars, downloaded, trackerVars, connVars >>

(***************************************************************************)
(* receive_messages: a whole message refreshes last_incoming_message, and    *)
(* may complete the download.  A keep-alive or a part of a message changes   *)
(* nothing here.  Streams whose read failed are reset.                       *)
(***************************************************************************)
ReceiveMessage(p, last) ==
    /\ phase = "receive" /\ p \in connected
    /\ quiet' = [quiet EXCEPT ![p] = 0]
    /\ downloaded' = (downloaded \/ last)
    /\ UNCHANGED << phase, todo, registered, outgoing, connected, being_connected, attempts,
                    since, age, trackerVars, connVars >>

ReceiveDone(broken) ==
    /\ phase = "receive" /\ phase' = "send"
    /\ broken \subseteq connected
    /\ connected' = connected \ broken
    /\ UNCHANGED << todo, registered, outgoing, being_connected, attempts, since, quiet, age,
                    downloaded, trackerVars, connVars >>

\* broadcast_have and the execution of requests in both directions: a send that
\* fails resets the connection.
Send(broken) ==
    /\ phase = "send" /\ phase' = "reset"
    /\ broken \subseteq connected
    /\ connected' = connected \ broken
    /\ UNCHANGED << todo, registered, outgoing, being_connected, attempts, since, quiet, age,
                    downloaded, trackerVars, connVars >>

Inactive == { p \in connected : quiet[p] > InactivityTimeout }

ResetInactive ==
    /\ phase = "reset" /\ phase' = "decide"
    /\ connected' = connected \ Inactive
    /\ UNCHANGED << todo, registered, outgoing, being_connected, attempts, since, quiet, age,
                    downloaded, trackerVars, connVars >>

(***************************************************************************)
(* request_resetting_broken_connections: decide_peers_to_reconnect makes the *)
(* whole list, then each peer of it is asked for.                            *)
(***************************************************************************)
decide_peers_to_reconnect ==
    IF downloaded THEN {}
    ELSE { p \in outgoing : /\ p \notin connected /\ p \notin being_connected
                            /\ attempts[p] < MaxAttempts /\ since[p] >= MinInterval }

DecideReconnect ==
    /\ phase = "decide" /\ phase' = "reconnect"
    /\ todo' = decide_peers_to_reconnect
    /\ UNCHANGED << registered, peerVars, downloaded, trackerVars, connVars >>

RequestReconnect(p) ==
    /\ phase = "reconnect" /\ NextTodo(p) /\ connector
    /\ todo' = todo \ {p}
    /\ attempts' = [attempts EXCEPT ![p] = @ + 1]
    /\ since' = [since EXCEPT ![p] = 0]
    /\ being_connected' = being_connected \cup {p}
    /\ requests' = Append(requests, p)
    /\ UNCHANGED << phase, registered, outgoing, connected, quiet, age, downloaded, trackerVars,
                    responses, connector >>

ReconnectDone ==
    /\ phase = "reconnect" /\ todo = {}
    /\ phase' = "sleep"
    /\ UNCHANGED << todo, registered, peerVars, downloaded, trackerVars, connVars >>

\* The end of a tick; `passed' tells whether a unit of time has passed.
Older(time, limit) == IF time < limit THEN time + 1 ELSE time

Sleep(passed) ==
    /\ phase = "sleep" /\ phase' = "tracker"
    /\ IF passed
         THEN /\ since' = [p \in Peers |-> Older(since[p], MinInterval)]
              /\ quiet' = [p \in Peers |-> Older(quiet[p], InactivityTimeout + 1)]
              /\ age' = [p \in Peers |-> IF p \in connected THEN Older(age[p], InactivityTimeout + 1)
                                                            ELSE 0]
              /\ tracker_age' = Older(tracker_age, TrackerInterval)
         ELSE UNCHANGED << since, quiet, age, tracker_age >>
    /\ UNCHANGED << todo, registered, outgoing, connected, being_connected, attempts,
                    downloaded, asked, announcements, tracker, connVars >>

-----------------------------------------------------------------------------
(***************************************************************************)
(* The helper threads.  open_missing_connections answers every request, with *)
(* a stream that shook hands or with an error, unless the address does not   *)
(* parse; get_announcements answers every request unless the tracker's text  *)
(* does not parse.                                                          *)
(***************************************************************************)
ConnectorAnswers(p, result) ==
    /\ connector /\ requests # << >> /\ p = Head(requests) /\ p \notin BadAddress
    /\ requests' = Tail(requests)
    /\ responses' = Append(responses, [peer |-> p, result |-> result])
    /\ UNCHANGED << phase, todo, registered, peerVars, downloaded, trackerVars, connector >>

ConnectorDies ==
    /\ connector /\ requests # << >> /\ Head(requests) \in BadAddress
    /\ connector' = FALSE /\ requests' = << >>
    /\ UNCHANGED << phase, todo, registered, peerVars, downloaded, trackerVars, responses >>

TrackerAnswers(result) ==
    /\ tracker /\ asked > 0
    /\ Len(requests) + Len(responses) < MaxQueued
    /\ asked' = asked - 1
    /\ announcements' = Append(announcements, result)
    /\ UNCHANGED << phase, todo, registered, peerVars, downloaded, tracker_age, tracker, connVars >>

TrackerDies ==
    /\ TrackerMayDie /\ tracker /\ asked > 0
    /\ tracker' = FALSE /\ asked' = 0
    /\ UNCHANGED << phase, todo, registered, peerVars, downloaded, tracker_age, announcements,
                    connVars >>

MainLoop ==
    \/ CheckWithTracker \/ TrackerNotDue \/ CheckFails
    \/ \E broken \in BOOLEAN : ProcessNewConnection(broken)
    \/ ProcessConnectionError \/ ConnectDone
    \/ \E n \in 0 .. NumPeers : ProcessAnnouncement(n)
    \/ ProcessAnnouncementError \/ AnnounceDone
    \/ \E p \in Peers : AskForConnection(p)
    \/ AskDone \/ AskFails
    \/ \E broken \in BOOLEAN : AcceptIncoming(broken)
    \/ AcceptNone
    \/ \E p \in Peers, last \in BOOLEAN : ReceiveMessage(p, last)
    \/ \E broken \in SUBSET connected : ReceiveDone(broken)
    \/ \E broken \in SUBSET connected : Send(broken)
    \/ ResetInactive \/ DecideReconnect
    \/ \E p \in Peers : RequestReconnect(p)
    \/ ReconnectDone
    \/ \E passed \in BOOLEAN : Sleep(passed)

Helpers ==
    \/ \E p \in Peers, result \in Outcomes : ConnectorAnswers(p, result)
    \/ ConnectorDies
    \/ \E result \in Outcomes : TrackerAnswers(result)
    \/ TrackerDies

\* The daemon has died; its threads die with it.
Stopped == phase = "panicked" /\ UNCHANGED vars

Next == (phase # "panicked" /\ (MainLoop \/ Helpers)) \/ Stopped

Spec == Init /\ [][Next]_vars
(***************************************************************************)
(* Fairness.  The main loop and the connector thread keep going and time     *)
(* passes; the tracker answers if it is asked again and again, an attempt    *)
(* to connect that is repeated for ever succeeds at times, and not every     *)
(* fresh stream breaks before anything was sent on it.                       *)
(***************************************************************************)
Loop ==
    \/ CheckWithTracker \/ TrackerNotDue \/ CheckFails
    \/ ProcessNewConnection(FALSE) \/ ProcessConnectionError \/ ConnectDone
    \/ ProcessAnnouncement(0) \/ ProcessAnnouncementError \/ AnnounceDone
    \/ \E p \in Peers : AskForConnection(p) \/ RequestReconnect(p)
    \/ AskDone \/ AskFails \/ AcceptNone \/ ReceiveDone({}) \/ Send({})
    \/ ResetInactive \/ DecideReconnect \/ ReconnectDone \/ Sleep(TRUE)

Reached(p) ==
    /\ SF_vars(ConnectorAnswers(p, "Ok"))
    /\ SF_vars(p \notin connected /\ ProcessNewConnection(FALSE) /\ p \in connected')

Fairness ==
    /\ WF_vars(Loop) /\ SF_vars(Sleep(TRUE))
    /\ SF_vars(TrackerAnswers("Ok"))
    /\ WF_vars(ConnectorDies \/ \E p \in Peers, result \in Outcomes : ConnectorAnswers(p, result))
    /\ \A p \in Reachable : Reached(p)

FairSpec == Spec /\ Fairness

-----------------------------------------------------------------------------
(***************************************************************************)
(* Properties                                                              *)
(***************************************************************************)

\* The vector of peers: a stream, the mark being_connected and a place in a loop belong
\* to a peer of the vector, the last two to one that has an address.
PeersOK ==
    /\ registered \in 0 .. NumPeers
    /\ outgoing \subseteq 1 .. registered /\ connected \subseteq 1 .. registered
    /\ being_connected \subseteq outgoing
    /\ todo \subseteq outgoing
    /\ phase \notin { "ask", "reconnect", "panicked" } => todo = {}

TimesOK ==
    /\ attempts \in [Peers -> 0 .. MaxAttempts]
    /\ since \in [Peers -> 0 .. MinInterval]
    /\ quiet \in [Peers -> 0 .. InactivityTimeout + 1]
    /\ age \in [Peers -> 0 .. InactivityTimeout + 1]
    /\ tracker_age \in 0 .. TrackerInterval
    /\ phase = "reconnect" => \A p \in todo : attempts[p] < MaxAttempts

\* The channels to the connector thread name only peers that have an address.
ChannelsOK ==
    /\ asked \in 0 .. MaxAnnouncements
    /\ announcements \in Seq(Outcomes)
    /\ asked + Len(announcements) <= MaxAnnouncements
    /\ requests \in Seq(outgoing)
    /\ responses \in Seq(Responses(outgoing))

\* The type of every variable.  Whatever the helpers answer and however late, the
\* index into the vector and the unwrap of peer_info never fail, and no peer is
\* reconnected more often than MAX_PEER_RECONNECT_ATTEMPTS.
TypeOK ==
    /\ phase \in Phases /\ downloaded \in BOOLEAN
    /\ connector \in BOOLEAN /\ tracker \in BOOLEAN
    /\ PeersOK /\ TimesOK /\ ChannelsOK

InRequests(p)  == \E i \in 1 .. Len(requests) : requests[i] = p
InResponses(p) == \E i \in 1 .. Len(responses) : responses[i].peer = p

\* While the connector thread lives, a peer marked being_connected has a request or
\* a response under way that will clear the mark: however requests are doubled by
\* announcements, no peer is left marked and unattended, which would stop
\* reconnection to it for ever (decider.rs, being_connected).
PipelineSound ==
    connector => \A p \in being_connected : InRequests(p) \/ InResponses(p)

\* An outgoing connection is reset as inactive only when it has existed for longer
\* than INACTIVITY_TIMEOUT: whatever the peer's previous connections were, the new
\* stream starts with a fresh time of the last message.
OutgoingGetTimeout ==
    [][\A p \in outgoing : phase = "reset" /\ p \in connected \ connected'
                              => age[p] > InactivityTimeout]_vars

\* A reachable peer with an address that has lost its connection, or never had one,
\* gets one, even when all its reconnection attempts are used up: every announcement asks
\* again.  If it does not, the daemon has died with one of its helper threads: it does not
\* go on without them.
Reconnected ==
    \A p \in Reachable : p \in outgoing \ connected ~> p \in connected \/ phase = "panicked"
=============================================================================
