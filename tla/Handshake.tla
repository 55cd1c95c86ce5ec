----------------------------- MODULE Handshake -----------------------------
(***************************************************************************)
(* The handshakes of a process with other clients (handshake.rs, and the     *)
(* blocking reads of io_primitives.rs).                                     *)
(*                                                                         *)
(* The process shakes hands in two threads: its connector thread opens the    *)
(* connections its main loop asks for, one at a time, and the main loop       *)
(* accepts those of others, one at a time and stopping everything else        *)
(* meanwhile.  Both read field by field, and each read may give up.  What has  *)
(* been written can be read at once, or later, or in parts.                  *)
(*                                                                         *)
(* The other end is any client, called a stranger.  It is never another       *)
(* rustorcli process: register_outgoing_peer skips peers on the port they all *)
(* announce, so none of them opens a connection to another.                  *)
(***************************************************************************)
EXTENDS Integers, Sequences

CONSTANTS
    Outgoing,     \* connections the process opens
    Incoming,     \* connections it accepts
    Together,     \* bound: sets of connections of which one is made, each connection once
    Wanted,       \* info hash of the download an outgoing connection is for
    Held,         \* info hashes of the downloads
    Hashes,       \* info hashes strangers may name
    Proper,       \* connections whose stranger has the torrent and does what it should
    PstrLen,      \* length of "BitTorrent protocol"
    StrangerPstr, \* lengths of the protocol name strangers send
    Reserved,     \* length of the reserved bytes
    HashLen,      \* length of an info hash
    IdLen         \* length of a peer id

Conns == Outgoing \cup Incoming

\* What the bytes of a handshake and of a message look like does not matter beyond this.
Zero == 0
Id   == 1
Msg  == 255

ASSUME ConnAssumption ==
    /\ Outgoing \cap Incoming = {} /\ Proper \subseteq Conns
    /\ Wanted \in [Outgoing -> Held]
ASSUME SizeAssumption ==
    /\ PstrLen \in 0 .. 254 /\ StrangerPstr \subseteq 0 .. 254
    /\ { Reserved, HashLen, IdLen } \subseteq Nat \ {0}
    /\ Held \subseteq Hashes /\ Hashes \subseteq 2 .. 254

VARIABLES
    ours,    \* how far the process has come with a connection
    theirs,  \* how far the stranger has
    wire,    \* bytes the process can read, now or when they arrive
    read,    \* bytes it has read in its handshake
    written, \* bytes it has written in its handshake
    named    \* history: the info hash the stranger named, or Zero

vars == << ours, theirs, wire, read, written, named >>

Ours   == { "idle", "waiting", "reading", "ok", "failed", "unknown" }
Theirs == { "idle", "open", "mute", "said", "closed" }

Times(byte, n) == [k \in 1 .. n |-> byte]
Shake(pstr, hash) ==
    << pstr >> \o Times(Zero, pstr + Reserved) \o Times(hash, HashLen) \o Times(Id, IdLen)

Init ==
    /\ ours = [c \in Conns |-> "idle"] /\ theirs = [c \in Conns |-> "idle"]
    /\ wire = [c \in Conns |-> << >>] /\ read = [c \in Conns |-> << >>]
    /\ written = [c \in Conns |-> << >>] /\ named = [c \in Conns |-> Zero]

-----------------------------------------------------------------------------
(***************************************************************************)
(* Reading.  The first byte tells how long the protocol name is; a read      *)
(* never asks for more than the rest of the present field.                   *)
(***************************************************************************)
\* Faulty variant: the protocol name is taken to be as long as ours.
UsualFieldEnds(bytes) ==
    IF bytes = << >> THEN {1}
    ELSE LET reserved == 1 + PstrLen + Reserved
         IN  { 1, 1 + PstrLen, reserved, reserved + HashLen, reserved + HashLen + IdLen }

FieldEnds(bytes) ==
    IF bytes = << >> THEN {1}
    ELSE LET reserved == 1 + bytes[1] + Reserved
         IN  { 1, 1 + bytes[1], reserved, reserved + HashLen, reserved + HashLen + IdLen }

Complete(c) == read[c] # << >> /\ \A n \in FieldEnds(read[c]) : n <= Len(read[c])
HashRead(c) ==
    SubSeq(read[c], 2 + read[c][1] + Reserved, 1 + read[c][1] + Reserved + HashLen)

\* One read of the socket: `k' bytes of the present field.
Read(c, k) ==
    /\ ours[c] = "reading" /\ ~Complete(c) /\ k <= Len(wire[c])
    /\ \E n \in FieldEnds(read[c]) :
         /\ n >= Len(read[c]) + k
         /\ \A m \in FieldEnds(read[c]) : m > Len(read[c]) => n <= m
    /\ read' = [read EXCEPT ![c] = @ \o SubSeq(wire[c], 1, k)]
    /\ wire' = [wire EXCEPT ![c] = SubSeq(@, k + 1, Len(@))]
    /\ UNCHANGED << ours, theirs, written, named >>

\* Faulty variant: the connection is tried again, with what was read of it.
FailAndRetry(c) ==
    /\ ours' = [ours EXCEPT ![c] = "waiting"]
    /\ UNCHANGED << theirs, wire, read, written, named >>

Fail(c) ==
    /\ ours' = [ours EXCEPT ![c] = "failed"]
    /\ UNCHANGED << theirs, wire, read, written, named >>

\* The stranger has closed; bytes that were under way may be lost with it.
ReadEnds(c) == ours[c] = "reading" /\ ~Complete(c) /\ theirs[c] = "closed" /\ Fail(c)

\* Faulty variant: only the first read may give up.
TimesOutAtFirst(c) == c \notin Proper /\ ours[c] = "reading" /\ read[c] = << >> /\ Fail(c)

\* A read finds nothing for BLOCKING_CONNECTION_READ_TIMEOUT.
TimesOut(c) == c \notin Proper /\ ours[c] = "reading" /\ ~Complete(c) /\ Fail(c)

-----------------------------------------------------------------------------
(***************************************************************************)
(* The two handshakes.                                                      *)
(***************************************************************************)
ConnectorFree == \A c \in Outgoing : ours[c] # "reading"
MainLoopFree  == \A c \in Incoming : ours[c] # "reading"

\* Whether connection c may be made beside those there are.
Opens(c) ==
    /\ ours[c] = "idle"
    /\ \E set \in Together : c \in set /\ \A d \in Conns : ours[d] # "idle" => d \in set

\* The main loop asks the connector thread for a connection.
Request(c) ==
    /\ c \in Outgoing /\ Opens(c)
    /\ ours' = [ours EXCEPT ![c] = "waiting"]
    /\ UNCHANGED << theirs, wire, read, written, named >>

\* Faulty variant: the other side's handshake is read before ours is written.
ConnectAndWait(c) ==
    /\ c \in Outgoing /\ ConnectorFree /\ ours[c] = "waiting"
    /\ ours' = [ours EXCEPT ![c] = "reading"] /\ theirs' = [theirs EXCEPT ![c] = "open"]
    /\ UNCHANGED << wire, read, written, named >>

\* open_missing_connections connects and handshake_outgoing writes.
Connect(c) ==
    /\ c \in Outgoing /\ ConnectorFree /\ ours[c] = "waiting"
    /\ ours' = [ours EXCEPT ![c] = "reading"] /\ theirs' = [theirs EXCEPT ![c] = "open"]
    /\ written' = [written EXCEPT ![c] = Shake(PstrLen, Wanted[c])]
    /\ UNCHANGED << wire, read, named >>

\* The answer has been read: its info hash is compared.
Validate(c) ==
    /\ c \in Outgoing /\ ours[c] = "reading" /\ Complete(c)
    /\ ours' = [ours EXCEPT ![c] = IF HashRead(c) = Times(Wanted[c], HashLen) THEN "ok"
                                                                             ELSE "failed"]
    /\ UNCHANGED << theirs, wire, read, written, named >>

Accept(c) ==
    /\ c \in Incoming /\ MainLoopFree /\ ours[c] = "waiting"
    /\ ours' = [ours EXCEPT ![c] = "reading"]
    /\ UNCHANGED << theirs, wire, read, written, named >>

Known(c) == \E h \in Held : HashRead(c) = Times(h, HashLen)

\* Faulty variant: the answer names a torrent of its own.
AnswerOwn(c) ==
    /\ c \in Incoming /\ ours[c] = "reading" /\ Complete(c)
    /\ written' = [written EXCEPT ![c] = Shake(PstrLen, CHOOSE h \in Held : TRUE)]
    /\ ours' = [ours EXCEPT ![c] = IF Known(c) THEN "ok" ELSE "unknown"]
    /\ UNCHANGED << theirs, wire, read, named >>

\* handshake_incoming answers with the hash it read, whether there is such a download
\* or not; if there is none the stream is dropped.
Answer(c) ==
    /\ c \in Incoming /\ ours[c] = "reading" /\ Complete(c)
    /\ written' = [written EXCEPT ![c] = << PstrLen >> \o Times(Zero, PstrLen + Reserved)
                                           \o HashRead(c) \o Times(Id, IdLen)]
    /\ ours' = [ours EXCEPT ![c] = IF Known(c) THEN "ok" ELSE "unknown"]
    /\ UNCHANGED << theirs, wire, read, named >>

AnswerFails(c) ==
    c \in Incoming /\ ours[c] = "reading" /\ Complete(c) /\ theirs[c] = "closed" /\ Fail(c)

-----------------------------------------------------------------------------
(***************************************************************************)
(* Strangers.  One may name the protocol at another length, name any info     *)
(* hash, go on with messages at once, fall silent in the middle, or close.    *)
(* On a connection in Proper it writes a whole handshake, for a torrent of    *)
(* the process or the one it was asked for, once it has been asked, and       *)
(* loses no time over it.                                                   *)
(***************************************************************************)
StrangerWrites(c, pstr, hash, n) ==
    /\ c \in Proper => n >= Len(Shake(pstr, hash))
    /\ wire' = [wire EXCEPT ![c] = SubSeq(Shake(pstr, hash) \o << Msg >>, 1, n)]
    /\ theirs' = [theirs EXCEPT ![c] = IF n < Len(Shake(pstr, hash)) THEN "mute" ELSE "said"]
    /\ named' = [named EXCEPT ![c] = hash]
    /\ UNCHANGED << read, written >>

StrangerConnects(c, pstr, hash, n) ==
    /\ c \in Incoming /\ Opens(c) /\ (c \in Proper => hash \in Held)
    /\ StrangerWrites(c, pstr, hash, n)
    /\ ours' = [ours EXCEPT ![c] = "waiting"]

StrangerAnswers(c, pstr, hash, n) ==
    /\ c \in Outgoing /\ theirs[c] = "open"
    /\ c \in Proper => written[c] = Shake(PstrLen, hash)
    /\ StrangerWrites(c, pstr, hash, n)
    /\ UNCHANGED ours

StrangerCloses(c) ==
    /\ theirs[c] \in { "open", "mute", "said" }
    /\ c \in Proper => ours[c] \notin { "waiting", "reading" }
    /\ theirs' = [theirs EXCEPT ![c] = "closed"]
    /\ UNCHANGED << ours, wire, read, written, named >>

Comes(c) ==
    \E pstr \in StrangerPstr, hash \in Hashes :
      \E n \in 0 .. Len(Shake(pstr, hash)) + 1 : StrangerConnects(c, pstr, hash, n)
Replies(c) ==
    \E pstr \in StrangerPstr, hash \in Hashes :
      \E n \in 0 .. Len(Shake(pstr, hash)) + 1 : StrangerAnswers(c, pstr, hash, n)

\* The steps of a handshake in progress.
Go(c) == (\E k \in 1 .. Len(wire[c]) : Read(c, k)) \/ ReadEnds(c) \/ TimesOut(c)

Next == \E c \in Conns :
    \/ Request(c) \/ Connect(c) \/ Validate(c) \/ Accept(c) \/ Answer(c) \/ AnswerFails(c)
    \/ Go(c) \/ Comes(c) \/ Replies(c) \/ StrangerCloses(c)

Spec == Init /\ [][Next]_vars

\* A thread goes on when its read returns, the main loop comes round to accept, the
\* connector thread takes the next request, and a proper stranger answers.
Fairness == \A c \in Conns :
    /\ WF_vars(Go(c)) /\ WF_vars(Connect(c)) /\ WF_vars(Validate(c))
    /\ WF_vars(Accept(c)) /\ WF_vars(Answer(c))
    /\ WF_vars(c \in Proper /\ Replies(c))

FairSpec == Spec /\ Fairness

-----------------------------------------------------------------------------
(***************************************************************************)
(* Properties                                                              *)
(***************************************************************************)

\* The type of every variable; nothing was read or written of a connection whose
\* handshake has not begun, nor read of one whose stranger has said nothing.
TypeOK ==
    /\ ours \in [Conns -> Ours] /\ theirs \in [Conns -> Theirs]
    /\ wire \in [Conns -> Seq(0 .. 255)] /\ read \in [Conns -> Seq(0 .. 255)]
    /\ written \in [Conns -> Seq(0 .. 255)] /\ named \in [Conns -> Hashes \cup {Zero}]
    /\ \A c \in Conns :
         /\ ours[c] \in { "idle", "waiting" } => read[c] = << >> /\ written[c] = << >>
         /\ named[c] = Zero => read[c] = << >> /\ wire[c] = << >>

MsgIn(s) == \E k \in 1 .. Len(s) : s[k] = Msg

\* A handshake that succeeded has read all the bytes of the other side's handshake and
\* no byte after them, at whatever length the other side names the protocol, in
\* whatever parts the bytes come and however soon messages follow: what is read next is
\* the beginning of a message, as receive_message assumes.
MessagesComeNext ==
    \A c \in Conns : ours[c] = "ok" =>
        /\ ~MsgIn(read[c])
        /\ \A k \in 1 .. Len(wire[c]) : wire[c][k] = Msg

\* The process takes a connection up only for the torrent the stranger named: one it has,
\* and on a connection it opened the one it asked for.  The stranger has then been
\* written one whole handshake that names this torrent, and will not turn it down.
SameTorrent ==
    \A c \in Conns : ours[c] = "ok" =>
        /\ named[c] \in Held /\ (c \in Outgoing => named[c] = Wanted[c])
        /\ written[c] = Shake(PstrLen, named[c])

\* No handshake goes on for ever, whatever strangers do: the main loop gets back to its
\* downloads and the connector thread to its requests.
HandshakesEnd ==
    \A c \in Conns : ours[c] = "reading" ~> ours[c] # "reading"

\* A stranger that does what it should gets its handshake, also when the thread it needs
\* is held up by one that does not: the process does not wait for somebody who waits for
\* it, and nobody who comes later or falls silent shuts the others out.
ProperOnesMeet ==
    \A c \in Proper : ours[c] \in { "waiting", "reading" } ~> ours[c] = "ok"
=============================================================================
