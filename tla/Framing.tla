------------------------------ MODULE Framing ------------------------------
(***************************************************************************)
(* Messages over one direction of a connection: send_msg and             *)
(* receive_message (peer_protocol.rs) over the byte reads of             *)
(* io_primitives.rs. rustorcli runs one of the two on each direction;    *)
(* the client at the other end is taken to write and to read as it does. *)
(*                                                                         *)
(* A message is a length of four bytes and a payload.  Both sockets are      *)
(* non-blocking: a write stops where the buffer is full, a read where the    *)
(* bytes that have arrived end.                                             *)
(***************************************************************************)
EXTENDS Integers, Sequences

CONSTANTS
    Messages,      \* payloads (type byte and the rest), never empty
    BufferSize,    \* bytes the sockets hold between sender and receiver
    MaxPut,        \* bound: messages and keep-alives written, see `written'
    WholeArrivals, \* what was sent arrives at once; otherwise in parts of any size
    MayReplace     \* a stream may be replaced by another before it is found broken

Bytes == 0 .. 255

\* The length of a payload is a u32.
ASSUME MessageAssumption ==
    /\ Messages \subseteq Seq(Bytes) \ { << >> }
    /\ \A m \in Messages : Len(m) \div (256 * 256 * 256) \in Bytes
ASSUME BufferAssumption ==
    /\ BufferSize \in Nat /\ MaxPut \in Nat
    /\ WholeArrivals \in BOOLEAN /\ MayReplace \in BOOLEAN

VARIABLES
    stream,              \* "none", "open", or "closed" by the sender
    inflight,            \* bytes written that have not arrived
    arrived,             \* bytes that can be read
    buf,                 \* Peer::buf of the receiver
    next_message_length, \* Peer::next_message_length of the receiver
    written,             \* bound: messages written since a stream began with an empty buf
    put,                 \* history: messages written whole, not yet handled
    handled,             \* history: messages returned by receive_message on this stream
    torn                 \* history: bytes of a message were lost on this stream

streamVars  == << stream, inflight, arrived, written >>
peerVars    == << buf, next_message_length >>
historyVars == << put, handled, torn >>
vars == << streamVars, peerVars, historyVars >>

-----------------------------------------------------------------------------
(***************************************************************************)
(* io_primitives: a u32 and its four bytes.                                  *)
(***************************************************************************)
BYTE_0 == 256 * 256 * 256
BYTE_1 == 256 * 256
BYTE_2 == 256

u32_to_bytes(integer) ==
    LET first  == integer \div BYTE_0
        rest1  == integer - first * BYTE_0
        second == rest1 \div BYTE_1
        rest2  == rest1 - second * BYTE_1
        third  == rest2 \div BYTE_2
    IN  << first, second, third, rest2 - third * BYTE_2 >>

bytes_to_u32(bytes) == bytes[1] * BYTE_0 + bytes[2] * BYTE_1 + bytes[3] * BYTE_2 + bytes[4]

HeaderSize == 4

serialize(payload) == u32_to_bytes(Len(payload)) \o payload

AtMost(k, n) == IF k < n THEN k ELSE n
First(s, k) == SubSeq(s, 1, k)
After(s, k) == SubSeq(s, k + 1, Len(s))

Init ==
    /\ stream = "none" /\ inflight = << >> /\ arrived = << >> /\ written = 0
    /\ buf = << >> /\ next_message_length = 0
    /\ put = << >> /\ handled = << >> /\ torn = FALSE

(***************************************************************************)
(* A stream is taken up: process_new_connections sets it and leaves buf and  *)
(* next_message_length as they are.                                         *)
(***************************************************************************)
NewStream ==
    /\ stream = "none" \/ MayReplace
    /\ stream' = "open" /\ inflight' = << >> /\ arrived' = << >>
    /\ written' = IF next_message_length = 0 THEN 0 ELSE written
    /\ put' = << >> /\ handled' = << >>
    /\ torn' = (next_message_length # 0)
    /\ UNCHANGED peerVars

\* Faulty variant: the part of a message that was read is kept.
KeepBuffer ==
    /\ stream' = "none" /\ inflight' = << >> /\ arrived' = << >>
    /\ next_message_length' = 0
    /\ UNCHANGED << written, buf, historyVars >>

(***************************************************************************)
(* Download::on_broken_connection at the receiver, for what framing sees.     *)
(***************************************************************************)
OnBrokenConnection ==
    /\ stream' = "none" /\ inflight' = << >> /\ arrived' = << >>
    /\ buf' = << >> /\ next_message_length' = 0
    /\ UNCHANGED << written, historyVars >>

\* The receiver gives the connection up: a send failed or it was inactive.
Reset == stream # "none" /\ OnBrokenConnection

\* The sender drops its end.
Close ==
    /\ stream = "open" /\ stream' = "closed"
    /\ UNCHANGED << inflight, arrived, written, peerVars, historyVars >>

(***************************************************************************)
(* send_msg.  write_all writes what fits; if that is not all it fails with   *)
(* WouldBlock, which send_msg takes for success: the message is cut short,   *)
(* or lost whole if nothing fitted.                                         *)
(***************************************************************************)
Room == BufferSize - Len(inflight) - Len(arrived)

Write(bytes) ==
    /\ stream = "open" /\ written < MaxPut
    /\ written' = written + 1
    /\ inflight' = inflight \o First(bytes, AtMost(Room, Len(bytes)))
    /\ UNCHANGED << stream, arrived, peerVars >>

send_msg(m) ==
    /\ Write(serialize(m))
    /\ put' = IF Room >= Len(serialize(m)) THEN Append(put, m) ELSE put
    /\ torn' = (torn \/ (0 < Room /\ Room < Len(serialize(m))))
    /\ UNCHANGED handled

\* Other clients keep an idle connection alive with an empty message.
SendKeepAlive ==
    /\ Room >= HeaderSize
    /\ Write(u32_to_bytes(0))
    /\ UNCHANGED historyVars

Arrive(k) ==
    /\ WholeArrivals => k = Len(inflight)
    /\ k \in 1 .. Len(inflight)
    /\ arrived' = arrived \o First(inflight, k) /\ inflight' = After(inflight, k)
    /\ UNCHANGED << stream, written, peerVars, historyVars >>

-----------------------------------------------------------------------------
(***************************************************************************)
(* receive_message.  End of stream is read once everything written has been. *)
(***************************************************************************)
AtEnd == stream = "closed" /\ inflight = << >>

\* read_n of the length finds too few bytes.  Those it read are dropped with its
\* buffer, and WouldBlock makes receive_message return nothing.
ReceiveNoLength ==
    /\ stream # "none" /\ next_message_length = 0 /\ Len(arrived) < HeaderSize /\ ~AtEnd
    /\ arrived # << >>
    /\ arrived' = << >>
    /\ torn' = TRUE
    /\ UNCHANGED << stream, inflight, written, peerVars, put, handled >>

\* A length of zero.
ReceiveKeepAlive ==
    /\ stream # "none" /\ next_message_length = 0 /\ Len(arrived) >= HeaderSize
    /\ bytes_to_u32(First(arrived, HeaderSize)) = 0
    /\ arrived' = After(arrived, HeaderSize)
    /\ UNCHANGED << stream, inflight, written, peerVars, historyVars >>

\* Faulty variants: the part read before is dropped; a second read asks for the
\* whole length again.
PayloadFromScratch(length, bytes) ==
    LET k    == AtMost(length - Len(buf), Len(bytes))
        read == buf \o First(bytes, k)
    IN  /\ arrived' = After(bytes, k)
        /\ IF Len(read) = length
             THEN /\ buf' = << >> /\ next_message_length' = 0
                  /\ handled' = Append(handled, read)
                  /\ put' = IF put = << >> THEN put ELSE Tail(put)
             ELSE /\ buf' = << >> /\ next_message_length' = length
                  /\ UNCHANGED << put, handled >>

PayloadWholeLength(length, bytes) ==
    LET k    == AtMost(length, Len(bytes))
        read == buf \o First(bytes, k)
    IN  /\ arrived' = After(bytes, k)
        /\ IF Len(read) = length
             THEN /\ buf' = << >> /\ next_message_length' = 0
                  /\ handled' = Append(handled, read)
                  /\ put' = IF put = << >> THEN put ELSE Tail(put)
             ELSE /\ buf' = read /\ next_message_length' = length
                  /\ UNCHANGED << put, handled >>

(***************************************************************************)
(* The payload of a message of `length' bytes, out of the `bytes' that can    *)
(* be read: read_upto_n_nonblocking appends what there is, up to what is      *)
(* missing, to buf.                                                         *)
(***************************************************************************)
ReadPayload(length, bytes) ==
    LET k    == AtMost(length - Len(buf), Len(bytes))
        read == buf \o First(bytes, k)
    IN  /\ arrived' = After(bytes, k)
        /\ IF Len(read) = length
             THEN /\ buf' = << >> /\ next_message_length' = 0
                  /\ handled' = Append(handled, read)
                  /\ put' = IF put = << >> THEN put ELSE Tail(put)
             ELSE /\ buf' = read /\ next_message_length' = length
                  /\ UNCHANGED << put, handled >>

\* A length, and as much of the payload as has arrived.
ReceiveLength ==
    /\ stream # "none" /\ next_message_length = 0 /\ Len(arrived) >= HeaderSize
    /\ bytes_to_u32(First(arrived, HeaderSize)) > 0
    /\ Len(arrived) = HeaderSize => ~AtEnd
    /\ ReadPayload(bytes_to_u32(First(arrived, HeaderSize)), After(arrived, HeaderSize))
    /\ UNCHANGED << stream, inflight, written, torn >>

\* More of the payload of a message whose length was read before.
ReceiveMore ==
    /\ stream # "none" /\ next_message_length # 0 /\ arrived # << >>
    /\ ReadPayload(next_message_length, arrived)
    /\ UNCHANGED << stream, inflight, written, torn >>

\* A read of the length or of the payload finds the end: receive_messages resets.
ReceiveEnd ==
    /\ stream # "none" /\ AtEnd
    /\ IF next_message_length = 0
         THEN \/ Len(arrived) < HeaderSize
              \/ Len(arrived) = HeaderSize /\ bytes_to_u32(arrived) > 0
         ELSE arrived = << >>
    /\ OnBrokenConnection

Receive ==
    \/ ReceiveNoLength \/ ReceiveKeepAlive \/ ReceiveLength \/ ReceiveMore \/ ReceiveEnd

Next ==
    \/ NewStream \/ Reset \/ Close
    \/ \E m \in Messages : send_msg(m)
    \/ SendKeepAlive
    \/ \E k \in 1 .. Len(inflight) : Arrive(k)
    \/ Receive

Spec == Init /\ [][Next]_vars

\* What was written arrives, and the main loop goes on reading.
Fairness == WF_vars(\E k \in 1 .. Len(inflight) : Arrive(k)) /\ WF_vars(Receive)

FairSpec == Spec /\ Fairness

-----------------------------------------------------------------------------
(***************************************************************************)
(* Properties                                                              *)
(***************************************************************************)

\* The type of every variable.
TypeOK ==
    /\ stream \in { "none", "open", "closed" }
    /\ inflight \in Seq(Bytes) /\ arrived \in Seq(Bytes)
    /\ written \in 0 .. MaxPut
    /\ buf \in Seq(Bytes) /\ next_message_length \in Nat
    /\ put \in Seq(Messages) /\ handled \in Seq(Seq(Bytes)) /\ torn \in BOOLEAN

\* What is in buf is a proper part of the message being read: the subtraction of
\* receive_message that says how much is missing never goes below zero, even after
\* lengths misread from a torn stream and streams that replaced others.
BufferFits ==
    IF next_message_length = 0 THEN buf = << >> ELSE Len(buf) < next_message_length

\* Unless bytes were lost on the way the connection implements MessageChannel: the
\* messages handled are those written, whole, once and in order, in however many
\* parts they arrive.
Channel == INSTANCE MessageChannel WITH
    queue <- put, got <- handled, damaged <- torn
ImplementsChannel == Channel!Spec

\* A message written whole on a connection is handled in the end, unless the
\* connection is given up or was torn.
AllHandled ==
    \A n \in 1 .. MaxPut :
        Len(handled) + Len(put) >= n ~> Len(handled) >= n \/ torn \/ stream = "none" \/ written = 0

\* A message written whole on a connection is handled in the end, unless the
\* connection is given up.
NoneLost ==
    \A n \in 1 .. MaxPut :
        Len(handled) + Len(put) >= n ~> Len(handled) >= n \/ stream = "none" \/ written = 0
=============================================================================
