---------------------------- MODULE FramingProofs ----------------------------
(***************************************************************************)
(* Theorems about Framing, for any messages and any size of the buffers.     *)
(***************************************************************************)
EXTENDS Framing, SequenceTheorems, TLAPS

-----------------------------------------------------------------------------
(***************************************************************************)
(* The four bytes of a u32.                                                 *)
(***************************************************************************)
LEMMA Remainder ==
    ASSUME NEW n \in Nat, NEW d \in Nat \ {0}
    PROVE  n \div d \in Nat /\ n - (n \div d) * d \in 0 .. d - 1
BY SMT

LEMMA QuotientBound ==
    ASSUME NEW q \in Nat, NEW k \in Nat, NEW d \in Nat \ {0}, q * d < k * d
    PROVE  q < k
BY SMT

\* A number below k * d has a quotient below k and a remainder below d.
LEMMA Digit ==
    ASSUME NEW n \in Nat, NEW d \in Nat \ {0}, NEW k \in Nat, n < k * d
    PROVE  n \div d \in 0 .. k - 1 /\ n - (n \div d) * d \in 0 .. d - 1
<1> DEFINE q == n \div d
<1>1. q \in Nat /\ n - q * d \in 0 .. d - 1
  BY Remainder
<1> HIDE DEF q
<1>2. q * d \in Int /\ k * d \in Int
  BY <1>1
<1>3. q * d < k * d
  BY <1>1, <1>2, SMT
<1>4. q < k
  BY <1>1, <1>3, QuotientBound
<1>5. q \in 0 .. k - 1
  BY <1>1, <1>4, SMT
<1> QED BY <1>1, <1>5 DEF q

LEMMA BytePowers ==
    /\ BYTE_0 \in Nat \ {0} /\ BYTE_1 \in Nat \ {0} /\ BYTE_2 \in Nat \ {0}
    /\ BYTE_0 = BYTE_2 * BYTE_1 /\ BYTE_1 = BYTE_2 * BYTE_2
    /\ Bytes = 0 .. BYTE_2 - 1
BY SMT DEF BYTE_0, BYTE_1, BYTE_2, Bytes

\* Every u32 is written as four bytes, from which bytes_to_u32 reads it back.
THEOREM U32RoundTrip ==
    ASSUME NEW n \in Nat, n \div BYTE_0 \in Bytes
    PROVE  /\ u32_to_bytes(n) \in Seq(Bytes) /\ Len(u32_to_bytes(n)) = HeaderSize
           /\ bytes_to_u32(u32_to_bytes(n)) = n
<1>1. n < BYTE_2 * BYTE_0
  <2>1. PICK q \in Bytes : q = n \div BYTE_0
    OBVIOUS
  <2>2. n - q * BYTE_0 \in 0 .. BYTE_0 - 1
    BY <2>1, BytePowers, Remainder, Zenon
  <2>3. q * BYTE_0 <= (BYTE_2 - 1) * BYTE_0
    BY BytePowers, SMT
  <2> QED BY <2>1, <2>2, <2>3, BytePowers, SMT
<1> DEFINE first  == n \div BYTE_0
           rest1  == n - first * BYTE_0
           second == rest1 \div BYTE_1
           rest2  == rest1 - second * BYTE_1
           third  == rest2 \div BYTE_2
           fourth == rest2 - third * BYTE_2
<1>2. u32_to_bytes(n) = << first, second, third, fourth >>
  BY DEF u32_to_bytes
<1>3. /\ first = n \div BYTE_0 /\ rest1 = n - first * BYTE_0
      /\ second = rest1 \div BYTE_1 /\ rest2 = rest1 - second * BYTE_1
      /\ third = rest2 \div BYTE_2 /\ fourth = rest2 - third * BYTE_2
  OBVIOUS
<1> HIDE DEF first, rest1, second, rest2, third, fourth
<1>4. first \in 0 .. BYTE_2 - 1 /\ rest1 \in 0 .. BYTE_0 - 1
  BY <1>1, <1>3, BytePowers, Digit, Zenon
<1>5. second \in 0 .. BYTE_2 - 1 /\ rest2 \in 0 .. BYTE_1 - 1
  <2>1. rest1 \in Nat /\ rest1 < BYTE_2 * BYTE_1
    BY <1>4, BytePowers, SMT
  <2> QED BY <2>1, <1>3, BytePowers, Digit, Zenon
<1>6. third \in 0 .. BYTE_2 - 1 /\ fourth \in 0 .. BYTE_2 - 1
  <2>1. rest2 \in Nat /\ rest2 < BYTE_2 * BYTE_2
    BY <1>5, BytePowers, SMT
  <2> QED BY <2>1, <1>3, BytePowers, Digit, Zenon
<1>7. first * BYTE_0 + second * BYTE_1 + third * BYTE_2 + fourth = n
  <2>1. first * BYTE_0 \in Int /\ second * BYTE_1 \in Int /\ third * BYTE_2 \in Int
    BY <1>4, <1>5, <1>6, BytePowers, SMT
  <2> QED BY <2>1, <1>3, <1>4, <1>5, <1>6, SMT
<1>8. first \in Bytes /\ second \in Bytes /\ third \in Bytes /\ fourth \in Bytes
  BY <1>4, <1>5, <1>6, BytePowers, Zenon
<1>9. /\ << first, second, third, fourth >> \in Seq(Bytes)
      /\ Len(<< first, second, third, fourth >>) = HeaderSize
  BY <1>8, SMT DEF HeaderSize
<1>10. bytes_to_u32(<< first, second, third, fourth >>) = n
  BY <1>7, SMT DEF bytes_to_u32
<1> QED BY <1>2, <1>9, <1>10, Zenon

-----------------------------------------------------------------------------
(***************************************************************************)
(* Types and the buffer of the receiver.                                    *)
(***************************************************************************)
\* The sockets never hold more than BufferSize bytes.
SocketsHold == Len(inflight) + Len(arrived) <= BufferSize

IInv == TypeOK /\ SocketsHold /\ BufferFits

LEMMA SplitSeq ==
    ASSUME NEW s \in Seq(Bytes), NEW k \in 0 .. Len(s)
    PROVE  /\ First(s, k) \in Seq(Bytes) /\ Len(First(s, k)) = k
           /\ After(s, k) \in Seq(Bytes) /\ Len(After(s, k)) = Len(s) - k
BY SMT DEF First, After

LEMMA JoinSeq ==
    ASSUME NEW S, NEW s \in Seq(S), NEW t \in Seq(S)
    PROVE  s \o t \in Seq(S) /\ Len(s \o t) = Len(s) + Len(t)
BY SMT

\* What receive_message makes of a length and of what can be read.
LEMMA ReadPayloadFits ==
    ASSUME TypeOK, NEW length \in Nat \ {0}, NEW bytes \in Seq(Bytes),
           Len(buf) < length, ReadPayload(length, bytes)
    PROVE  /\ buf' \in Seq(Bytes) /\ next_message_length' \in Nat
           /\ arrived' \in Seq(Bytes) /\ Len(arrived') <= Len(bytes)
           /\ put' \in Seq(Messages) /\ handled' \in Seq(Seq(Bytes))
           /\ BufferFits'
<1> DEFINE k    == AtMost(length - Len(buf), Len(bytes))
           read == buf \o First(bytes, k)
<1>1. k \in 0 .. Len(bytes) /\ k <= length - Len(buf)
  BY SMT DEF AtMost, TypeOK
<1>2. read \in Seq(Bytes) /\ Len(read) = Len(buf) + k
  <2> HIDE DEF k
  <2>1. First(bytes, k) \in Seq(Bytes) /\ Len(First(bytes, k)) = k
    BY <1>1, SplitSeq
  <2> QED BY <2>1, JoinSeq DEF TypeOK
<1>3. arrived' = After(bytes, k)
  BY DEF ReadPayload
<1>4. arrived' \in Seq(Bytes) /\ Len(arrived') <= Len(bytes)
  <2> HIDE DEF k
  <2> QED BY <1>1, <1>3, SplitSeq, SMT
<1>5. CASE Len(read) = length
  <2>1. /\ buf' = << >> /\ next_message_length' = 0
        /\ handled' = Append(handled, read)
        /\ put' = IF put = << >> THEN put ELSE Tail(put)
    BY <1>5 DEF ReadPayload
  <2>2. put' \in Seq(Messages)
    BY <2>1, SMT DEF TypeOK
  <2>3. handled' \in Seq(Seq(Bytes))
    <3> HIDE DEF read
    <3> QED BY <2>1, <1>2, SMT DEF TypeOK
  <2> QED BY <1>4, <2>1, <2>2, <2>3 DEF BufferFits
<1>6. CASE Len(read) # length
  <2>1. buf' = read /\ next_message_length' = length /\ UNCHANGED << put, handled >>
    BY <1>6 DEF ReadPayload
  <2>2. Len(read) < length
    <3> HIDE DEF k, read
    <3> QED BY <1>1, <1>2, <1>6, SMT DEF TypeOK
  <2> HIDE DEF k, read
  <2> QED BY <1>2, <1>4, <2>1, <2>2 DEF BufferFits, TypeOK
<1> QED BY <1>5, <1>6

LEMMA Elements ==
    ASSUME NEW S, NEW s \in Seq(S), Len(s) = 4
    PROVE  s[1] \in S /\ s[2] \in S /\ s[3] \in S /\ s[4] \in S
<1>1. \A i \in 1 .. Len(s) : s[i] \in S
  BY ElementOfSeq
<1>2. 1 \in 1 .. 4 /\ 2 \in 1 .. 4 /\ 3 \in 1 .. 4 /\ 4 \in 1 .. 4
  BY SMT
<1> QED BY <1>1, <1>2

LEMMA LengthIsNat ==
    ASSUME NEW s \in Seq(Bytes), Len(s) >= HeaderSize
    PROVE  /\ bytes_to_u32(First(s, HeaderSize)) \in Nat
           /\ After(s, HeaderSize) \in Seq(Bytes)
           /\ Len(After(s, HeaderSize)) = Len(s) - HeaderSize
<1>1. /\ First(s, HeaderSize) \in Seq(Bytes) /\ Len(First(s, HeaderSize)) = 4
      /\ After(s, HeaderSize) \in Seq(Bytes) /\ Len(After(s, HeaderSize)) = Len(s) - HeaderSize
  <2>1. HeaderSize \in 0 .. Len(s) /\ HeaderSize = 4
    BY SMT DEF HeaderSize
  <2> QED BY <2>1, SplitSeq
<1> DEFINE header == First(s, HeaderSize)
<1>2. header \in Seq(Bytes) /\ Len(header) = 4
  BY <1>1
<1> HIDE DEF header
<1>3. header[1] \in Nat /\ header[2] \in Nat /\ header[3] \in Nat /\ header[4] \in Nat
  <2>1. Bytes \subseteq Nat
    BY SMT DEF Bytes
  <2>2. header[1] \in Bytes /\ header[2] \in Bytes /\ header[3] \in Bytes /\ header[4] \in Bytes
    BY <1>2, Elements, Zenon
  <2> QED BY <2>1, <2>2, Zenon
<1>4. \A i, j \in Nat : i + j \in Nat /\ i * j \in Nat
  BY SMT
<1>5. bytes_to_u32(header) \in Nat
  BY <1>3, <1>4, BytePowers, Zenon DEF bytes_to_u32
<1> QED BY <1>1, <1>5 DEF header

LEMMA WriteFits ==
    ASSUME IInv, NEW bytes \in Seq(Bytes), Write(bytes)
    PROVE  inflight' \in Seq(Bytes) /\ written' \in 0 .. MaxPut /\ SocketsHold'
<1> DEFINE k == AtMost(Room, Len(bytes))
<1>1. Room \in Nat
  BY SMT, BufferAssumption DEF IInv, TypeOK, SocketsHold, Room
<1>2. k \in 0 .. Len(bytes) /\ k <= Room
  BY <1>1, SMT DEF AtMost
<1>3. inflight' = inflight \o First(bytes, k) /\ arrived' = arrived
  BY DEF Write
<1> HIDE DEF k
<1>4. inflight' \in Seq(Bytes) /\ Len(inflight') = Len(inflight) + k
  <2>1. First(bytes, k) \in Seq(Bytes) /\ Len(First(bytes, k)) = k
    BY <1>2, SplitSeq
  <2> QED BY <1>3, <2>1, JoinSeq DEF IInv, TypeOK
<1>5. SocketsHold'
  BY <1>2, <1>3, <1>4, SMT, BufferAssumption DEF IInv, TypeOK, SocketsHold, Room
<1>6. written' \in 0 .. MaxPut
  BY SMT, BufferAssumption DEF Write, IInv, TypeOK
<1> QED BY <1>4, <1>5, <1>6

LEMMA InitFits == Init => IInv
<1>1. \A S : << >> \in Seq(S)
  BY SMT
<1>2. 0 \in 0 .. MaxPut /\ Len(<< >>) + Len(<< >>) <= BufferSize
  BY BufferAssumption, SMT
<1> SUFFICES ASSUME Init PROVE IInv
  OBVIOUS
<1>3. stream \in { "none", "open", "closed" } /\ torn \in BOOLEAN
  BY DEF Init
<1>4. inflight \in Seq(Bytes) /\ arrived \in Seq(Bytes) /\ buf \in Seq(Bytes)
  BY <1>1, Zenon DEF Init
<1>5. put \in Seq(Messages) /\ handled \in Seq(Seq(Bytes))
  BY <1>1, Zenon DEF Init
<1>6. written \in 0 .. MaxPut /\ next_message_length \in Nat /\ BufferFits
  BY <1>2 DEF Init, BufferFits
<1>7. SocketsHold
  BY <1>2, Zenon DEF Init, SocketsHold
<1> QED BY <1>3, <1>4, <1>5, <1>6, <1>7, Zenon DEF IInv, TypeOK

LEMMA SenderFits ==
    ASSUME IInv,
           NewStream \/ Reset \/ Close \/ SendKeepAlive \/ (\E m \in Messages : send_msg(m))
    PROVE  IInv'
<1> USE BufferAssumption DEF IInv, TypeOK, SocketsHold, BufferFits
<1>1. CASE NewStream
  BY <1>1, SMT DEF NewStream, peerVars
<1>2. CASE Reset
  BY <1>2, SMT DEF Reset, OnBrokenConnection, historyVars
<1>3. CASE Close
  BY <1>3, SMT DEF Close, peerVars, historyVars
<1>4. CASE SendKeepAlive
  <2>1. 0 \div BYTE_0 \in Bytes
    BY SMT DEF BYTE_0, Bytes
  <2>2. u32_to_bytes(0) \in Seq(Bytes)
    BY <2>1, U32RoundTrip
  <2>3. inflight' \in Seq(Bytes) /\ written' \in 0 .. MaxPut /\ SocketsHold'
    BY <1>4, <2>2, WriteFits DEF SendKeepAlive
  <2> QED BY <1>4, <2>3, SMT DEF SendKeepAlive, Write, peerVars, historyVars
<1>5. ASSUME NEW m \in Messages, send_msg(m) PROVE IInv'
  <2>1. m \in Seq(Bytes) /\ Len(m) \in Nat /\ Len(m) \div BYTE_0 \in Bytes
    BY MessageAssumption DEF BYTE_0
  <2>2. serialize(m) \in Seq(Bytes)
    BY <2>1, U32RoundTrip DEF serialize
  <2>3. inflight' \in Seq(Bytes) /\ written' \in 0 .. MaxPut /\ SocketsHold'
    BY <1>5, <2>2, WriteFits DEF send_msg
  <2>4. put' \in Seq(Messages) /\ torn' \in BOOLEAN
    BY <1>5 DEF send_msg
  <2> QED BY <1>5, <2>3, <2>4, SMT DEF send_msg, Write, peerVars
<1> QED BY <1>1, <1>2, <1>3, <1>4, <1>5

LEMMA ArriveFits ==
    ASSUME IInv, NEW k \in 1 .. Len(inflight), Arrive(k)
    PROVE  IInv'
<1>1. k \in 0 .. Len(inflight)
  BY DEF IInv, TypeOK
<1>2. /\ arrived' \in Seq(Bytes) /\ Len(arrived') = Len(arrived) + k
      /\ inflight' \in Seq(Bytes) /\ Len(inflight') = Len(inflight) - k
  <2>1. First(inflight, k) \in Seq(Bytes) /\ Len(First(inflight, k)) = k
    BY <1>1, SplitSeq DEF IInv, TypeOK
  <2>2. /\ arrived \o First(inflight, k) \in Seq(Bytes)
        /\ Len(arrived \o First(inflight, k)) = Len(arrived) + k
    BY <2>1, JoinSeq DEF IInv, TypeOK
  <2> QED BY <1>1, <2>2, SplitSeq DEF Arrive, IInv, TypeOK
<1> QED
  BY <1>1, <1>2, BufferAssumption, SMT
  DEF Arrive, IInv, TypeOK, SocketsHold, BufferFits, peerVars, historyVars

LEMMA ReceiveFits ==
    ASSUME IInv, Receive
    PROVE  IInv'
<1> USE BufferAssumption DEF IInv
<1>1. CASE ReceiveNoLength
  BY <1>1, SMT DEF ReceiveNoLength, peerVars, TypeOK, SocketsHold, BufferFits
<1>2. CASE ReceiveKeepAlive
  <2>1. arrived' \in Seq(Bytes) /\ Len(arrived') <= Len(arrived)
    BY <1>2, LengthIsNat, SMT DEF ReceiveKeepAlive, TypeOK, HeaderSize
  <2> QED
    BY <1>2, <2>1, SMT DEF ReceiveKeepAlive, peerVars, historyVars, TypeOK, SocketsHold, BufferFits
<1>3. CASE ReceiveLength
  <2> DEFINE length == bytes_to_u32(First(arrived, HeaderSize))
             bytes  == After(arrived, HeaderSize)
  <2>1. length \in Nat \ {0} /\ bytes \in Seq(Bytes) /\ Len(bytes) <= Len(arrived)
    BY <1>3, LengthIsNat, SMT DEF ReceiveLength, TypeOK, HeaderSize
  <2>2. Len(buf) < length
    BY <1>3, <2>1 DEF ReceiveLength, BufferFits
  <2>3. ReadPayload(length, bytes)
    BY <1>3 DEF ReceiveLength
  <2> HIDE DEF length, bytes
  <2>4. /\ buf' \in Seq(Bytes) /\ next_message_length' \in Nat
        /\ arrived' \in Seq(Bytes) /\ Len(arrived') <= Len(bytes)
        /\ put' \in Seq(Messages) /\ handled' \in Seq(Seq(Bytes)) /\ BufferFits'
    BY <2>1, <2>2, <2>3, ReadPayloadFits
  <2> QED BY <1>3, <2>1, <2>4, SMT DEF ReceiveLength, TypeOK, SocketsHold
<1>4. CASE ReceiveMore
  <2>1. next_message_length \in Nat \ {0} /\ Len(buf) < next_message_length /\ arrived \in Seq(Bytes)
    BY <1>4 DEF ReceiveMore, TypeOK, BufferFits
  <2>2. /\ buf' \in Seq(Bytes) /\ next_message_length' \in Nat
        /\ arrived' \in Seq(Bytes) /\ Len(arrived') <= Len(arrived)
        /\ put' \in Seq(Messages) /\ handled' \in Seq(Seq(Bytes)) /\ BufferFits'
    BY <1>4, <2>1, ReadPayloadFits DEF ReceiveMore
  <2> QED BY <1>4, <2>2, SMT DEF ReceiveMore, TypeOK, SocketsHold
<1>5. CASE ReceiveEnd
  BY <1>5, SMT DEF ReceiveEnd, OnBrokenConnection, historyVars, TypeOK, SocketsHold, BufferFits
<1> QED BY <1>1, <1>2, <1>3, <1>4, <1>5 DEF Receive

LEMMA StepIInv == IInv /\ [Next]_vars => IInv'
<1> SUFFICES ASSUME IInv, [Next]_vars PROVE IInv'
  OBVIOUS
<1>1. CASE UNCHANGED vars
  BY <1>1 DEF vars, streamVars, peerVars, historyVars, IInv, TypeOK, SocketsHold, BufferFits
<1> QED BY <1>1, SenderFits, ArriveFits, ReceiveFits DEF Next

\* Whatever is sent and however it is cut, lost or replaced, the receiver's buffer holds
\* less than the message being read: the bytes still missing are a positive number.
THEOREM BufferAlwaysFits == Spec => []BufferFits
<1>1. IInv => BufferFits
  BY DEF IInv
<1> QED BY InitFits, StepIInv, <1>1, PTL DEF Spec

-----------------------------------------------------------------------------
(***************************************************************************)
(* Bytes that are whole messages and keep-alives, one after the other.        *)
(***************************************************************************)
\* The length that begins after position p.
LenAt(s, p) == s[p + 1] * BYTE_0 + s[p + 2] * BYTE_1 + s[p + 3] * BYTE_2 + s[p + 4]

\* P are the positions in s, from b on, between one frame and the next, and message j of
\* ms begins at at[j]; what begins at no at[j] is a keep-alive.
FramesAt(s, b, ms, P, at) ==
    /\ \A p \in P : p >= b /\ p <= Len(s)
    /\ b \in P /\ Len(s) \in P
    /\ \A p \in P \ { Len(s) } :
         /\ p + HeaderSize <= Len(s)
         /\ p + HeaderSize + LenAt(s, p) \in P
         /\ \A q \in P : q > p => q >= p + HeaderSize + LenAt(s, p)
         /\ LenAt(s, p) > 0 => \E j \in 1 .. Len(ms) : at[j] = p
    /\ \A j \in 1 .. Len(ms) :
         /\ at[j] \in P \ { Len(s) } /\ LenAt(s, at[j]) = Len(ms[j])
         /\ \A i \in 1 .. Len(ms[j]) : s[at[j] + HeaderSize + i] = ms[j][i]
         /\ \A i \in 1 .. j - 1 : at[i] < at[j]

Frames(s, b, ms) ==
    \E P \in SUBSET Nat, at \in [1 .. Len(ms) -> Nat] : FramesAt(s, b, ms, P, at)

LEMMA LenAtNat ==
    ASSUME NEW s \in Seq(Bytes), NEW p \in Nat, p + HeaderSize <= Len(s)
    PROVE  LenAt(s, p) \in Nat
<1>1. p + 1 \in 1 .. Len(s) /\ p + 2 \in 1 .. Len(s) /\ p + 3 \in 1 .. Len(s) /\ p + 4 \in 1 .. Len(s)
  BY SMT, LenProperties DEF HeaderSize
<1>2. \A k \in 1 .. Len(s) : s[k] \in Nat
  <2>1. Bytes \subseteq Nat
    BY SMT DEF Bytes
  <2> QED BY <2>1, ElementOfSeq
<1>3. s[p + 1] \in Nat /\ s[p + 2] \in Nat /\ s[p + 3] \in Nat /\ s[p + 4] \in Nat
  BY <1>1, <1>2
<1>4. \A i, j \in Nat : i + j \in Nat /\ i * j \in Nat
  BY SMT
<1> QED BY <1>3, <1>4, BytePowers, Zenon DEF LenAt

LEMMA LenAtSame ==
    \A s, t \in Seq(Bytes) : \A p, q \in Nat :
        (\A i \in 1 .. HeaderSize : t[q + i] = s[p + i]) => LenAt(t, q) = LenAt(s, p)
<1> SUFFICES ASSUME NEW s \in Seq(Bytes), NEW t \in Seq(Bytes), NEW p \in Nat, NEW q \in Nat,
                    \A i \in 1 .. HeaderSize : t[q + i] = s[p + i]
             PROVE  LenAt(t, q) = LenAt(s, p)
  BY Zenon
<1>1. 1 \in 1 .. HeaderSize /\ 2 \in 1 .. HeaderSize /\ 3 \in 1 .. HeaderSize /\ 4 \in 1 .. HeaderSize
  BY SMT DEF HeaderSize
<1>2. t[q + 1] = s[p + 1] /\ t[q + 2] = s[p + 2] /\ t[q + 3] = s[p + 3] /\ t[q + 4] = s[p + 4]
  BY <1>1, Zenon
<1> QED BY <1>2, Zenon DEF LenAt

\* No bytes are no messages.
LEMMA NoFrames ==
    ASSUME NEW s \in Seq(Bytes), NEW b \in Nat, Len(s) = b
    PROVE  Frames(s, b, << >>)
<1> DEFINE at == [j \in 1 .. Len(<< >>) |-> 0]
<1>1. { b } \in SUBSET Nat /\ at \in [1 .. Len(<< >>) -> Nat] /\ 1 .. Len(<< >>) = {}
  BY SMT
<1>2. FramesAt(s, b, << >>, { b }, at)
  BY <1>1 DEF FramesAt
<1> QED BY <1>1, <1>2 DEF Frames

\* The same bytes, without d of them that were before.
LEMMA FramesShift ==
    ASSUME NEW s \in Seq(Bytes), NEW t \in Seq(Bytes), NEW b \in Nat, NEW ms \in Seq(Messages),
           NEW d \in 0 .. b, Len(t) = Len(s) - d,
           \A k \in 1 .. Len(t) : t[k] = s[k + d], Frames(s, b, ms)
    PROVE  Frames(t, b - d, ms)
<1>1. PICK P \in SUBSET Nat, at \in [1 .. Len(ms) -> Nat] : FramesAt(s, b, ms, P, at)
  BY DEF Frames
<1> DEFINE Q == { p - d : p \in P }
           bt == [j \in 1 .. Len(ms) |-> at[j] - d]
<1>2. /\ Len(s) \in Nat /\ Len(t) \in Nat /\ d \in Nat /\ d <= b /\ Len(ms) \in Nat
      /\ Len(s) \in P /\ b \in P
      /\ \A p \in P : p \in Nat /\ p >= b /\ p <= Len(s)
  BY <1>1, LenProperties DEF FramesAt
<1>3. Q \in SUBSET Nat /\ b - d \in Q /\ Len(t) \in Q /\ \A q \in Q : q >= b - d /\ q <= Len(t)
  BY <1>2
<1>4. /\ bt \in [1 .. Len(ms) -> Nat]
      /\ \A j \in 1 .. Len(ms) : /\ at[j] \in P \ { Len(s) } /\ at[j] \in Nat
                                 /\ bt[j] = at[j] - d /\ bt[j] + d = at[j]
  <2>1. \A j \in 1 .. Len(ms) : at[j] \in P \ { Len(s) }
    BY <1>1 DEF FramesAt
  <2>2. \A j \in 1 .. Len(ms) : at[j] \in Nat /\ at[j] >= b
    BY <1>2, <2>1
  <2>3. \A n \in Nat : n >= b => n - d \in Nat /\ n - d + d = n
    BY <1>2
  <2> QED BY <2>1, <2>2, <2>3, Zenon
<1>5. \A p \in P \ { Len(s) } :
        /\ p + HeaderSize <= Len(s) /\ LenAt(s, p) \in Nat /\ LenAt(t, p - d) = LenAt(s, p)
        /\ p + HeaderSize + LenAt(s, p) \in P
        /\ \A q \in P : q > p => q >= p + HeaderSize + LenAt(s, p)
        /\ LenAt(s, p) > 0 => \E j \in 1 .. Len(ms) : at[j] = p
  <2> TAKE p \in P \ { Len(s) }
  <2>1. /\ p + HeaderSize <= Len(s) /\ p + HeaderSize + LenAt(s, p) \in P
        /\ \A q \in P : q > p => q >= p + HeaderSize + LenAt(s, p)
        /\ LenAt(s, p) > 0 => \E j \in 1 .. Len(ms) : at[j] = p
    BY <1>1 DEF FramesAt
  <2>2. p \in Nat /\ p - d \in Nat
    BY <1>2
  <2>3. \A i \in 1 .. HeaderSize : p - d + i \in 1 .. Len(t) /\ p - d + i + d = p + i
    BY <1>2, <2>1, <2>2 DEF HeaderSize
  <2>4. \A i \in 1 .. HeaderSize : t[p - d + i] = s[p + i]
    BY <2>3
  <2>5. LenAt(t, p - d) = LenAt(s, p) /\ LenAt(s, p) \in Nat
    <3>1. LenAt(s, p) \in Nat
      BY <2>1, <2>2, LenAtNat
    <3>2. \A o \in Nat : (\A i \in 1 .. HeaderSize : t[o + i] = s[p + i]) => LenAt(t, o) = LenAt(s, p)
      BY <2>2, LenAtSame, Zenon
    <3>3. p - d \in Nat
      BY <2>2
    <3> QED BY <2>4, <3>1, <3>2, <3>3, Zenon
  <2> QED BY <2>1, <2>5
<1>6. ASSUME NEW q \in Q \ { Len(t) }
      PROVE  /\ q + HeaderSize <= Len(t)
             /\ q + HeaderSize + LenAt(t, q) \in Q
             /\ \A r \in Q : r > q => r >= q + HeaderSize + LenAt(t, q)
             /\ LenAt(t, q) > 0 => \E j \in 1 .. Len(ms) : bt[j] = q
  <2>1. PICK p \in P : q = p - d
    OBVIOUS
  <2>2. p \in P \ { Len(s) } /\ p \in Nat /\ HeaderSize \in Nat
    BY <2>1, <1>2 DEF HeaderSize
  <2> DEFINE n == LenAt(s, p)
  <2>3. /\ n \in Nat /\ LenAt(t, q) = n /\ p + HeaderSize <= Len(s)
        /\ p + HeaderSize + n \in P
        /\ \A r \in P : r > p => r >= p + HeaderSize + n
        /\ n > 0 => \E j \in 1 .. Len(ms) : at[j] = p
    BY <1>5, <2>1, <2>2
  <2> HIDE DEF n
  <2>4. q + HeaderSize + n = (p + HeaderSize + n) - d /\ q + HeaderSize <= Len(t)
    BY <1>2, <2>1, <2>2, <2>3
  <2>5. q + HeaderSize + n \in Q
    BY <2>3, <2>4
  <2>6. ASSUME NEW r \in Q, r > q PROVE r >= q + HeaderSize + n
    <3>1. PICK u \in P : r = u - d
      OBVIOUS
    <3>2. u \in Nat /\ u > p
      BY <1>2, <2>1, <2>2, <2>6, <3>1
    <3>3. u >= p + HeaderSize + n
      BY <2>3, <3>2
    <3> QED BY <1>2, <2>1, <2>2, <2>3, <3>1, <3>2, <3>3
  <2>7. n > 0 => \E j \in 1 .. Len(ms) : bt[j] = q
    BY <1>4, <2>1, <2>3
  <2> QED BY <2>3, <2>4, <2>5, <2>6, <2>7
<1>7. ASSUME NEW j \in 1 .. Len(ms)
      PROVE  /\ bt[j] \in Q \ { Len(t) } /\ LenAt(t, bt[j]) = Len(ms[j])
             /\ \A i \in 1 .. Len(ms[j]) : t[bt[j] + HeaderSize + i] = ms[j][i]
             /\ \A i \in 1 .. j - 1 : bt[i] < bt[j]
  <2> DEFINE p == at[j]
  <2>1. /\ p \in P \ { Len(s) } /\ p \in Nat /\ bt[j] = p - d /\ LenAt(s, p) = Len(ms[j])
        /\ \A i \in 1 .. Len(ms[j]) : s[p + HeaderSize + i] = ms[j][i]
        /\ \A i \in 1 .. j - 1 : at[i] < p
    BY <1>1, <1>4 DEF FramesAt
  <2>2. p + HeaderSize + Len(ms[j]) <= Len(s) /\ Len(ms[j]) \in Nat /\ LenAt(t, p - d) = Len(ms[j])
    BY <1>2, <1>5, <2>1
  <2>3. bt[j] \in Q \ { Len(t) }
    BY <1>2, <2>1
  <2> HIDE DEF p
  <2>4. \A i \in 1 .. Len(ms[j]) : /\ p - d + HeaderSize + i \in 1 .. Len(t)
                                   /\ p - d + HeaderSize + i + d = p + HeaderSize + i
    <3> DEFINE n == Len(ms[j])
    <3>1. n \in Nat /\ p \in Nat /\ p >= b /\ p + HeaderSize + n <= Len(s)
      BY <1>2, <2>1, <2>2
    <3> HIDE DEF n
    <3>2. \A i \in 1 .. n : /\ p - d + HeaderSize + i \in 1 .. Len(t)
                            /\ p - d + HeaderSize + i + d = p + HeaderSize + i
      BY <1>2, <3>1 DEF HeaderSize
    <3> QED BY <3>2 DEF n
  <2>5. \A i \in 1 .. Len(ms[j]) : t[p - d + HeaderSize + i] = ms[j][i]
    BY <2>1, <2>4
  <2>6. \A i \in 1 .. j - 1 : i \in 1 .. Len(ms)
    BY <1>2
  <2>7. \A i \in 1 .. j - 1 : bt[i] < bt[j]
    <3> TAKE i \in 1 .. j - 1
    <3>1. at[i] < p /\ bt[i] = at[i] - d /\ at[i] \in Nat
      BY <1>4, <2>1, <2>6
    <3> HIDE DEF bt
    <3> QED BY <1>2, <2>1, <3>1
  <2> QED BY <2>1, <2>2, <2>3, <2>5, <2>7
<1> HIDE DEF Q, bt
<1>8. FramesAt(t, b - d, ms, Q, bt)
  BY <1>3, <1>6, <1>7 DEF FramesAt
<1> QED BY <1>3, <1>4, <1>8 DEF Frames

\* The first frame is a keep-alive, or the first message.
LEMMA FirstFrame ==
    ASSUME NEW s \in Seq(Bytes), NEW b \in Nat, NEW ms \in Seq(Messages),
           b < Len(s), Frames(s, b, ms)
    PROVE  /\ LenAt(s, b) \in Nat /\ b + HeaderSize + LenAt(s, b) <= Len(s)
           /\ LenAt(s, b) = 0 => Frames(s, b + HeaderSize, ms)
           /\ LenAt(s, b) > 0 =>
                /\ ms # << >> /\ Len(ms[1]) = LenAt(s, b)
                /\ \A i \in 1 .. LenAt(s, b) : ms[1][i] = s[b + HeaderSize + i]
                /\ Frames(s, b + HeaderSize + LenAt(s, b), Tail(ms))
<1>1. PICK P \in SUBSET Nat, at \in [1 .. Len(ms) -> Nat] : FramesAt(s, b, ms, P, at)
  BY DEF Frames
<1> DEFINE n == LenAt(s, b)
           e == b + HeaderSize + n
           Q == { p \in P : p >= e }
<1>2. /\ Len(s) \in Nat /\ Len(ms) \in Nat /\ HeaderSize \in Nat \ {0}
      /\ \A p \in P : p \in Nat /\ p >= b /\ p <= Len(s)
  BY <1>1, LenProperties DEF FramesAt, HeaderSize
<1>3. /\ b \in P \ { Len(s) } /\ Len(s) \in P
      /\ b + HeaderSize <= Len(s) /\ e \in P
      /\ \A q \in P : q > b => q >= e
      /\ n > 0 => \E j \in 1 .. Len(ms) : at[j] = b
  BY <1>1, <1>2 DEF FramesAt
<1>4. n \in Nat
  BY <1>3, LenAtNat
<1> HIDE DEF n
<1>5. e \in Nat /\ e > b /\ e <= Len(s)
  BY <1>2, <1>3, <1>4
<1> HIDE DEF e
<1>6. /\ Q \in SUBSET Nat /\ e \in Q /\ Len(s) \in Q /\ \A p \in Q : p >= e /\ p <= Len(s)
      /\ \A p \in P : p # b => p \in Q
  <2>1. \A p \in P : p # b => p >= e
    BY <1>2, <1>3
  <2>2. e >= e /\ Len(s) >= e
    BY <1>2, <1>5
  <2> QED BY <1>2, <1>3, <2>1, <2>2
<1>7. \A p \in Q \ { Len(s) } :
        /\ p \in P \ { Len(s) } /\ p # b
        /\ p + HeaderSize <= Len(s) /\ LenAt(s, p) \in Nat
        /\ p + HeaderSize + LenAt(s, p) \in Q
        /\ \A q \in Q : q > p => q >= p + HeaderSize + LenAt(s, p)
        /\ LenAt(s, p) > 0 => \E j \in 1 .. Len(ms) : at[j] = p
  <2> TAKE p \in Q \ { Len(s) }
  <2>1. p \in P \ { Len(s) } /\ p \in Nat /\ p >= e
    BY <1>2
  <2>2. /\ p + HeaderSize <= Len(s)
        /\ p + HeaderSize + LenAt(s, p) \in P
        /\ \A q \in P : q > p => q >= p + HeaderSize + LenAt(s, p)
        /\ LenAt(s, p) > 0 => \E j \in 1 .. Len(ms) : at[j] = p
    BY <1>1, <2>1 DEF FramesAt
  <2>3. LenAt(s, p) \in Nat
    BY <2>1, <2>2, LenAtNat
  <2>4. p + HeaderSize + LenAt(s, p) >= e
    BY <1>2, <1>5, <2>1, <2>3
  <2> QED BY <1>5, <2>1, <2>2, <2>3, <2>4
<1>8. \A j \in 1 .. Len(ms) :
        /\ at[j] \in P \ { Len(s) } /\ LenAt(s, at[j]) = Len(ms[j])
        /\ \A i \in 1 .. Len(ms[j]) : s[at[j] + HeaderSize + i] = ms[j][i]
        /\ \A i \in 1 .. j - 1 : at[i] < at[j]
        /\ Len(ms[j]) > 0
  <2> TAKE j \in 1 .. Len(ms)
  <2>1. ms[j] \in Seq(Bytes) /\ ms[j] # << >>
    BY MessageAssumption, ElementOfSeq
  <2>2. Len(ms[j]) > 0
    BY <2>1, EmptySeq
  <2> QED BY <1>1, <2>2 DEF FramesAt
<1> HIDE DEF Q
<1>9. ASSUME n = 0 PROVE Frames(s, b + HeaderSize, ms)
  <2>1. e = b + HeaderSize
    BY <1>2, <1>9 DEF e
  <2>2. \A j \in 1 .. Len(ms) : at[j] \in Q \ { Len(s) }
    <3> TAKE j \in 1 .. Len(ms)
    <3>1. at[j] # b
      BY <1>8, <1>9 DEF n
    <3> QED BY <1>6, <1>8, <3>1
  <2>3. FramesAt(s, e, ms, Q, at)
    BY <1>6, <1>7, <1>8, <2>2 DEF FramesAt
  <2> QED BY <1>6, <2>1, <2>3 DEF Frames
<1>10. ASSUME n > 0
       PROVE  /\ ms # << >> /\ Len(ms[1]) = n
              /\ \A i \in 1 .. n : ms[1][i] = s[b + HeaderSize + i]
              /\ Frames(s, e, Tail(ms))
  <2>1. PICK j \in 1 .. Len(ms) : at[j] = b
    BY <1>3, <1>10
  <2>2. j = 1 /\ 1 \in 1 .. Len(ms)
    <3> SUFFICES ASSUME j # 1 PROVE FALSE
      BY <1>2
    <3>1. 1 \in 1 .. Len(ms) /\ 1 \in 1 .. j - 1
      BY <1>2
    <3>2. at[1] < b /\ at[1] \in P
      BY <1>8, <2>1, <3>1
    <3> QED BY <1>2, <3>2
  <2>3. at[1] = b /\ Len(ms[1]) = n
    BY <1>8, <2>1, <2>2 DEF n
  <2>4. \A i \in 1 .. n : ms[1][i] = s[b + HeaderSize + i]
    BY <1>8, <2>2, <2>3
  <2> DEFINE l == Len(ms) - 1
             tl == Tail(ms)
             bt == [i \in 1 .. l |-> at[i + 1]]
  <2>5. ms # << >>
    BY <2>2, EmptySeq
  <2>6. /\ tl \in Seq(Messages) /\ Len(tl) = l /\ l \in Nat
        /\ \A i \in 1 .. l : tl[i] = ms[i + 1] /\ i + 1 \in 1 .. Len(ms) /\ i + 1 # 1
    <3>1. /\ tl \in Seq(Messages) /\ Len(tl) = Len(ms) - 1
          /\ \A i \in 1 .. Len(tl) : tl[i] = ms[i + 1]
      BY <2>5, HeadTailProperties
    <3> QED BY <1>2, <2>2, <3>1
  <2>7. \A i \in 1 .. Len(ms) : i # 1 => at[i] \in Q \ { Len(s) }
    <3> SUFFICES ASSUME NEW i \in 1 .. Len(ms), i # 1 PROVE at[i] \in Q \ { Len(s) }
      OBVIOUS
    <3>1. 1 \in 1 .. i - 1
      BY <1>2
    <3>2. at[1] < at[i]
      BY <1>8, <3>1
    <3>3. at[i] # b
      BY <2>3, <3>2
    <3> QED BY <1>6, <1>8, <3>3
  <2>8. bt \in [1 .. l -> Nat] /\ \A i \in 1 .. l : bt[i] = at[i + 1] /\ bt[i] \in Q \ { Len(s) }
    BY <2>6, <2>7
  <2>9. ASSUME NEW i \in 1 .. l
        PROVE  /\ bt[i] \in Q \ { Len(s) } /\ LenAt(s, bt[i]) = Len(tl[i])
               /\ \A k \in 1 .. Len(tl[i]) : s[bt[i] + HeaderSize + k] = tl[i][k]
               /\ \A k \in 1 .. i - 1 : bt[k] < bt[i]
    <3>1. \A k \in 1 .. i - 1 : k \in 1 .. l /\ k + 1 \in 1 .. (i + 1) - 1
      BY <2>6
    <3>2. \A k \in 1 .. i - 1 : at[k + 1] < at[i + 1]
      BY <1>8, <2>6, <3>1
    <3>3. \A k \in 1 .. i - 1 : bt[k] < bt[i]
      BY <2>8, <3>1, <3>2
    <3>4. tl[i] = ms[i + 1] /\ bt[i] = at[i + 1] /\ i + 1 \in 1 .. Len(ms)
      BY <2>6, <2>8
    <3> HIDE DEF bt, tl, l
    <3> QED BY <1>8, <2>8, <3>3, <3>4
  <2>10. \A p \in Q \ { Len(s) } : LenAt(s, p) > 0 => \E i \in 1 .. l : bt[i] = p
    <3> SUFFICES ASSUME NEW p \in Q \ { Len(s) }, LenAt(s, p) > 0
                 PROVE  \E i \in 1 .. l : bt[i] = p
      OBVIOUS
    <3>1. PICK i \in 1 .. Len(ms) : at[i] = p
      BY <1>7
    <3>2. i # 1
      BY <1>7, <2>3, <3>1
    <3>3. i - 1 \in 1 .. l /\ i - 1 + 1 = i
      BY <1>2, <3>2
    <3>4. bt[i - 1] = p
      BY <3>1, <3>3
    <3> QED BY <3>3, <3>4
  <2> HIDE DEF bt, tl, l
  <2>11. FramesAt(s, e, tl, Q, bt)
    BY <1>6, <1>7, <2>6, <2>9, <2>10 DEF FramesAt
  <2>12. Frames(s, e, tl)
    BY <1>6, <2>6, <2>8, <2>11 DEF Frames
  <2> QED BY <2>3, <2>4, <2>5, <2>12 DEF tl
<1> QED BY <1>4, <1>5, <1>9, <1>10 DEF e, n

\* Another frame comes after the others: positions stay, and its beginning is one more.
LEMMA FrameAdded ==
    ASSUME NEW s \in Seq(Bytes), NEW t \in Seq(Bytes), NEW b \in Nat, NEW ms \in Seq(Messages),
           NEW x \in Seq(Bytes), Len(t) = Len(s) + HeaderSize + Len(x),
           \A k \in 1 .. Len(s) : t[k] = s[k], LenAt(t, Len(s)) = Len(x),
           \A i \in 1 .. Len(x) : t[Len(s) + HeaderSize + i] = x[i], Frames(s, b, ms)
    PROVE  /\ Len(x) = 0 => Frames(t, b, ms)
           /\ x \in Messages => Frames(t, b, Append(ms, x))
<1>1. PICK P \in SUBSET Nat, at \in [1 .. Len(ms) -> Nat] : FramesAt(s, b, ms, P, at)
  BY DEF Frames
<1> DEFINE e == Len(s)
           n == Len(x)
           f == Len(t)
           l == Len(ms)
           Q == P \cup { f }
<1>2. /\ e \in Nat /\ n \in Nat /\ f \in Nat /\ l \in Nat /\ HeaderSize \in Nat \ {0}
      /\ f = e + HeaderSize + n /\ f > e
      /\ \A p \in P : p \in Nat /\ p >= b /\ p <= e
      /\ b \in P /\ e \in P
  BY <1>1, LenProperties DEF FramesAt, HeaderSize
<1> HIDE DEF f
<1>3. /\ Q \in SUBSET Nat /\ b \in Q /\ f \in Q /\ \A p \in Q : p >= b /\ p <= f
      /\ \A p \in P : p \in Q /\ p # f
      /\ \A p \in Q \ { f } : p \in P
  <2>1. \A p \in P : p <= f /\ p # f
    BY <1>2
  <2>2. b <= f /\ f <= f
    BY <1>2, <2>1
  <2>3. \A p \in Q : p >= b /\ p <= f
    BY <1>2, <2>1, <2>2
  <2>4. Q \in SUBSET Nat
    BY <1>2
  <2> HIDE DEF f
  <2> QED BY <1>2, <2>1, <2>3, <2>4
<1>4. \A p \in P \ { e } :
        /\ p + HeaderSize <= e /\ LenAt(s, p) \in Nat /\ LenAt(t, p) = LenAt(s, p)
        /\ p + HeaderSize + LenAt(s, p) \in P
        /\ \A q \in P : q > p => q >= p + HeaderSize + LenAt(s, p)
        /\ LenAt(s, p) > 0 => \E j \in 1 .. l : at[j] = p
  <2> TAKE p \in P \ { e }
  <2>1. /\ p + HeaderSize <= e /\ p + HeaderSize + LenAt(s, p) \in P
        /\ \A q \in P : q > p => q >= p + HeaderSize + LenAt(s, p)
        /\ LenAt(s, p) > 0 => \E j \in 1 .. l : at[j] = p
    BY <1>1 DEF FramesAt
  <2>2. p \in Nat
    BY <1>2
  <2>3. LenAt(s, p) \in Nat
    BY <2>1, <2>2, LenAtNat
  <2>4. \A i \in 1 .. HeaderSize : p + i \in 1 .. e
    BY <1>2, <2>1, <2>2
  <2>5. \A i \in 1 .. HeaderSize : t[p + i] = s[p + i]
    BY <2>4
  <2>6. \A o \in Nat : (\A i \in 1 .. HeaderSize : t[o + i] = s[p + i]) => LenAt(t, o) = LenAt(s, p)
    BY <2>2, LenAtSame, Zenon
  <2>7. LenAt(t, p) = LenAt(s, p)
    BY <2>2, <2>5, <2>6, Zenon
  <2> QED BY <2>1, <2>3, <2>7
\* The new frame, and the old ones in the longer sequence.
<1>5. /\ e + HeaderSize <= f /\ e + HeaderSize + LenAt(t, e) = f
      /\ \A q \in Q : q > e => q >= e + HeaderSize + LenAt(t, e)
  <2>1. \A q \in Q : q > e => q = f
    BY <1>2
  <2> QED BY <1>2, <2>1
<1>6. \A p \in Q \ { f } :
        /\ p + HeaderSize <= f
        /\ p + HeaderSize + LenAt(t, p) \in Q
        /\ \A q \in Q : q > p => q >= p + HeaderSize + LenAt(t, p)
        /\ p # e /\ LenAt(t, p) > 0 => \E j \in 1 .. l : at[j] = p
  <2> TAKE p \in Q \ { f }
  <2>1. CASE p = e
    BY <1>2, <1>3, <1>5, <2>1
  <2>2. CASE p # e
    <3>1. p \in P \ { e } /\ p \in Nat
      BY <1>2, <2>2
    <3> DEFINE d == LenAt(s, p)
    <3>2. /\ p + HeaderSize <= e /\ d \in Nat /\ LenAt(t, p) = d
          /\ p + HeaderSize + d \in P
          /\ \A q \in P : q > p => q >= p + HeaderSize + d
          /\ d > 0 => \E j \in 1 .. l : at[j] = p
      BY <1>4, <3>1
    <3> HIDE DEF d
    <3>3. p + HeaderSize <= f /\ f >= p + HeaderSize + d
      BY <1>2, <3>1, <3>2
    <3>4. \A q \in Q : q > p => q >= p + HeaderSize + d
      BY <3>2, <3>3
    <3> QED BY <1>3, <3>2, <3>3, <3>4
  <2> QED BY <2>1, <2>2
<1>7. \A j \in 1 .. l :
        /\ at[j] \in P \ { e } /\ at[j] \in Nat /\ at[j] < e /\ LenAt(t, at[j]) = Len(ms[j])
        /\ \A i \in 1 .. Len(ms[j]) : t[at[j] + HeaderSize + i] = ms[j][i]
        /\ \A i \in 1 .. j - 1 : at[i] < at[j]
  <2> TAKE j \in 1 .. l
  <2>1. /\ at[j] \in P \ { e } /\ LenAt(s, at[j]) = Len(ms[j])
        /\ \A i \in 1 .. Len(ms[j]) : s[at[j] + HeaderSize + i] = ms[j][i]
        /\ \A i \in 1 .. j - 1 : at[i] < at[j]
    BY <1>1 DEF FramesAt
  <2> DEFINE p == at[j]
             d == Len(ms[j])
  <2>2. /\ p \in Nat /\ p < e /\ d \in Nat /\ LenAt(t, p) = d
        /\ p + HeaderSize + d \in P /\ p + HeaderSize + d <= e
    <3>1. p \in Nat /\ p <= e /\ p # e
      BY <1>2, <2>1
    <3>2. LenAt(s, p) \in Nat /\ LenAt(t, p) = LenAt(s, p) /\ p + HeaderSize + LenAt(s, p) \in P
      BY <1>4, <2>1
    <3> QED BY <1>2, <2>1, <3>1, <3>2
  <2> HIDE DEF p, d
  <2>3. \A i \in 1 .. d : p + HeaderSize + i \in 1 .. e
    BY <1>2, <2>2
  <2>4. \A i \in 1 .. d : t[p + HeaderSize + i] = s[p + HeaderSize + i]
    BY <2>3
  <2> QED BY <2>1, <2>2, <2>4 DEF p, d
<1>8. ASSUME n = 0 PROVE Frames(t, b, ms)
  <2>1. \A p \in Q \ { f } : LenAt(t, p) > 0 => \E j \in 1 .. l : at[j] = p
    BY <1>6, <1>8
  <2>2. \A j \in 1 .. l : at[j] \in Q \ { f }
    BY <1>3, <1>7
  <2> HIDE DEF Q
  <2>3. FramesAt(t, b, ms, Q, at)
    BY <1>3, <1>6, <1>7, <2>1, <2>2 DEF FramesAt, f
  <2> QED BY <1>3, <2>3 DEF Frames
<1>9. ASSUME x \in Messages PROVE Frames(t, b, Append(ms, x))
  <2> DEFINE m == Append(ms, x)
             bt == [j \in 1 .. l + 1 |-> IF j = l + 1 THEN e ELSE at[j]]
  <2>1. /\ m \in Seq(Messages) /\ Len(m) = l + 1 /\ m[l + 1] = x
        /\ \A j \in 1 .. l : m[j] = ms[j]
    BY <1>9
  <2>2. /\ bt \in [1 .. l + 1 -> Nat] /\ bt[l + 1] = e /\ l + 1 \in 1 .. l + 1
        /\ \A j \in 1 .. l : bt[j] = at[j] /\ j \in 1 .. l + 1
        /\ \A j \in 1 .. l + 1 : j # l + 1 => j \in 1 .. l
    BY <1>2
  <2> HIDE DEF m, bt
  <2>3. \A p \in Q \ { f } : LenAt(t, p) > 0 => \E j \in 1 .. l + 1 : bt[j] = p
    <3> SUFFICES ASSUME NEW p \in Q \ { f }, LenAt(t, p) > 0
                 PROVE  \E j \in 1 .. l + 1 : bt[j] = p
      OBVIOUS
    <3>1. CASE p = e
      BY <2>2, <3>1
    <3>2. CASE p # e
      <4>1. PICK j \in 1 .. l : at[j] = p
        BY <1>6, <3>2
      <4> QED BY <2>2, <4>1
    <3> QED BY <3>1, <3>2
  <2>4. ASSUME NEW j \in 1 .. l + 1
        PROVE  /\ bt[j] \in Q \ { f } /\ LenAt(t, bt[j]) = Len(m[j])
               /\ \A i \in 1 .. Len(m[j]) : t[bt[j] + HeaderSize + i] = m[j][i]
               /\ \A i \in 1 .. j - 1 : bt[i] < bt[j]
    <3>1. CASE j = l + 1
      <4>1. \A i \in 1 .. j - 1 : i \in 1 .. l
        BY <1>2, <3>1
      <4>2. \A i \in 1 .. j - 1 : bt[i] < bt[j]
        BY <1>7, <2>2, <3>1, <4>1
      <4>3. bt[j] \in Q \ { f }
        BY <1>2, <1>3, <2>2, <3>1
      <4>4. LenAt(t, bt[j]) = Len(m[j]) /\ bt[j] = e /\ m[j] = x
        BY <2>1, <2>2, <3>1
      <4> QED BY <4>2, <4>3, <4>4
    <3>2. CASE j # l + 1
      <4>1. j \in 1 .. l /\ bt[j] = at[j] /\ m[j] = ms[j]
        BY <2>1, <2>2, <3>2
      <4>2. \A i \in 1 .. j - 1 : i \in 1 .. l
        BY <1>2, <4>1
      <4>3. \A i \in 1 .. j - 1 : bt[i] < bt[j]
        BY <1>7, <2>2, <4>1, <4>2
      <4>4. bt[j] \in Q \ { f }
        BY <1>3, <1>7, <4>1
      <4> QED BY <1>7, <4>1, <4>3, <4>4
    <3> QED BY <3>1, <3>2
  <2> HIDE DEF Q
  <2>5. FramesAt(t, b, m, Q, bt)
    BY <1>3, <1>6, <2>1, <2>3, <2>4 DEF FramesAt, f
  <2> QED BY <1>3, <2>1, <2>2, <2>5 DEF Frames, m
<1> QED BY <1>8, <1>9

-----------------------------------------------------------------------------
(***************************************************************************)
(* Bytes read from the front and written at the end.                         *)
(***************************************************************************)
LEMMA Joined ==
    ASSUME NEW s \in Seq(Bytes), NEW t \in Seq(Bytes)
    PROVE  /\ s \o t \in Seq(Bytes) /\ Len(s \o t) = Len(s) + Len(t)
           /\ \A k \in 1 .. Len(s) : (s \o t)[k] = s[k]
           /\ \A k \in 1 .. Len(t) : (s \o t)[Len(s) + k] = t[k]
<1>1. Len(s) \in Nat /\ Len(t) \in Nat
  BY LenProperties
<1>2. /\ s \o t \in Seq(Bytes) /\ Len(s \o t) = Len(s) + Len(t)
      /\ \A i \in 1 .. Len(s) + Len(t) : (s \o t)[i] = IF i <= Len(s) THEN s[i] ELSE t[i - Len(s)]
  BY ConcatProperties, Zenon
<1>3. \A k \in 1 .. Len(s) : (s \o t)[k] = s[k]
  <2> TAKE k \in 1 .. Len(s)
  <2>1. k \in 1 .. Len(s) + Len(t) /\ k <= Len(s)
    BY <1>1
  <2> QED BY <1>2, <2>1
<1>4. \A k \in 1 .. Len(t) : (s \o t)[Len(s) + k] = t[k]
  <2> TAKE k \in 1 .. Len(t)
  <2>1. Len(s) + k \in 1 .. Len(s) + Len(t) /\ ~(Len(s) + k <= Len(s)) /\ Len(s) + k - Len(s) = k
    BY <1>1
  <2> QED BY <1>2, <2>1
<1> QED BY <1>2, <1>3, <1>4

LEMMA SplitAt ==
    ASSUME NEW s \in Seq(Bytes), NEW k \in 0 .. Len(s)
    PROVE  /\ First(s, k) \in Seq(Bytes) /\ Len(First(s, k)) = k
           /\ \A i \in 1 .. k : First(s, k)[i] = s[i]
           /\ After(s, k) \in Seq(Bytes) /\ Len(After(s, k)) = Len(s) - k
           /\ \A i \in 1 .. Len(s) - k : After(s, k)[i] = s[k + i]
<1>1. /\ First(s, k) \in Seq(Bytes) /\ Len(First(s, k)) = k
      /\ After(s, k) \in Seq(Bytes) /\ Len(After(s, k)) = Len(s) - k
  BY SplitSeq
<1>2. \A i \in 1 .. k : First(s, k)[i] = s[i]
  BY SMT DEF First
<1>3. \A i \in 1 .. Len(s) - k : After(s, k)[i] = s[k + i]
  BY SMT DEF After
<1> QED BY <1>1, <1>2, <1>3

\* What is left of s and of w behind it when k bytes of s have been read.
LEMMA LeftAfter ==
    ASSUME NEW s \in Seq(Bytes), NEW w \in Seq(Bytes), NEW k \in 0 .. Len(s)
    PROVE  /\ After(s, k) \o w \in Seq(Bytes)
           /\ Len(After(s, k) \o w) = Len(s \o w) - k
           /\ \A i \in 1 .. Len(s \o w) - k : (After(s, k) \o w)[i] = (s \o w)[i + k]
           /\ \A i \in 1 .. k : First(s, k)[i] = (s \o w)[i]
<1> DEFINE a == After(s, k)
           t == a \o w
           u == s \o w
<1>1. Len(s) \in Nat /\ Len(w) \in Nat /\ k \in Nat /\ k <= Len(s)
  BY LenProperties
<1>2. /\ a \in Seq(Bytes) /\ Len(a) = Len(s) - k
      /\ \A i \in 1 .. Len(s) - k : a[i] = s[k + i]
      /\ \A i \in 1 .. k : First(s, k)[i] = s[i]
  BY SplitAt
<1> HIDE DEF a
<1>3. /\ t \in Seq(Bytes) /\ Len(t) = Len(a) + Len(w)
      /\ \A i \in 1 .. Len(a) : t[i] = a[i]
      /\ \A i \in 1 .. Len(w) : t[Len(a) + i] = w[i]
  BY <1>2, Joined
<1>4. /\ u \in Seq(Bytes) /\ Len(u) = Len(s) + Len(w)
      /\ \A i \in 1 .. Len(s) : u[i] = s[i]
      /\ \A i \in 1 .. Len(w) : u[Len(s) + i] = w[i]
  BY Joined
<1> HIDE DEF t, u
<1>5. Len(t) = Len(u) - k
  BY <1>1, <1>2, <1>3, <1>4
<1>6. \A i \in 1 .. Len(u) - k : t[i] = u[i + k]
  <2> TAKE i \in 1 .. Len(u) - k
  <2>1. CASE i <= Len(a)
    <3>1. /\ i \in 1 .. Len(a) /\ i \in 1 .. Len(s) - k
          /\ i + k \in 1 .. Len(s) /\ k + i = i + k
      BY <1>1, <1>2, <1>4, <2>1
    <3> QED BY <1>2, <1>3, <1>4, <3>1
  <2>2. CASE ~(i <= Len(a))
    <3> DEFINE j == i - Len(a)
    <3>1. j \in 1 .. Len(w) /\ Len(a) + j = i /\ Len(s) + j = i + k
      BY <1>1, <1>2, <1>4, <2>2
    <3> HIDE DEF j
    <3>2. t[Len(a) + j] = w[j] /\ u[Len(s) + j] = w[j]
      BY <1>3, <1>4, <3>1
    <3> QED BY <3>1, <3>2
  <2> QED BY <2>1, <2>2
<1>7. \A i \in 1 .. k : First(s, k)[i] = u[i]
  <2>1. \A i \in 1 .. k : i \in 1 .. Len(s)
    BY <1>1
  <2> QED BY <1>2, <1>4, <2>1
<1> QED BY <1>3, <1>5, <1>6, <1>7 DEF t, u, a

LEMMA Serialized ==
    ASSUME NEW x \in Seq(Bytes), Len(x) \div BYTE_0 \in Bytes, NEW s \in Seq(Bytes)
    PROVE  /\ serialize(x) \in Seq(Bytes) /\ Len(serialize(x)) = HeaderSize + Len(x)
           /\ LenAt(s \o serialize(x), Len(s)) = Len(x)
           /\ \A i \in 1 .. Len(x) : (s \o serialize(x))[Len(s) + HeaderSize + i] = x[i]
<1> DEFINE h == u32_to_bytes(Len(x))
           m == h \o x
           t == s \o m
<1>1. Len(x) \in Nat /\ Len(s) \in Nat
  BY LenProperties
<1>2. h \in Seq(Bytes) /\ Len(h) = HeaderSize /\ bytes_to_u32(h) = Len(x)
  BY <1>1, U32RoundTrip
<1> HIDE DEF h
<1>3. /\ m \in Seq(Bytes) /\ Len(m) = Len(h) + Len(x)
      /\ \A i \in 1 .. Len(h) : m[i] = h[i]
      /\ \A i \in 1 .. Len(x) : m[Len(h) + i] = x[i]
  BY <1>2, Joined
<1> HIDE DEF m
<1>4. \A i \in 1 .. Len(m) : t[Len(s) + i] = m[i]
  BY <1>3, Joined
<1> HIDE DEF t
<1>5. \A i \in 1 .. HeaderSize : t[Len(s) + i] = h[i]
  <2>1. \A i \in 1 .. HeaderSize : i \in 1 .. Len(m) /\ i \in 1 .. Len(h)
    BY <1>1, <1>2, <1>3 DEF HeaderSize
  <2> QED BY <1>3, <1>4, <2>1
<1>6. \A i \in 1 .. Len(x) : t[Len(s) + HeaderSize + i] = x[i]
  <2> TAKE i \in 1 .. Len(x)
  <2>1. /\ HeaderSize + i \in 1 .. Len(m) /\ Len(s) + (HeaderSize + i) = Len(s) + HeaderSize + i
        /\ HeaderSize + i = Len(h) + i
    BY <1>1, <1>2, <1>3 DEF HeaderSize
  <2>2. t[Len(s) + (HeaderSize + i)] = m[HeaderSize + i] /\ m[Len(h) + i] = x[i]
    BY <1>3, <1>4, <2>1
  <2> QED BY <2>1, <2>2
<1>7. LenAt(t, Len(s)) = bytes_to_u32(h)
  <2>1. 1 \in 1 .. HeaderSize /\ 2 \in 1 .. HeaderSize /\ 3 \in 1 .. HeaderSize /\ 4 \in 1 .. HeaderSize
    BY DEF HeaderSize
  <2>2. /\ t[Len(s) + 1] = h[1] /\ t[Len(s) + 2] = h[2] /\ t[Len(s) + 3] = h[3]
        /\ t[Len(s) + 4] = h[4]
    BY <1>5, <2>1, Zenon
  <2> QED BY <2>2, Zenon DEF LenAt, bytes_to_u32
<1> QED BY <1>2, <1>3, <1>6, <1>7 DEF t, m, h, serialize

\* A message, or a keep-alive, written whole.
LEMMA FrameWritten ==
    ASSUME NEW x \in Seq(Bytes), Len(x) \div BYTE_0 \in Bytes,
           NEW s \in Seq(Bytes), NEW b \in Nat, NEW ms \in Seq(Messages), Frames(s, b, ms)
    PROVE  /\ Len(x) = 0 => Frames(s \o serialize(x), b, ms)
           /\ x \in Messages => Frames(s \o serialize(x), b, Append(ms, x))
<1> DEFINE t == s \o serialize(x)
<1>1. /\ serialize(x) \in Seq(Bytes) /\ Len(serialize(x)) = HeaderSize + Len(x)
      /\ LenAt(t, Len(s)) = Len(x)
      /\ \A i \in 1 .. Len(x) : t[Len(s) + HeaderSize + i] = x[i]
  BY Serialized
<1>2. /\ t \in Seq(Bytes) /\ Len(t) = Len(s) + Len(serialize(x))
      /\ \A k \in 1 .. Len(s) : t[k] = s[k]
  BY <1>1, Joined
<1> HIDE DEF t
<1>3. Len(t) = Len(s) + HeaderSize + Len(x)
  BY <1>1, <1>2, LenProperties DEF HeaderSize
<1> QED BY <1>1, <1>2, <1>3, FrameAdded DEF t

-----------------------------------------------------------------------------
(***************************************************************************)
(* The connection implements MessageChannel: unless bytes were lost, what is  *)
(* under way is the rest of the message being read, and then the other        *)
(* messages, whole, with nothing but keep-alives between them.               *)
(***************************************************************************)
Pending == arrived \o inflight
Missing == IF next_message_length = 0 THEN 0 ELSE next_message_length - Len(buf)
Later   == IF next_message_length = 0 THEN put ELSE Tail(put)

\* A message of `length' bytes of which buf is the beginning and the beginning of `bytes'
\* the rest.
Continues(length, bytes) ==
    /\ put # << >> /\ Len(put[1]) = length /\ length - Len(buf) <= Len(bytes)
    /\ \A i \in 1 .. Len(buf) : put[1][i] = buf[i]
    /\ \A i \in 1 .. length - Len(buf) : put[1][Len(buf) + i] = bytes[i]

Whole ==
    ~torn /\ stream # "none" =>
        /\ next_message_length # 0 => Continues(next_message_length, Pending)
        /\ Frames(Pending, Missing, Later)

CInv == IInv /\ Whole

LEMMA PendingType ==
    ASSUME IInv
    PROVE  /\ Pending \in Seq(Bytes) /\ Len(Pending) = Len(arrived) + Len(inflight)
           /\ Len(Pending) \in Nat /\ Missing \in Nat
           /\ put # << >> => /\ put[1] \in Seq(Bytes) /\ put[1] = Head(put)
                             /\ Tail(put) \in Seq(Messages)
           /\ next_message_length = 0 => Later \in Seq(Messages)
<1>1. Pending \in Seq(Bytes) /\ Len(Pending) = Len(arrived) + Len(inflight) /\ Len(Pending) \in Nat
  BY Joined, LenProperties DEF IInv, TypeOK, Pending
<1>2. Missing \in Nat
  BY LenProperties DEF IInv, TypeOK, BufferFits, Missing
<1>3. ASSUME put # << >>
      PROVE  put[1] \in Seq(Bytes) /\ put[1] = Head(put) /\ Tail(put) \in Seq(Messages)
  <2>1. put \in Seq(Messages)
    BY DEF IInv, TypeOK
  <2>2. Head(put) \in Messages /\ Tail(put) \in Seq(Messages)
    BY <1>3, <2>1, HeadTailProperties
  <2>3. put[1] = Head(put)
    BY <1>3, <2>1
  <2> QED BY <2>2, <2>3, MessageAssumption
<1> QED BY <1>1, <1>2, <1>3 DEF Later, IInv, TypeOK

\* What receive_message reads of a payload keeps what it left whole, and what it returns
\* is the first message written.
LEMMA PayloadWhole ==
    ASSUME IInv, NEW length \in Nat \ {0}, NEW bytes \in Seq(Bytes), Len(buf) < length,
           Continues(length, bytes \o inflight),
           Frames(bytes \o inflight, length - Len(buf), Tail(put)),
           ReadPayload(length, bytes), UNCHANGED inflight
    PROVE  /\ next_message_length' # 0 => Continues(next_message_length, Pending)'
           /\ Frames(Pending', Missing', Later')
           /\ \/ UNCHANGED << put, handled >>
              \/ put # << >> /\ handled' = Append(handled, Head(put)) /\ put' = Tail(put)
<1> DEFINE s == bytes \o inflight
           m == length - Len(buf)
           k == AtMost(m, Len(bytes))
           read == buf \o First(bytes, k)
<1>1. /\ buf \in Seq(Bytes) /\ inflight \in Seq(Bytes) /\ Len(buf) \in Nat /\ Len(bytes) \in Nat
      /\ m \in Nat \ {0} /\ length = Len(buf) + m
  BY LenProperties DEF IInv, TypeOK
<1>2. put # << >> /\ put[1] \in Seq(Bytes) /\ put[1] = Head(put) /\ Tail(put) \in Seq(Messages)
  BY PendingType DEF Continues
<1>3. /\ Len(put[1]) = length /\ m <= Len(s)
      /\ \A i \in 1 .. Len(buf) : put[1][i] = buf[i]
      /\ \A i \in 1 .. m : put[1][Len(buf) + i] = s[i]
  BY DEF Continues
<1> HIDE DEF m
<1>4. k \in 0 .. Len(bytes) /\ k \in 0 .. m /\ k \in Nat
  BY <1>1 DEF AtMost
<1> HIDE DEF k, s
<1>5. /\ s \in Seq(Bytes) /\ Len(s) \in Nat
      /\ First(bytes, k) \in Seq(Bytes) /\ Len(First(bytes, k)) = k
      /\ \A i \in 1 .. k : First(bytes, k)[i] = s[i]
      /\ After(bytes, k) \o inflight \in Seq(Bytes)
      /\ Len(After(bytes, k) \o inflight) = Len(s) - k
      /\ \A i \in 1 .. Len(s) - k : (After(bytes, k) \o inflight)[i] = s[i + k]
  <2>1. s \in Seq(Bytes) /\ Len(s) \in Nat
    BY <1>1, Joined, LenProperties DEF s
  <2>2. First(bytes, k) \in Seq(Bytes) /\ Len(First(bytes, k)) = k
    BY <1>4, SplitAt
  <2> QED BY <1>1, <1>4, <2>1, <2>2, LeftAfter DEF s
<1>6. /\ read \in Seq(Bytes) /\ Len(read) = Len(buf) + k
      /\ \A i \in 1 .. Len(read) : put[1][i] = read[i]
  <2> DEFINE fst == First(bytes, k)
  <2>1. /\ fst \in Seq(Bytes) /\ Len(fst) = k /\ \A i \in 1 .. k : fst[i] = s[i]
    BY <1>5
  <2> HIDE DEF fst
  <2>2. /\ buf \o fst \in Seq(Bytes) /\ Len(buf \o fst) = Len(buf) + Len(fst)
        /\ \A i \in 1 .. Len(buf) : (buf \o fst)[i] = buf[i]
        /\ \A i \in 1 .. Len(fst) : (buf \o fst)[Len(buf) + i] = fst[i]
    BY <1>1, <2>1, Joined
  <2>3. ASSUME NEW i \in 1 .. Len(buf) + k PROVE put[1][i] = (buf \o fst)[i]
    <3>1. CASE i <= Len(buf)
      <4>1. i \in 1 .. Len(buf)
        BY <1>1, <3>1
      <4> QED BY <1>3, <2>2, <4>1
    <3>2. CASE ~(i <= Len(buf))
      <4> DEFINE j == i - Len(buf)
      <4>1. j \in 1 .. k /\ j \in 1 .. m /\ Len(buf) + j = i
        BY <1>1, <1>4, <3>2
      <4> HIDE DEF j
      <4>2. put[1][Len(buf) + j] = s[j] /\ (buf \o fst)[Len(buf) + j] = s[j]
        BY <1>3, <2>1, <2>2, <4>1
      <4> QED BY <4>1, <4>2
    <3> QED BY <3>1, <3>2
  <2> QED BY <2>1, <2>2, <2>3 DEF fst
<1>7. arrived' = After(bytes, k) /\ Pending' = After(bytes, k) \o inflight
  <2>1. arrived' = After(bytes, k)
    BY DEF ReadPayload, k, m
  <2> QED BY <2>1 DEF Pending
<1>8. Frames(Pending', m - k, Tail(put))
  <2> DEFINE t == After(bytes, k) \o inflight
  <2>1. t \in Seq(Bytes) /\ Len(t) = Len(s) - k /\ \A i \in 1 .. Len(t) : t[i] = s[i + k]
    BY <1>5
  <2>2. Frames(s, m, Tail(put))
    BY DEF s, m
  <2> HIDE DEF t
  <2>3. Frames(t, m - k, Tail(put))
    BY <1>1, <1>2, <1>4, <1>5, <2>1, <2>2, FramesShift
  <2> QED BY <1>7, <2>3 DEF t
<1>9. CASE Len(read) = length
  <2>1. k = m
    BY <1>1, <1>4, <1>6, <1>9
  <2>2. /\ buf' = << >> /\ next_message_length' = 0
        /\ handled' = Append(handled, read) /\ put' = Tail(put)
    BY <1>2, <1>9 DEF ReadPayload, read, k, m
  <2>3. read = put[1]
    <3> HIDE DEF read
    <3>1. Len(read) = Len(put[1]) /\ \A i \in 1 .. Len(read) : read[i] = put[1][i]
      BY <1>3, <1>6, <1>9
    <3> QED BY <1>2, <1>6, <3>1, SeqEqual, Zenon
  <2>4. Missing' = 0 /\ Later' = Tail(put) /\ m - k = 0
    BY <1>4, <2>1, <2>2 DEF Missing, Later
  <2> HIDE DEF read
  <2> QED BY <1>2, <1>8, <2>2, <2>3, <2>4
<1>10. CASE Len(read) # length
  <2>1. buf' = read /\ next_message_length' = length /\ UNCHANGED << put, handled >>
    BY <1>10 DEF ReadPayload, read, k, m
  <2> HIDE DEF read
  <2>2. Len(buf') = Len(buf) + k /\ length - Len(buf') = m - k
    <3>1. Len(buf') = Len(buf) + k
      BY <1>6, <2>1
    <3>2. length - (Len(buf) + k) = m - k
      BY <1>1, <1>4
    <3> QED BY <3>1, <3>2
  <2>3. Missing' = m - k /\ Later' = Tail(put)
    BY <2>1, <2>2 DEF Missing, Later
  <2>4. Len(Pending') = Len(s) - k /\ \A i \in 1 .. Len(s) - k : Pending'[i] = s[i + k]
    BY <1>5, <1>7
  <2>5. m - k <= Len(Pending')
    BY <1>1, <1>3, <1>4, <1>5, <2>4
  <2>6. \A i \in 1 .. m - k : put[1][Len(buf) + k + i] = Pending'[i]
    <3> TAKE i \in 1 .. m - k
    <3>1. /\ i \in 1 .. Len(s) - k /\ k + i \in 1 .. m
          /\ Len(buf) + (k + i) = Len(buf) + k + i /\ i + k = k + i
      BY <1>1, <1>3, <1>4, <1>5
    <3>2. put[1][Len(buf) + (k + i)] = s[k + i] /\ Pending'[i] = s[i + k]
      BY <1>3, <2>4, <3>1
    <3> QED BY <3>1, <3>2
  <2>7. Continues(next_message_length, Pending)'
    BY <1>2, <1>3, <1>6, <2>1, <2>2, <2>5, <2>6 DEF Continues
  <2> QED BY <1>8, <2>1, <2>3, <2>7
<1> QED BY <1>9, <1>10

\* The receiver, on a connection that lost nothing.
LEMMA ReceiveWhole ==
    ASSUME CInv, ~torn, stream # "none",
           ReceiveKeepAlive \/ ReceiveLength \/ ReceiveMore
    PROVE  /\ next_message_length' # 0 => Continues(next_message_length, Pending)'
           /\ Frames(Pending', Missing', Later')
           /\ \/ UNCHANGED << put, handled >>
              \/ put # << >> /\ handled' = Append(handled, Head(put)) /\ put' = Tail(put)
<1>1. /\ arrived \in Seq(Bytes) /\ inflight \in Seq(Bytes) /\ buf \in Seq(Bytes)
      /\ Len(arrived) \in Nat /\ Len(inflight) \in Nat /\ Len(buf) \in Nat
      /\ next_message_length \in Nat /\ put \in Seq(Messages)
      /\ HeaderSize \in Nat \ {0}
  BY LenProperties DEF CInv, IInv, TypeOK, HeaderSize
<1>2. /\ Pending \in Seq(Bytes) /\ Len(Pending) = Len(arrived) + Len(inflight)
      /\ Len(Pending) \in Nat /\ Missing \in Nat
  BY PendingType DEF CInv
<1>3. /\ next_message_length # 0 => Continues(next_message_length, Pending)
      /\ Frames(Pending, Missing, Later)
  BY DEF CInv, Whole
\* A length is read from the beginning of what is under way.
<1> DEFINE bytes == After(arrived, HeaderSize)
           rest  == bytes \o inflight
           n     == LenAt(Pending, 0)
<1>4. ASSUME next_message_length = 0, Len(arrived) >= HeaderSize
      PROVE  /\ Missing = 0 /\ Later = put /\ buf = << >> /\ Frames(Pending, 0, put)
             /\ bytes_to_u32(First(arrived, HeaderSize)) = n /\ n \in Nat
             /\ HeaderSize + n <= Len(Pending)
             /\ bytes \in Seq(Bytes) /\ rest \in Seq(Bytes) /\ Len(rest) = Len(Pending) - HeaderSize
             /\ \A i \in 1 .. Len(rest) : rest[i] = Pending[i + HeaderSize]
             /\ n = 0 => Frames(rest, 0, put)
             /\ n > 0 => /\ put # << >> /\ Len(put[1]) = n
                         /\ \A i \in 1 .. n : put[1][i] = rest[i]
                         /\ Frames(rest, n, Tail(put))
  <2>1. Missing = 0 /\ Later = put /\ buf = << >> /\ Frames(Pending, 0, put)
    BY <1>3, <1>4 DEF Missing, Later, CInv, IInv, BufferFits
  <2>2. HeaderSize \in 0 .. Len(arrived) /\ 0 < Len(Pending) /\ 0 \in Nat /\ 0 + HeaderSize = HeaderSize
    BY <1>1, <1>2, <1>4
  <2>3. /\ n \in Nat /\ HeaderSize + n <= Len(Pending)
        /\ n = 0 => Frames(Pending, HeaderSize, put)
        /\ n > 0 => /\ put # << >> /\ Len(put[1]) = n
                    /\ \A i \in 1 .. n : put[1][i] = Pending[HeaderSize + i]
                    /\ Frames(Pending, HeaderSize + n, Tail(put))
    <3>1. /\ LenAt(Pending, 0) \in Nat /\ 0 + HeaderSize + LenAt(Pending, 0) <= Len(Pending)
          /\ LenAt(Pending, 0) = 0 => Frames(Pending, 0 + HeaderSize, put)
          /\ LenAt(Pending, 0) > 0 =>
               /\ put # << >> /\ Len(put[1]) = LenAt(Pending, 0)
               /\ \A i \in 1 .. LenAt(Pending, 0) : put[1][i] = Pending[0 + HeaderSize + i]
               /\ Frames(Pending, 0 + HeaderSize + LenAt(Pending, 0), Tail(put))
      BY <1>1, <1>2, <2>1, <2>2, FirstFrame, Zenon
    <3> HIDE DEF n
    <3> QED BY <2>2, <3>1 DEF n
  <2>4. /\ rest \in Seq(Bytes) /\ Len(rest) = Len(Pending) - HeaderSize
        /\ \A i \in 1 .. Len(Pending) - HeaderSize : rest[i] = Pending[i + HeaderSize]
        /\ \A i \in 1 .. HeaderSize : First(arrived, HeaderSize)[i] = Pending[i]
        /\ bytes \in Seq(Bytes)
    <3>1. bytes \in Seq(Bytes)
      BY <1>1, <2>2, SplitAt, Zenon
    <3>2. /\ After(arrived, HeaderSize) \o inflight \in Seq(Bytes)
          /\ Len(After(arrived, HeaderSize) \o inflight) = Len(arrived \o inflight) - HeaderSize
          /\ \A i \in 1 .. Len(arrived \o inflight) - HeaderSize :
               (After(arrived, HeaderSize) \o inflight)[i] = (arrived \o inflight)[i + HeaderSize]
          /\ \A i \in 1 .. HeaderSize : First(arrived, HeaderSize)[i] = (arrived \o inflight)[i]
      BY <1>1, <2>2, LeftAfter, Zenon
    <3> QED BY <3>1, <3>2, Zenon DEF Pending
  <2>5. bytes_to_u32(First(arrived, HeaderSize)) = n
    <3>1. 1 \in 1 .. HeaderSize /\ 2 \in 1 .. HeaderSize /\ 3 \in 1 .. HeaderSize /\ 4 \in 1 .. HeaderSize
      BY DEF HeaderSize
    <3>2. 0 + 1 = 1 /\ 0 + 2 = 2 /\ 0 + 3 = 3 /\ 0 + 4 = 4
      OBVIOUS
    <3> QED BY <2>4, <3>1, <3>2, Zenon DEF LenAt, bytes_to_u32
  <2> HIDE DEF n, rest, bytes
  <2>7. ASSUME n = 0 PROVE Frames(rest, 0, put)
    <3>1. HeaderSize \in 0 .. HeaderSize /\ HeaderSize - HeaderSize = 0 /\ Frames(Pending, HeaderSize, put)
      BY <1>1, <2>3, <2>7
    <3>2. Frames(rest, HeaderSize - HeaderSize, put)
      BY <1>1, <1>2, <2>4, <3>1, FramesShift
    <3> QED BY <3>1, <3>2
  <2>8. ASSUME n > 0
        PROVE  /\ put # << >> /\ Len(put[1]) = n /\ \A i \in 1 .. n : put[1][i] = rest[i]
               /\ Frames(rest, n, Tail(put))
    <3>1. /\ put # << >> /\ Len(put[1]) = n
          /\ \A i \in 1 .. n : put[1][i] = Pending[HeaderSize + i]
          /\ Frames(Pending, HeaderSize + n, Tail(put))
      BY <2>3, <2>8
    <3>2. \A i \in 1 .. n : i \in 1 .. Len(Pending) - HeaderSize /\ HeaderSize + i = i + HeaderSize
      BY <1>1, <1>2, <2>3
    <3>3. \A i \in 1 .. n : put[1][i] = rest[i]
      BY <2>4, <3>1, <3>2
    <3>4. /\ HeaderSize + n \in Nat /\ HeaderSize \in 0 .. HeaderSize + n
          /\ HeaderSize + n - HeaderSize = n /\ Tail(put) \in Seq(Messages)
      BY <1>1, <2>3, <3>1, PendingType DEF CInv
    <3> DEFINE e == HeaderSize + n
    <3>5. Frames(rest, e - HeaderSize, Tail(put))
      <4>1. e \in Nat /\ HeaderSize \in 0 .. e /\ Frames(Pending, e, Tail(put))
        BY <3>1, <3>4
      <4> HIDE DEF e
      <4> QED BY <1>1, <1>2, <2>4, <3>4, <4>1, FramesShift
    <3> QED BY <3>1, <3>3, <3>4, <3>5
  <2> QED BY <2>1, <2>3, <2>4, <2>5, <2>7, <2>8
<1>5. CASE ReceiveKeepAlive
  <2>1. /\ next_message_length = 0 /\ Len(arrived) >= HeaderSize
        /\ bytes_to_u32(First(arrived, HeaderSize)) = 0
        /\ arrived' = bytes /\ UNCHANGED << inflight, buf, next_message_length, put, handled >>
    BY <1>5 DEF ReceiveKeepAlive, peerVars, historyVars
  <2>2. n = 0 /\ Frames(rest, 0, put)
    BY <1>4, <2>1
  <2>3. Pending' = rest /\ Missing' = 0 /\ Later' = put
    BY <2>1 DEF Pending, Missing, Later
  <2> QED BY <2>1, <2>2, <2>3
<1>6. CASE ReceiveLength
  <2>1. /\ next_message_length = 0 /\ Len(arrived) >= HeaderSize
        /\ bytes_to_u32(First(arrived, HeaderSize)) > 0 /\ UNCHANGED inflight
        /\ ReadPayload(bytes_to_u32(First(arrived, HeaderSize)), bytes)
    BY <1>6 DEF ReceiveLength
  <2>2. /\ buf = << >> /\ n \in Nat \ {0} /\ HeaderSize + n <= Len(Pending)
        /\ bytes \in Seq(Bytes) /\ Len(rest) = Len(Pending) - HeaderSize
        /\ put # << >> /\ Len(put[1]) = n
        /\ \A i \in 1 .. n : put[1][i] = rest[i]
        /\ Frames(rest, n, Tail(put)) /\ ReadPayload(n, bytes)
    <3> HIDE DEF n, bytes, rest
    <3>1. /\ buf = << >> /\ bytes_to_u32(First(arrived, HeaderSize)) = n /\ n \in Nat
          /\ HeaderSize + n <= Len(Pending)
          /\ bytes \in Seq(Bytes) /\ Len(rest) = Len(Pending) - HeaderSize
          /\ n > 0 => /\ put # << >> /\ Len(put[1]) = n
                      /\ \A i \in 1 .. n : put[1][i] = rest[i]
                      /\ Frames(rest, n, Tail(put))
      BY <1>4, <2>1
    <3>2. n > 0 /\ n \in Nat \ {0}
      BY <2>1, <3>1
    <3> QED BY <2>1, <3>1, <3>2
  <2> HIDE DEF n, bytes
  <2>3. Len(buf) = 0 /\ n - Len(buf) = n /\ Len(buf) < n /\ \A i \in 1 .. n : Len(buf) + i = i
    BY <2>2
  <2>4. n <= Len(rest)
    BY <1>1, <1>2, <2>2
  <2>5. Continues(n, rest)
    BY <2>2, <2>3, <2>4 DEF Continues
  <2>6. Frames(rest, n - Len(buf), Tail(put))
    BY <2>2, <2>3
  <2> QED BY <2>1, <2>2, <2>3, <2>5, <2>6, PayloadWhole DEF CInv
<1>7. CASE ReceiveMore
  <2>1. /\ next_message_length \in Nat \ {0} /\ UNCHANGED inflight
        /\ ReadPayload(next_message_length, arrived)
    BY <1>1, <1>7 DEF ReceiveMore
  <2>2. Len(buf) < next_message_length
    BY <2>1 DEF CInv, IInv, BufferFits
  <2>3. /\ Continues(next_message_length, arrived \o inflight)
        /\ Frames(arrived \o inflight, next_message_length - Len(buf), Tail(put))
    BY <1>3, <2>1 DEF Pending, Missing, Later
  <2> QED BY <1>1, <2>1, <2>2, <2>3, PayloadWhole DEF CInv
<1> QED BY <1>5, <1>6, <1>7

\* Bytes that arrive are under way still.
LEMMA ArrivePending ==
    ASSUME IInv, NEW k \in 1 .. Len(inflight), Arrive(k)
    PROVE  Pending' = Pending
<1> DEFINE a == First(inflight, k)
           b == After(inflight, k)
<1>1. /\ arrived \in Seq(Bytes) /\ inflight \in Seq(Bytes) /\ k \in 0 .. Len(inflight)
      /\ Len(inflight) \in Nat /\ k \in Nat /\ k <= Len(inflight)
  BY LenProperties DEF IInv, TypeOK
<1>2. arrived' = arrived \o a /\ inflight' = b
  BY DEF Arrive
<1>3. /\ a \in Seq(Bytes) /\ Len(a) = k /\ \A i \in 1 .. k : a[i] = inflight[i]
      /\ b \in Seq(Bytes) /\ Len(b) = Len(inflight) - k
      /\ \A i \in 1 .. Len(inflight) - k : b[i] = inflight[k + i]
  BY <1>1, SplitAt
<1> HIDE DEF a, b
<1>4. /\ a \o b \in Seq(Bytes) /\ Len(a \o b) = Len(a) + Len(b)
      /\ \A i \in 1 .. Len(a) : (a \o b)[i] = a[i]
      /\ \A i \in 1 .. Len(b) : (a \o b)[Len(a) + i] = b[i]
  BY <1>3, Joined
<1> DEFINE ab == a \o b
<1> HIDE DEF ab
<1>5. ASSUME NEW i \in 1 .. Len(inflight) PROVE ab[i] = inflight[i]
  <2>1. CASE i <= k
    <3>1. i \in 1 .. k
      BY <1>1, <2>1
    <3> QED BY <1>3, <1>4, <3>1 DEF ab
  <2>2. CASE ~(i <= k)
    <3> DEFINE j == i - k
    <3>1. j \in 1 .. Len(inflight) - k /\ k + j = i
      BY <1>1, <2>2
    <3> HIDE DEF j
    <3>2. ab[k + j] = b[j] /\ b[j] = inflight[k + j]
      BY <1>3, <1>4, <3>1 DEF ab
    <3> QED BY <3>1, <3>2
  <2> QED BY <2>1, <2>2
<1>6. ab = inflight
  <2>1. ab \in Seq(Bytes) /\ Len(ab) = Len(inflight)
    <3>1. k + (Len(inflight) - k) = Len(inflight)
      BY <1>1
    <3> QED BY <1>3, <1>4, <3>1 DEF ab
  <2> QED BY <1>1, <1>5, <2>1, SeqEqual
<1>7. (arrived \o a) \o b = arrived \o ab
  <2>1. arrived \in Seq(Bytes) /\ a \in Seq(Bytes) /\ b \in Seq(Bytes)
    BY <1>1, <1>3
  <2>2. (arrived \o a) \o b = arrived \o (a \o b)
    BY <2>1, ConcatAssociative
  <2> QED BY <2>2 DEF ab
<1> QED BY <1>2, <1>6, <1>7 DEF Pending

\* A write of something that fits, or of which nothing does.
LEMMA WritePending ==
    ASSUME IInv, NEW bytes \in Seq(Bytes), Write(bytes)
    PROVE  /\ Room \in Nat /\ Len(bytes) \in Nat
           /\ Room >= Len(bytes) => Pending' = Pending \o bytes
           /\ Room = 0 => Pending' = Pending
<1>1. /\ arrived \in Seq(Bytes) /\ inflight \in Seq(Bytes) /\ Len(bytes) \in Nat /\ Room \in Nat
  BY LenProperties, BufferAssumption DEF IInv, TypeOK, SocketsHold, Room
<1>2. inflight' = inflight \o First(bytes, AtMost(Room, Len(bytes))) /\ arrived' = arrived
  BY DEF Write
<1>3. ASSUME Room >= Len(bytes) PROVE Pending' = Pending \o bytes
  <2>1. AtMost(Room, Len(bytes)) = Len(bytes)
    BY <1>1, <1>3 DEF AtMost
  <2>2. First(bytes, Len(bytes)) = bytes
    BY SubSeqFull, Zenon DEF First
  <2>3. inflight' = inflight \o bytes
    BY <1>2, <2>1, <2>2, Zenon
  <2>4. (arrived \o inflight) \o bytes = arrived \o (inflight \o bytes)
    BY <1>1, ConcatAssociative
  <2> QED BY <1>2, <2>3, <2>4, Zenon DEF Pending
<1>4. ASSUME Room = 0 PROVE Pending' = Pending
  <2>1. AtMost(Room, Len(bytes)) = 0
    BY <1>1, <1>4 DEF AtMost
  <2>2. First(bytes, 0) = << >>
    BY SubSeqEmpty DEF First
  <2>3. inflight' = inflight
    <3>1. inflight \o << >> = inflight
      BY <1>1, ConcatEmptySeq, Zenon
    <3> QED BY <1>2, <2>1, <2>2, <3>1, Zenon
  <2> QED BY <1>2, <2>3 DEF Pending
<1> QED BY <1>1, <1>3, <1>4

\* The current message goes on in what is under way, however much comes behind.
LEMMA StillContinues ==
    ASSUME IInv, next_message_length # 0, Continues(next_message_length, Pending),
           NEW bytes \in Seq(Bytes)
    PROVE  Continues(next_message_length, Pending \o bytes)
<1>1. Pending \in Seq(Bytes) /\ Len(Pending) \in Nat /\ Missing \in Nat
  BY PendingType
<1>2. /\ Len(Pending \o bytes) = Len(Pending) + Len(bytes) /\ Len(bytes) \in Nat
      /\ \A i \in 1 .. Len(Pending) : (Pending \o bytes)[i] = Pending[i]
  BY <1>1, Joined, LenProperties
<1>3. Missing = next_message_length - Len(buf) /\ Missing <= Len(Pending)
  BY DEF Missing, Continues
<1>4. /\ Missing <= Len(Pending \o bytes)
      /\ \A i \in 1 .. Missing : (Pending \o bytes)[i] = Pending[i]
  BY <1>1, <1>2, <1>3
<1> QED BY <1>3, <1>4 DEF Continues

LEMMA SendMessageWhole ==
    ASSUME CInv, NEW m \in Messages, send_msg(m), ~torn'
    PROVE  /\ Whole'
           /\ \/ put' = Append(put, m) /\ UNCHANGED handled
              \/ UNCHANGED << put, handled >>
<1> DEFINE bytes == serialize(m)
<1>1. m \in Seq(Bytes) /\ Len(m) \in Nat /\ Len(m) \div BYTE_0 \in Bytes
  BY MessageAssumption DEF BYTE_0
<1>2. bytes \in Seq(Bytes)
  BY <1>1, U32RoundTrip DEF serialize
<1>3. /\ Write(bytes) /\ UNCHANGED << handled, stream, buf, next_message_length >>
      /\ put' = IF Room >= Len(bytes) THEN Append(put, m) ELSE put
      /\ ~torn /\ ~(0 < Room /\ Room < Len(bytes)) /\ stream # "none"
  BY DEF send_msg, Write, peerVars
<1>4. /\ Room \in Nat /\ Len(bytes) \in Nat
      /\ Room >= Len(bytes) => Pending' = Pending \o bytes
      /\ Room = 0 => Pending' = Pending
  BY <1>2, <1>3, WritePending DEF CInv
<1>5. /\ next_message_length # 0 => Continues(next_message_length, Pending)
      /\ Frames(Pending, Missing, Later)
  BY <1>3 DEF CInv, Whole
<1>6. Pending \in Seq(Bytes) /\ Missing \in Nat /\ Later \in Seq(Messages) /\ Missing' = Missing
  BY <1>3, <1>5, PendingType DEF CInv, Missing, Later, Continues
<1> HIDE DEF bytes
<1>7. CASE Room >= Len(bytes)
  <2>1. put' = Append(put, m) /\ Pending' = Pending \o bytes
    BY <1>3, <1>4, <1>7
  <2>2. Later' = Append(Later, m)
    <3>1. put \in Seq(Messages)
      BY DEF CInv, IInv, TypeOK
    <3>2. next_message_length # 0 => put # << >>
      BY <1>5 DEF Continues
    <3>3. put # << >> => Tail(Append(put, m)) = Append(Tail(put), m)
      BY <3>1
    <3> QED BY <1>3, <2>1, <3>2, <3>3 DEF Later
  <2>3. Frames(Pending \o bytes, Missing, Append(Later, m))
    BY <1>1, <1>5, <1>6, FrameWritten DEF bytes
  <2>4. ASSUME next_message_length # 0 PROVE Continues(next_message_length, Pending)'
    <3>1. Continues(next_message_length, Pending \o bytes)
      BY <1>2, <1>5, <2>4, StillContinues DEF CInv, bytes
    <3>2. put \in Seq(Messages) /\ put # << >>
      BY <3>1 DEF CInv, IInv, TypeOK, Continues
    <3>3. put' # << >> /\ put'[1] = put[1]
      BY <2>1, <3>2
    <3> QED BY <1>3, <2>1, <3>1, <3>3 DEF Continues
  <2> QED BY <1>3, <1>6, <2>1, <2>2, <2>3, <2>4 DEF Whole
<1>8. CASE ~(Room >= Len(bytes))
  <2>1. Room = 0
    BY <1>3, <1>4, <1>8
  <2>2. put' = put /\ Pending' = Pending
    BY <1>3, <1>4, <1>8, <2>1
  <2>3. Later' = Later
    BY <1>3, <2>2 DEF Later
  <2>4. next_message_length' # 0 => Continues(next_message_length, Pending)'
    BY <1>3, <1>5, <2>2 DEF Continues
  <2> QED BY <1>3, <1>5, <1>6, <2>2, <2>3, <2>4 DEF Whole
<1> QED BY <1>7, <1>8

LEMMA SendKeepAliveWhole ==
    ASSUME CInv, SendKeepAlive, ~torn
    PROVE  Whole'
<1>1. /\ << >> \in Seq(Bytes) /\ Len(<< >>) = 0 /\ 0 \div BYTE_0 \in Bytes
  BY DEF BYTE_0, Bytes
<1> DEFINE bytes == u32_to_bytes(0)
<1>2. bytes \in Seq(Bytes) /\ Len(bytes) = HeaderSize
  BY <1>1, U32RoundTrip
<1>3. bytes = serialize(<< >>)
  BY <1>1, <1>2, ConcatEmptySeq, Zenon DEF serialize
<1>4. /\ Write(bytes) /\ Room >= Len(bytes) /\ stream # "none"
      /\ UNCHANGED << stream, buf, next_message_length, put, torn >>
  BY <1>2 DEF SendKeepAlive, Write, peerVars, historyVars
<1>5. Pending' = Pending \o bytes
  BY <1>2, <1>4, WritePending DEF CInv
<1>6. /\ next_message_length # 0 => Continues(next_message_length, Pending)
      /\ Frames(Pending, Missing, Later)
  BY <1>4 DEF CInv, Whole
<1>7. /\ Pending \in Seq(Bytes) /\ Missing \in Nat /\ Later \in Seq(Messages)
      /\ Missing' = Missing /\ Later' = Later
  BY <1>4, <1>6, PendingType DEF CInv, Missing, Later, Continues
<1> HIDE DEF bytes
<1>8. Frames(Pending \o bytes, Missing, Later)
  BY <1>1, <1>3, <1>6, <1>7, FrameWritten
<1>9. ASSUME next_message_length # 0 PROVE Continues(next_message_length, Pending)'
  <2>1. Continues(next_message_length, Pending \o bytes)
    BY <1>2, <1>6, <1>9, StillContinues DEF CInv
  <2> QED BY <1>4, <1>5, <2>1 DEF Continues
<1> QED BY <1>4, <1>5, <1>7, <1>8, <1>9 DEF Whole

LEMMA InitWhole == Init => CInv
BY InitFits DEF Init, CInv, Whole

ChannelStep == [Channel!Next]_<< put, handled, torn >>

\* Every step keeps what is under way whole, and is one of the channel.
LEMMA StepWhole ==
    ASSUME CInv, [Next]_vars
    PROVE  Whole' /\ ChannelStep
<1> USE DEF ChannelStep, Channel!Next
<1>1. torn \in BOOLEAN /\ torn' \in BOOLEAN
  BY StepIInv DEF CInv, IInv, TypeOK
<1>2. CASE UNCHANGED vars
  <2>1. UNCHANGED << put, handled, torn, stream, next_message_length, buf, arrived, inflight >>
    BY <1>2 DEF vars, streamVars, peerVars, historyVars
  <2> QED BY <2>1 DEF CInv, Whole, Continues, Pending, Missing, Later
\* A stream that is given up or broken.
<1>3. CASE OnBrokenConnection
  BY <1>3 DEF OnBrokenConnection, historyVars, Whole
<1>4. CASE NewStream
  <2>1. /\ put' = << >> /\ handled' = << >> /\ torn' = (next_message_length # 0)
        /\ inflight' = << >> /\ arrived' = << >> /\ UNCHANGED << buf, next_message_length >>
    BY <1>4 DEF NewStream, peerVars
  <2>2. CASE next_message_length = 0
    <3>1. Channel!Fresh
      BY <2>1, <2>2 DEF Channel!Fresh
    <3>2. Missing' = 0 /\ Later' = << >> /\ Pending' = << >>
      <4>1. << >> \o << >> = << >>
        BY ConcatEmptySeq, EmptySeq
      <4> QED BY <2>1, <2>2, <4>1 DEF Missing, Later, Pending
    <3>3. Frames(<< >>, 0, << >>)
      <4>1. << >> \in Seq(Bytes) /\ Len(<< >>) = 0 /\ 0 \in Nat
        BY EmptySeq
      <4> QED BY <4>1, NoFrames
    <3>4. Frames(Pending', Missing', Later')
      BY <3>2, <3>3
    <3> QED BY <2>1, <2>2, <3>1, <3>4 DEF Whole
  <2>3. CASE next_message_length # 0
    BY <2>1, <2>3 DEF Whole, Channel!Damage
  <2> QED BY <2>2, <2>3
<1>5. CASE Close
  <2>1. stream = "open" /\ stream' = "closed"
        /\ UNCHANGED << put, handled, torn, next_message_length, buf, arrived, inflight >>
    BY <1>5 DEF Close, peerVars, historyVars
  <2> QED BY <2>1 DEF CInv, Whole, Continues, Pending, Missing, Later
<1>6. ASSUME NEW m \in Messages, send_msg(m) PROVE Whole' /\ ChannelStep
  <2>1. CASE torn'
    BY <2>1 DEF Whole, Channel!Damage
  <2>2. CASE ~torn'
    <3>1. ~torn /\ UNCHANGED torn
      BY <1>1, <1>6, <2>2 DEF send_msg
    <3>2. /\ Whole'
          /\ \/ put' = Append(put, m) /\ UNCHANGED handled
             \/ UNCHANGED << put, handled >>
      BY <1>6, <2>2, SendMessageWhole
    <3>3. put' = Append(put, m) /\ UNCHANGED handled => Channel!Put(m)
      BY <3>1 DEF Channel!Put
    <3> QED BY <3>1, <3>2, <3>3
  <2> QED BY <2>1, <2>2
<1>7. CASE SendKeepAlive
  <2>1. UNCHANGED << put, handled, torn >>
    BY <1>7 DEF SendKeepAlive, historyVars
  <2>2. Whole'
    BY <1>1, <1>7, <2>1, SendKeepAliveWhole DEF Whole
  <2> QED BY <2>1, <2>2
<1>8. ASSUME NEW k \in 1 .. Len(inflight), Arrive(k) PROVE Whole' /\ ChannelStep
  <2>1. UNCHANGED << put, handled, torn, stream, next_message_length, buf >>
    BY <1>8 DEF Arrive, peerVars, historyVars
  <2>2. Pending' = Pending
    BY <1>8, ArrivePending DEF CInv
  <2> QED BY <2>1, <2>2 DEF CInv, Whole, Continues, Missing, Later
<1>9. CASE ReceiveNoLength
  <2>1. torn' = TRUE
    BY <1>9 DEF ReceiveNoLength
  <2> QED BY <2>1 DEF Whole, Channel!Damage
<1>10. CASE ReceiveKeepAlive \/ ReceiveLength \/ ReceiveMore
  <2>1. UNCHANGED << torn, stream >> /\ stream # "none"
    BY <1>10 DEF ReceiveKeepAlive, ReceiveLength, ReceiveMore, historyVars
  <2>2. CASE torn
    BY <2>1, <2>2 DEF Whole, Channel!Damage
  <2>3. CASE ~torn
    <3>1. /\ next_message_length' # 0 => Continues(next_message_length, Pending)'
          /\ Frames(Pending', Missing', Later')
          /\ \/ UNCHANGED << put, handled >>
             \/ put # << >> /\ handled' = Append(handled, Head(put)) /\ put' = Tail(put)
      BY <1>10, <2>1, <2>3, ReceiveWhole
    <3>2. Whole'
      BY <3>1 DEF Whole
    <3>3. put # << >> /\ handled' = Append(handled, Head(put)) /\ put' = Tail(put) => Channel!Get
      BY <2>1 DEF Channel!Get
    <3> QED BY <2>1, <2>3, <3>1, <3>2, <3>3
  <2> QED BY <2>2, <2>3
<1> QED
  BY <1>2, <1>3, <1>4, <1>5, <1>6, <1>7, <1>8, <1>9, <1>10
  DEF Next, Reset, Receive, ReceiveEnd

\* send_msg and receive_message over non-blocking sockets carry whole messages, once and
\* in order, in however many parts they arrive and with keep-alives between them, until
\* bytes are lost; a connection taken up with no message half read starts afresh.
THEOREM ConnectionImplementsChannel == Spec => ImplementsChannel
<1>1. Init => Channel!Init
  BY DEF Init, Channel!Init
<1>2. CInv /\ [Next]_vars => CInv' /\ ChannelStep
  BY StepIInv, StepWhole DEF CInv
<1> QED BY InitWhole, <1>1, <1>2, PTL DEF Spec, ImplementsChannel, Channel!Spec, ChannelStep
=============================================================================
