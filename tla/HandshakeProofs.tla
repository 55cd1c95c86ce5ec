-------------------------- MODULE HandshakeProofs --------------------------
(***************************************************************************)
(* Theorems about Handshake, for any connections and torrents, whatever       *)
(* strangers write, and any lengths of the fields.                          *)
(***************************************************************************)
EXTENDS Handshake, SequenceTheorems, TLAPS

Bytes == 0 .. 255

-----------------------------------------------------------------------------
(***************************************************************************)
(* The bytes of a handshake.                                                *)
(***************************************************************************)
ShakeLen(p) == 1 + p + Reserved + HashLen + IdLen

\* Byte k of a stream: a handshake, then a message.
Byte(p, h, k) ==
    IF k = 1 THEN p
    ELSE IF k <= 1 + p + Reserved THEN Zero
    ELSE IF k <= 1 + p + Reserved + HashLen THEN h
    ELSE IF k <= ShakeLen(p) THEN Id ELSE Msg

\* Of a handshake and at most one message after it, a beginning has come: r has been
\* read, no further than the end of the handshake, and w not yet.
Carried(r, w, p, h) ==
    /\ Len(r) <= ShakeLen(p) /\ Len(r) + Len(w) <= ShakeLen(p) + 1
    /\ \A k \in 1 .. Len(r) : r[k] = Byte(p, h, k)
    /\ \A k \in 1 .. Len(w) : w[k] = Byte(p, h, Len(r) + k)

LEMMA Sizes ==
    /\ PstrLen \in 0 .. 254 /\ StrangerPstr \subseteq 0 .. 254
    /\ Reserved \in Nat \ {0} /\ HashLen \in Nat \ {0} /\ IdLen \in Nat \ {0}
    /\ Hashes \subseteq 2 .. 254
BY SizeAssumption

LEMMA TimesSeq ==
    ASSUME NEW byte \in Bytes, NEW n \in Nat
    PROVE  /\ Times(byte, n) \in Seq(Bytes) /\ Len(Times(byte, n)) = n
           /\ \A k \in 1 .. n : Times(byte, n)[k] = byte
<1>1. Times(byte, n) \in [1 .. n -> Bytes]
  BY DEF Times
<1>2. Times(byte, n) \in Seq(Bytes)
  BY <1>1, SeqDef
<1>3. Len(Times(byte, n)) = n
  BY <1>1, <1>2, LenProperties
<1> QED BY <1>2, <1>3 DEF Times

LEMMA ShakeBytes ==
    ASSUME NEW p \in 0 .. 254, NEW h \in 2 .. 254
    PROVE  /\ Shake(p, h) \in Seq(Bytes) /\ Len(Shake(p, h)) = ShakeLen(p)
           /\ ShakeLen(p) \in Nat \ {0}
           /\ \A k \in 1 .. ShakeLen(p) : Shake(p, h)[k] = Byte(p, h, k)
<1> DEFINE a == << p >>
           b == Times(Zero, p + Reserved)
           c == Times(h, HashLen)
           d == Times(Id, IdLen)
<1>0. p \in Nat /\ Reserved \in Nat /\ HashLen \in Nat /\ IdLen \in Nat
  BY Sizes
<1>1. a \in Seq(Bytes) /\ Len(a) = 1 /\ a[1] = p
  BY DEF Bytes
<1>2. /\ b \in Seq(Bytes) /\ Len(b) = p + Reserved
      /\ \A k \in 1 .. p + Reserved : b[k] = Zero
  <2>1. Zero \in Bytes /\ p + Reserved \in Nat
    BY <1>0 DEF Bytes, Zero
  <2> QED BY <2>1, TimesSeq, Zenon
<1>3. c \in Seq(Bytes) /\ Len(c) = HashLen /\ \A k \in 1 .. HashLen : c[k] = h
  <2>1. h \in Bytes
    BY DEF Bytes
  <2> QED BY <1>0, <2>1, TimesSeq, Zenon
<1>4. d \in Seq(Bytes) /\ Len(d) = IdLen /\ \A k \in 1 .. IdLen : d[k] = Id
  <2>1. Id \in Bytes
    BY DEF Bytes, Id
  <2> QED BY <1>0, <2>1, TimesSeq, Zenon
<1> HIDE DEF a, b, c, d
<1>5. /\ a \o b \in Seq(Bytes) /\ Len(a \o b) = 1 + p + Reserved
      /\ \A k \in 1 .. 1 + p + Reserved : (a \o b)[k] = IF k <= 1 THEN a[k] ELSE b[k - 1]
  <2>1. /\ a \o b \in Seq(Bytes) /\ Len(a \o b) = Len(a) + Len(b)
        /\ \A k \in 1 .. Len(a) + Len(b) :
             (a \o b)[k] = IF k <= Len(a) THEN a[k] ELSE b[k - Len(a)]
    BY <1>1, <1>2, ConcatProperties, Zenon
  <2> QED BY <2>1, <1>0, <1>1, <1>2
<1>6. \A k \in 1 .. 1 + p + Reserved : (a \o b)[k] = IF k = 1 THEN p ELSE Zero
  <2> TAKE k \in 1 .. 1 + p + Reserved
  <2>1. CASE k = 1
    BY <1>5, <1>1, <1>0, <2>1
  <2>2. CASE k # 1
    <3>1. k - 1 \in 1 .. p + Reserved /\ ~(k <= 1)
      BY <1>0, <2>2
    <3> QED BY <1>5, <1>2, <2>2, <3>1
  <2> QED BY <2>1, <2>2
<1> DEFINE ab == a \o b  m == 1 + p + Reserved
<1>7. ab \in Seq(Bytes) /\ Len(ab) = m /\ m \in Nat
  BY <1>0, <1>5
<1> HIDE DEF ab
<1>8. /\ ab \o c \in Seq(Bytes) /\ Len(ab \o c) = m + HashLen
      /\ \A k \in 1 .. m + HashLen : (ab \o c)[k] = IF k <= m THEN ab[k] ELSE c[k - m]
  <2> HIDE DEF m
  <2>1. /\ ab \o c \in Seq(Bytes) /\ Len(ab \o c) = Len(ab) + Len(c)
        /\ \A k \in 1 .. Len(ab) + Len(c) :
             (ab \o c)[k] = IF k <= Len(ab) THEN ab[k] ELSE c[k - Len(ab)]
    BY <1>7, <1>3, ConcatProperties, Zenon
  <2> QED BY <2>1, <1>7, <1>3
<1>9. \A k \in 1 .. m + HashLen : (ab \o c)[k] = IF k <= m THEN ab[k] ELSE h
  <2> HIDE DEF m
  <2> QED BY <1>0, <1>7, <1>8, <1>3
<1> DEFINE abc == ab \o c
<1>10. abc \in Seq(Bytes) /\ Len(abc) = m + HashLen
  BY <1>8
<1> HIDE DEF abc
<1>11. /\ abc \o d \in Seq(Bytes) /\ Len(abc \o d) = m + HashLen + IdLen
       /\ \A k \in 1 .. m + HashLen + IdLen :
            (abc \o d)[k] = IF k <= m + HashLen THEN abc[k] ELSE d[k - (m + HashLen)]
  <2> DEFINE n == m + HashLen
  <2>1. n \in Nat /\ Len(abc) = n /\ abc \in Seq(Bytes)
    BY <1>10, <1>7, <1>0
  <2> HIDE DEF n
  <2>2. /\ abc \o d \in Seq(Bytes) /\ Len(abc \o d) = n + IdLen
        /\ \A k \in 1 .. n + IdLen : (abc \o d)[k] = IF k <= n THEN abc[k] ELSE d[k - n]
    <3>1. /\ abc \o d \in Seq(Bytes) /\ Len(abc \o d) = Len(abc) + Len(d)
          /\ \A k \in 1 .. Len(abc) + Len(d) :
               (abc \o d)[k] = IF k <= Len(abc) THEN abc[k] ELSE d[k - Len(abc)]
      BY <2>1, <1>4, ConcatProperties, Zenon
    <3> QED BY <3>1, <2>1, <1>4
  <2> QED BY <2>2 DEF n
<1>12. \A k \in 1 .. m + HashLen + IdLen :
         (abc \o d)[k] = IF k <= m + HashLen THEN abc[k] ELSE Id
  <2> HIDE DEF m
  <2> QED BY <1>0, <1>7, <1>11, <1>4
<1>13. abc \o d = Shake(p, h)
  BY DEF abc, ab, a, b, c, d, Shake
<1>14. \A k \in 1 .. m + HashLen + IdLen : Shake(p, h)[k] = Byte(p, h, k)
  <2> TAKE k \in 1 .. m + HashLen + IdLen
  <2>1. CASE k > m + HashLen
    BY <2>1, <1>0, <1>12, <1>13 DEF Byte, ShakeLen
  <2>2. CASE k > m /\ k <= m + HashLen
    <3>0. k \in 1 .. m + HashLen /\ ~(k <= m)
      BY <2>2, <1>0
    <3>1. Shake(p, h)[k] = abc[k] /\ abc[k] = h
      BY <2>2, <3>0, <1>12, <1>13, <1>9 DEF abc
    <3> QED BY <2>2, <3>1, <1>0 DEF Byte
  <2>3. CASE k <= m
    <3>0. k \in 1 .. m + HashLen /\ k <= m + HashLen /\ k \in 1 .. 1 + p + Reserved
      BY <2>3, <1>0
    <3>1. Shake(p, h)[k] = abc[k] /\ abc[k] = ab[k]
      BY <2>3, <3>0, <1>12, <1>13, <1>9 DEF abc
    <3>2. ab[k] = IF k = 1 THEN p ELSE Zero
      BY <3>0, <1>6 DEF ab
    <3> QED BY <2>3, <3>1, <3>2, <1>0 DEF Byte
  <2> QED BY <2>1, <2>2, <2>3, <1>0
<1> QED BY <1>11, <1>13, <1>14, <1>0, Sizes DEF ShakeLen

LEMMA ByteType ==
    ASSUME NEW p \in 0 .. 254, NEW h \in 2 .. 254, NEW k \in Nat \ {0}
    PROVE  /\ Byte(p, h, k) \in Bytes /\ ShakeLen(p) \in Nat \ {0}
           /\ Byte(p, h, k) = Msg <=> k > ShakeLen(p)
BY Sizes DEF Byte, Bytes, Zero, Id, Msg, ShakeLen

-----------------------------------------------------------------------------
(***************************************************************************)
(* What a write and a read leave of a stream.                               *)
(***************************************************************************)
LEMMA Concat ==
    ASSUME NEW s \in Seq(Bytes), NEW t \in Seq(Bytes)
    PROVE  /\ s \o t \in Seq(Bytes) /\ Len(s \o t) = Len(s) + Len(t)
           /\ \A k \in 1 .. Len(s) : (s \o t)[k] = s[k]
           /\ \A k \in 1 .. Len(t) : (s \o t)[Len(s) + k] = t[k]
<1>1. Len(s) \in Nat /\ Len(t) \in Nat
  BY LenProperties
<1>2. /\ s \o t \in Seq(Bytes) /\ Len(s \o t) = Len(s) + Len(t)
      /\ \A i \in 1 .. Len(s) + Len(t) : (s \o t)[i] = IF i <= Len(s) THEN s[i] ELSE t[i - Len(s)]
  BY ConcatProperties, Zenon
<1>3. \A k \in 1 .. Len(s) : (s \o t)[k] = s[k]
  <2> TAKE k \in 1 .. Len(s)
  <2>1. k \in 1 .. Len(s) + Len(t) /\ k <= Len(s)
    BY <1>1
  <2> QED BY <1>2, <2>1
<1>4. \A k \in 1 .. Len(t) : (s \o t)[Len(s) + k] = t[k]
  <2> TAKE k \in 1 .. Len(t)
  <2>1. Len(s) + k \in 1 .. Len(s) + Len(t) /\ ~(Len(s) + k <= Len(s)) /\ Len(s) + k - Len(s) = k
    BY <1>1
  <2> QED BY <1>2, <2>1
<1> QED BY <1>2, <1>3, <1>4

\* A part of a sequence of bytes.
LEMMA Part ==
    ASSUME NEW s \in Seq(Bytes), NEW m \in 1 .. Len(s) + 1, NEW n \in m - 1 .. Len(s)
    PROVE  /\ SubSeq(s, m, n) \in Seq(Bytes) /\ Len(SubSeq(s, m, n)) = n - m + 1
           /\ \A k \in 1 .. n - m + 1 : SubSeq(s, m, n)[k] = s[m + k - 1]
<1>1. Len(s) \in Nat /\ m \in Int /\ n \in Int /\ (n < m => n - m + 1 = 0)
  BY LenProperties
<1>2. \A i \in m .. n : i \in 1 .. Len(s)
  BY <1>1
<1>3. \A i \in m .. n : s[i] \in Bytes
  BY <1>2, ElementOfSeq
<1>4. /\ SubSeq(s, m, n) \in Seq(Bytes)
      /\ Len(SubSeq(s, m, n)) = IF m <= n THEN n - m + 1 ELSE 0
      /\ \A i \in 1 .. n - m + 1 : SubSeq(s, m, n)[i] = s[m + i - 1]
  BY <1>1, <1>3, SubSeqProperties
<1> QED BY <1>1, <1>4

\* Nothing has come.
LEMMA CarriedNothing ==
    ASSUME NEW p \in 0 .. 254, NEW h \in 2 .. 254
    PROVE  Carried(<< >>, << >>, p, h)
<1>1. ShakeLen(p) \in Nat \ {0}
  BY Sizes DEF ShakeLen
<1>2. Len(<< >>) = 0
  OBVIOUS
<1> QED BY <1>1, <1>2 DEF Carried

\* A stream begins with a part of a handshake and a message.
LEMMA CarriedPart ==
    ASSUME NEW p \in 0 .. 254, NEW h \in 2 .. 254,
           NEW n \in 0 .. Len(Shake(p, h)) + 1
    PROVE  /\ SubSeq(Shake(p, h) \o << Msg >>, 1, n) \in Seq(Bytes)
           /\ Carried(<< >>, SubSeq(Shake(p, h) \o << Msg >>, 1, n), p, h)
<1> DEFINE s == Shake(p, h)
           t == s \o << Msg >>
           u == SubSeq(t, 1, n)
<1>1. /\ s \in Seq(Bytes) /\ Len(s) = ShakeLen(p) /\ ShakeLen(p) \in Nat \ {0}
      /\ \A k \in 1 .. ShakeLen(p) : s[k] = Byte(p, h, k)
  BY ShakeBytes, Zenon
<1>2. << Msg >> \in Seq(Bytes) /\ Len(<< Msg >>) = 1 /\ << Msg >>[1] = Msg
  BY DEF Bytes, Msg
<1>3. n \in 0 .. Len(s) + 1
  OBVIOUS
<1> HIDE DEF s
<1>4. /\ t \in Seq(Bytes) /\ Len(t) = Len(s) + 1
      /\ \A k \in 1 .. Len(s) : t[k] = s[k]
      /\ t[Len(s) + 1] = Msg
  <2>1. /\ t \in Seq(Bytes) /\ Len(t) = Len(s) + Len(<< Msg >>)
        /\ \A k \in 1 .. Len(s) : t[k] = s[k]
        /\ \A k \in 1 .. Len(<< Msg >>) : t[Len(s) + k] = << Msg >>[k]
    BY <1>1, <1>2, Concat, Zenon
  <2>2. 1 \in 1 .. Len(<< Msg >>)
    BY <1>2
  <2>3. t[Len(s) + 1] = << Msg >>[1]
    BY <2>1, <2>2, Zenon
  <2> HIDE DEF t
  <2> QED BY <2>1, <2>3, <1>2
<1> HIDE DEF t
<1>5. \A k \in 1 .. ShakeLen(p) + 1 : t[k] = Byte(p, h, k)
  <2> TAKE k \in 1 .. ShakeLen(p) + 1
  <2>1. CASE k = ShakeLen(p) + 1
    <3>1. Byte(p, h, k) = Msg
      BY <2>1, <1>1, Sizes DEF Byte, ShakeLen
    <3> QED BY <3>1, <2>1, <1>1, <1>4
  <2>2. CASE k # ShakeLen(p) + 1
    <3>1. k \in 1 .. ShakeLen(p)
      BY <1>1, <2>2
    <3> QED BY <3>1, <1>1, <1>4
  <2> QED BY <2>1, <2>2
<1>6. u \in Seq(Bytes) /\ Len(u) = n /\ \A k \in 1 .. n : u[k] = t[k]
  <2>1. 1 \in 1 .. Len(t) + 1 /\ n \in 1 - 1 .. Len(t) /\ n - 1 + 1 = n /\ n \in Nat
    BY <1>1, <1>3, <1>4
  <2>2. /\ u \in Seq(Bytes) /\ Len(u) = n - 1 + 1
        /\ \A k \in 1 .. n - 1 + 1 : u[k] = t[1 + k - 1]
    BY <1>4, <2>1, Part, Zenon
  <2> HIDE DEF u
  <2>3. \A k \in 1 .. n : 1 + k - 1 = k
    BY <2>1
  <2> QED BY <2>1, <2>2, <2>3
<1> HIDE DEF u
<1>7. Len(<< >>) = 0 /\ n <= ShakeLen(p) + 1
  BY <1>1, <1>3
<1>8. \A k \in 1 .. n : k \in 1 .. ShakeLen(p) + 1 /\ 0 + k = k
  BY <1>1, <1>7, <1>3
<1>9. Carried(<< >>, u, p, h)
  BY <1>1, <1>3, <1>5, <1>6, <1>7, <1>8 DEF Carried
<1> QED BY <1>6, <1>9 DEF u, t, s

\* A read that stays within the handshake.
LEMMA CarriedRead ==
    ASSUME NEW p \in 0 .. 254, NEW h \in 2 .. 254,
           NEW r \in Seq(Bytes), NEW w \in Seq(Bytes), Carried(r, w, p, h),
           NEW k \in 1 .. Len(w), Len(r) + k <= ShakeLen(p)
    PROVE  /\ r \o SubSeq(w, 1, k) \in Seq(Bytes)
           /\ SubSeq(w, k + 1, Len(w)) \in Seq(Bytes)
           /\ Len(r \o SubSeq(w, 1, k)) + Len(SubSeq(w, k + 1, Len(w))) = Len(r) + Len(w)
           /\ Carried(r \o SubSeq(w, 1, k), SubSeq(w, k + 1, Len(w)), p, h)
<1> DEFINE a == SubSeq(w, 1, k)
           b == SubSeq(w, k + 1, Len(w))
<1>1. /\ Len(r) \in Nat /\ Len(w) \in Nat /\ k \in Nat /\ k <= Len(w)
      /\ ShakeLen(p) \in Nat \ {0}
  BY LenProperties, Sizes DEF ShakeLen
<1>2. a \in Seq(Bytes) /\ Len(a) = k /\ \A j \in 1 .. k : a[j] = w[j]
  <2>1. 1 \in 1 .. Len(w) + 1 /\ k \in 1 - 1 .. Len(w) /\ k - 1 + 1 = k
    BY <1>1
  <2>2. /\ a \in Seq(Bytes) /\ Len(a) = k - 1 + 1
        /\ \A j \in 1 .. k - 1 + 1 : a[j] = w[1 + j - 1]
    BY <2>1, Part, Zenon
  <2> HIDE DEF a
  <2>3. \A j \in 1 .. k : 1 + j - 1 = j
    BY <1>1
  <2> QED BY <2>1, <2>2, <2>3
<1>3. /\ b \in Seq(Bytes) /\ Len(b) = Len(w) - k
      /\ \A j \in 1 .. Len(w) - k : b[j] = w[k + j]
  <2> DEFINE m == k + 1
  <2>1. /\ m \in 1 .. Len(w) + 1 /\ Len(w) \in m - 1 .. Len(w)
        /\ Len(w) - m + 1 = Len(w) - k
    BY <1>1
  <2>2. b = SubSeq(w, m, Len(w))
    OBVIOUS
  <2> HIDE DEF m, b
  <2>3. /\ SubSeq(w, m, Len(w)) \in Seq(Bytes) /\ Len(SubSeq(w, m, Len(w))) = Len(w) - m + 1
        /\ \A j \in 1 .. Len(w) - m + 1 : SubSeq(w, m, Len(w))[j] = w[m + j - 1]
    BY <2>1, Part, Zenon
  <2>4. \A j \in 1 .. Len(w) - k : m + j - 1 = k + j
    BY <1>1 DEF m
  <2> QED BY <2>1, <2>2, <2>3, <2>4
<1> HIDE DEF a, b
<1>4. /\ r \o a \in Seq(Bytes) /\ Len(r \o a) = Len(r) + Len(a)
      /\ \A j \in 1 .. Len(r) : (r \o a)[j] = r[j]
      /\ \A j \in 1 .. Len(a) : (r \o a)[Len(r) + j] = a[j]
  BY <1>2, Concat, Zenon
<1> DEFINE ra == r \o a
<1>5. /\ ra \in Seq(Bytes) /\ Len(ra) = Len(r) + k
      /\ \A j \in 1 .. Len(r) : ra[j] = r[j]
      /\ \A j \in 1 .. k : ra[Len(r) + j] = w[j]
  BY <1>2, <1>4
<1> HIDE DEF ra
<1>6. \A j \in 1 .. Len(ra) : ra[j] = Byte(p, h, j)
  <2> TAKE j \in 1 .. Len(ra)
  <2>1. CASE j <= Len(r)
    <3>1. j \in 1 .. Len(r)
      BY <2>1, <1>1, <1>5
    <3> QED BY <3>1, <1>5 DEF Carried
  <2>2. CASE ~(j <= Len(r))
    <3> DEFINE i == j - Len(r)
    <3>1. i \in 1 .. k /\ i \in 1 .. Len(w) /\ Len(r) + i = j
      BY <2>2, <1>1, <1>5
    <3> HIDE DEF i
    <3>2. ra[Len(r) + i] = w[i] /\ w[i] = Byte(p, h, Len(r) + i)
      BY <3>1, <1>5 DEF Carried
    <3> QED BY <3>1, <3>2
  <2> QED BY <2>1, <2>2
<1>7. \A j \in 1 .. Len(b) : b[j] = Byte(p, h, Len(ra) + j)
  <2> TAKE j \in 1 .. Len(b)
  <2>1. /\ j \in 1 .. Len(w) - k /\ k + j \in 1 .. Len(w)
        /\ Len(r) + (k + j) = Len(ra) + j
    BY <1>1, <1>3, <1>5
  <2>2. b[j] = w[k + j] /\ w[k + j] = Byte(p, h, Len(r) + (k + j))
    BY <2>1, <1>3 DEF Carried
  <2> QED BY <2>1, <2>2
<1>8. Len(ra) + Len(b) = Len(r) + Len(w)
  BY <1>1, <1>3, <1>5
<1>9. Carried(ra, b, p, h)
  BY <1>1, <1>5, <1>6, <1>7, <1>8 DEF Carried
<1> QED BY <1>3, <1>5, <1>8, <1>9 DEF ra, a, b

\* Where a field ends is decided by the length the other side named.
LEMMA FieldsOfShake ==
    ASSUME NEW p \in 0 .. 254, NEW h \in 2 .. 254,
           NEW r \in Seq(Bytes), NEW w \in Seq(Bytes), Carried(r, w, p, h)
    PROVE  /\ \A n \in FieldEnds(r) : n \in Nat /\ n <= ShakeLen(p)
           /\ r # << >> /\ (\A n \in FieldEnds(r) : n <= Len(r)) => Len(r) = ShakeLen(p)
<1>1. ShakeLen(p) \in Nat \ {0} /\ Len(r) \in Nat /\ Len(r) <= ShakeLen(p)
  BY LenProperties, Sizes DEF ShakeLen, Carried
<1>2. CASE r = << >>
  BY <1>1, <1>2 DEF FieldEnds
<1>3. CASE r # << >>
  <2>1. 1 \in 1 .. Len(r)
    BY <1>3, EmptySeq, <1>1
  <2>2. r[1] = p
    BY <2>1 DEF Carried, Byte
  <2>3. FieldEnds(r) = { 1, 1 + p, 1 + p + Reserved, 1 + p + Reserved + HashLen, ShakeLen(p) }
    BY <1>3, <2>2 DEF FieldEnds, ShakeLen
  <2>4. \A n \in FieldEnds(r) : n \in Nat /\ n <= ShakeLen(p)
    BY <2>3, Sizes DEF ShakeLen
  <2>5. ShakeLen(p) \in FieldEnds(r)
    BY <2>3
  <2> QED BY <1>1, <2>4, <2>5
<1> QED BY <1>2, <1>3

\* When the whole handshake has been read, no byte of a message has.
LEMMA WholeShake ==
    ASSUME NEW p \in 0 .. 254, NEW h \in 2 .. 254,
           NEW r \in Seq(Bytes), NEW w \in Seq(Bytes), Carried(r, w, p, h),
           Len(r) = ShakeLen(p)
    PROVE  /\ SubSeq(r, 2 + r[1] + Reserved, 1 + r[1] + Reserved + HashLen)
                = Times(h, HashLen)
           /\ ~MsgIn(r) /\ \A k \in 1 .. Len(w) : w[k] = Msg
<1>1. /\ ShakeLen(p) \in Nat \ {0} /\ Len(r) \in Nat /\ Len(w) \in Nat
      /\ p \in Nat /\ Reserved \in Nat /\ HashLen \in Nat \ {0}
  BY LenProperties, Sizes DEF ShakeLen
<1>2. r[1] = p
  <2>1. 1 \in 1 .. Len(r)
    BY <1>1
  <2> QED BY <2>1 DEF Carried, Byte
<1> DEFINE m == 2 + p + Reserved
           n == 1 + p + Reserved + HashLen
<1>3. /\ m \in 1 .. Len(r) + 1 /\ n \in m - 1 .. Len(r) /\ n - m + 1 = HashLen
      /\ \A k \in 1 .. HashLen : m + k - 1 \in 1 .. Len(r)
      /\ \A k \in 1 .. HashLen : m + k - 1 # 1 /\ m + k - 1 > 1 + p + Reserved /\ m + k - 1 <= n
  BY <1>1, Sizes DEF ShakeLen
<1>4. \A k \in 1 .. HashLen : Byte(p, h, m + k - 1) = h
  BY <1>1, <1>3 DEF Byte
<1> HIDE DEF m, n
<1> DEFINE u == SubSeq(r, m, n)
<1>5. /\ u \in Seq(Bytes) /\ Len(u) = n - m + 1
      /\ \A k \in 1 .. n - m + 1 : u[k] = r[m + k - 1]
  BY <1>3, Part, Zenon
<1> HIDE DEF u
<1>6. \A k \in 1 .. HashLen : u[k] = h
  BY <1>3, <1>4, <1>5 DEF Carried
<1>7. u = Times(h, HashLen)
  <2>1. h \in Bytes
    BY DEF Bytes
  <2>2. /\ Times(h, HashLen) \in Seq(Bytes) /\ Len(Times(h, HashLen)) = HashLen
        /\ \A k \in 1 .. HashLen : Times(h, HashLen)[k] = h
    BY <2>1, <1>1, TimesSeq
  <2>3. Len(u) = Len(Times(h, HashLen)) /\ \A k \in 1 .. Len(u) : u[k] = Times(h, HashLen)[k]
    BY <2>2, <1>3, <1>5, <1>6
  <2> QED BY <2>2, <2>3, <1>5, SeqEqual, Zenon
<1>8. ~MsgIn(r)
  <2>1. \A k \in 1 .. Len(r) : k \in Nat \ {0} /\ ~(k > ShakeLen(p))
    BY <1>1
  <2>2. \A k \in 1 .. Len(r) : Byte(p, h, k) # Msg
    BY <2>1, ByteType
  <2> QED BY <2>2 DEF MsgIn, Carried
<1>9. \A k \in 1 .. Len(w) : w[k] = Msg
  <2>1. \A k \in 1 .. Len(w) : Len(r) + k \in Nat \ {0} /\ Len(r) + k > ShakeLen(p)
    BY <1>1
  <2>2. \A k \in 1 .. Len(w) : Byte(p, h, Len(r) + k) = Msg
    BY <2>1, ByteType
  <2> QED BY <2>2 DEF Carried
<1>10. u = SubSeq(r, 2 + r[1] + Reserved, 1 + r[1] + Reserved + HashLen)
  BY <1>2 DEF u, m, n
<1> QED BY <1>7, <1>8, <1>9, <1>10

-----------------------------------------------------------------------------
(***************************************************************************)
(* The inductive invariant: what has come on a connection, and what was       *)
(* written before it is taken up.                                           *)
(***************************************************************************)
\* On a connection comes a handshake for the torrent that was named, and a message.
Stream(c, p) == named[c] # Zero => Carried(read[c], wire[c], p, named[c])
Streams == \A c \in Conns : \E p \in 0 .. 254 : Stream(c, p)

\* A stranger that has not been reached has said nothing, and names nothing until it
\* writes.
Unasked == \A c \in Conns :
    ours[c] = "idle" \/ (c \in Outgoing /\ ours[c] = "waiting") => theirs[c] = "idle"
Unnamed == \A c \in Conns : theirs[c] \in { "idle", "open" } => named[c] = Zero

\* On a connection we opened our handshake goes first; the answer names what was named.
Written == \A c \in Conns :
    /\ c \in Outgoing /\ ours[c] \in { "reading", "ok" } =>
          written[c] = Shake(PstrLen, Wanted[c])
    /\ c \in Incoming /\ ours[c] = "ok" => written[c] = Shake(PstrLen, named[c])

\* A handshake that succeeded was read to the end, and its torrent looked at.
Agreed(c) == IF c \in Outgoing THEN HashRead(c) = Times(Wanted[c], HashLen) ELSE Known(c)
Checked == \A c \in Conns : ours[c] = "ok" => Complete(c) /\ Agreed(c)

IInv == TypeOK /\ Unasked /\ Unnamed /\ Streams /\ Written /\ Checked

LEMMA HashRange ==
    /\ \A h \in Hashes : h \in 2 .. 254 /\ h \in Bytes /\ h # Zero
    /\ Held \subseteq Hashes /\ \A c \in Outgoing : Wanted[c] \in Hashes /\ Wanted[c] \in Held
<1>1. Held \subseteq Hashes /\ Hashes \subseteq 2 .. 254
  BY SizeAssumption
<1>2. \A h \in Hashes : h \in 2 .. 254
  BY <1>1
<1>3. \A h \in 2 .. 254 : h \in Bytes /\ h # Zero
  BY DEF Bytes, Zero
<1>4. \A c \in Outgoing : Wanted[c] \in Held
  BY ConnAssumption
<1> QED BY <1>1, <1>2, <1>3, <1>4, Zenon

LEMMA OneWay == \A c \in Conns : c \in Outgoing <=> c \notin Incoming
BY ConnAssumption DEF Conns

\* What was read to the end is a handshake, and for the torrent that was named.
LEMMA StreamRead ==
    ASSUME TypeOK, NEW c \in Conns, NEW p \in 0 .. 254, Stream(c, p), named[c] # Zero
    PROVE  /\ named[c] \in Hashes
           /\ \A n \in FieldEnds(read[c]) : n \in Nat /\ n <= ShakeLen(p)
           /\ Complete(c) => /\ HashRead(c) = Times(named[c], HashLen)
                             /\ ~MsgIn(read[c])
                             /\ \A k \in 1 .. Len(wire[c]) : wire[c][k] = Msg
<1> DEFINE h == named[c]
<1>1. /\ read[c] \in Seq(Bytes) /\ wire[c] \in Seq(Bytes) /\ h \in Hashes /\ h \in 2 .. 254
      /\ Carried(read[c], wire[c], p, h)
  BY HashRange DEF TypeOK, Bytes, Stream
<1>2. /\ \A n \in FieldEnds(read[c]) : n \in Nat /\ n <= ShakeLen(p)
      /\ read[c] # << >> /\ (\A n \in FieldEnds(read[c]) : n <= Len(read[c]))
           => Len(read[c]) = ShakeLen(p)
  BY <1>1, FieldsOfShake, Zenon
<1>3. Complete(c) => Len(read[c]) = ShakeLen(p)
  BY <1>2 DEF Complete
<1>4. ASSUME Len(read[c]) = ShakeLen(p)
      PROVE  /\ HashRead(c) = Times(h, HashLen) /\ ~MsgIn(read[c])
             /\ \A k \in 1 .. Len(wire[c]) : wire[c][k] = Msg
  BY <1>1, <1>4, WholeShake, Zenon DEF HashRead
<1> QED BY <1>1, <1>2, <1>3, <1>4

\* Nothing complete is read on a connection whose stranger has named nothing.
LEMMA CompleteNamed ==
    ASSUME TypeOK, NEW c \in Conns, Complete(c)
    PROVE  named[c] # Zero
BY DEF TypeOK, Complete

LEMMA InitIInv == Init => IInv
<1> SUFFICES ASSUME Init PROVE IInv
  OBVIOUS
<1> USE DEF Init
<1>1. TypeOK
  BY DEF TypeOK, Ours, Theirs
<1>2. Unasked /\ Unnamed /\ Written /\ Checked
  BY DEF Unasked, Unnamed, Written, Checked
<1>3. Streams
  <2>1. \A c \in Conns : Stream(c, 0) /\ 0 \in 0 .. 254
    BY DEF Stream
  <2> QED BY <2>1 DEF Streams
<1> QED BY <1>1, <1>2, <1>3 DEF IInv

-----------------------------------------------------------------------------
(***************************************************************************)
(* Every action preserves it.                                               *)
(***************************************************************************)
\* The process comes on with a connection, having written w in all.
LEMMA OursStep ==
    ASSUME IInv, NEW c \in Conns, NEW s \in Ours, NEW w \in Seq(Bytes),
           ours' = [ours EXCEPT ![c] = s], written' = [written EXCEPT ![c] = w],
           UNCHANGED << wire, read, named >>,
           theirs' \in [Conns -> Theirs],
           \A d \in Conns : d # c => theirs'[d] = theirs[d],
           theirs'[c] \in { "idle", "open" } => theirs[c] \in { "idle", "open" },
           s # "idle", s = "waiting" /\ c \in Outgoing => theirs'[c] = "idle",
           s \in { "idle", "waiting" } => read[c] = << >> /\ w = << >>,
           c \in Outgoing /\ s \in { "reading", "ok" } => w = Shake(PstrLen, Wanted[c]),
           c \in Incoming /\ s = "ok" => w = Shake(PstrLen, named[c]),
           s = "ok" => Complete(c) /\ Agreed(c)
    PROVE  IInv'
<1> USE DEF IInv
<1>1. \A d \in Conns : /\ ours'[d] = IF d = c THEN s ELSE ours[d]
                       /\ written'[d] = IF d = c THEN w ELSE written[d]
  BY DEF TypeOK
<1>2. TypeOK'
  <2>1. ours' \in [Conns -> Ours] /\ written' \in [Conns -> Seq(Bytes)]
    BY DEF TypeOK, Bytes
  <2>2. \A d \in Conns : ours'[d] \in { "idle", "waiting" } => read[d] = << >> /\ written'[d] = << >>
    BY <1>1 DEF TypeOK
  <2> QED BY <2>1, <2>2 DEF TypeOK, Bytes
<1>3. Unasked' /\ Unnamed'
  BY <1>1 DEF Unasked, Unnamed
<1>4. Streams'
  BY DEF Streams, Stream
<1>5. Written'
  BY <1>1 DEF Written
<1>6. Checked'
  <2> SUFFICES ASSUME NEW d \in Conns, ours'[d] = "ok" PROVE Complete(d) /\ Agreed(d)
    BY DEF Checked, Complete, Agreed, Known, HashRead
  <2> QED BY <1>1 DEF Checked
<1> QED BY <1>2, <1>3, <1>4, <1>5, <1>6

\* Nothing is written.
LEMMA QuietStep ==
    ASSUME IInv, NEW c \in Conns, NEW s \in Ours,
           ours' = [ours EXCEPT ![c] = s], UNCHANGED << theirs, wire, read, written, named >>,
           s # "idle", s = "waiting" => ours[c] = "idle",
           c \in Outgoing /\ s \in { "reading", "ok" } => ours[c] = "reading",
           s = "ok" => c \in Outgoing /\ Complete(c) /\ Agreed(c)
    PROVE  IInv'
<1> DEFINE w == written[c]
<1>1. w \in Seq(Bytes) /\ written' = [written EXCEPT ![c] = w] /\ theirs' \in [Conns -> Theirs]
  BY DEF IInv, TypeOK, Bytes
<1>2. c \in Outgoing /\ s \in { "reading", "ok" } => w = Shake(PstrLen, Wanted[c])
  BY DEF IInv, Written
<1>3. ~(c \in Incoming /\ s = "ok")
  BY OneWay
<1>4. s \in { "idle", "waiting" } => read[c] = << >> /\ w = << >> /\ theirs[c] = "idle"
  BY DEF IInv, TypeOK, Unasked
<1>5. UNCHANGED << wire, read, named >> /\ (s = "ok" => Complete(c) /\ Agreed(c))
  OBVIOUS
<1>6. theirs' = theirs /\ s # "idle"
  OBVIOUS
<1> HIDE DEF w
<1> QED BY <1>1, <1>2, <1>3, <1>4, <1>5, <1>6, OursStep

LEMMA FailStep ==
    ASSUME IInv, NEW c \in Conns, Fail(c)
    PROVE  IInv'
BY QuietStep DEF Fail, Ours

LEMMA ReadStep ==
    ASSUME IInv, NEW c \in Conns, NEW k \in 1 .. Len(wire[c]), Read(c, k)
    PROVE  IInv'
<1> USE DEF IInv
<1>1. /\ ours[c] = "reading" /\ ~Complete(c) /\ UNCHANGED << ours, theirs, written, named >>
      /\ read' = [read EXCEPT ![c] = @ \o SubSeq(wire[c], 1, k)]
      /\ wire' = [wire EXCEPT ![c] = SubSeq(@, k + 1, Len(@))]
  BY DEF Read
<1>2. PICK p \in 0 .. 254 : Stream(c, p)
  BY DEF Streams
<1>3. read[c] \in Seq(Bytes) /\ wire[c] \in Seq(Bytes) /\ Len(read[c]) \in Nat
  BY LenProperties DEF TypeOK, Bytes
<1>4. named[c] # Zero
  <2>1. Len(wire[c]) # 0
    BY <1>3, LenProperties
  <2>2. wire[c] # << >>
    BY <2>1
  <2> QED BY <2>2 DEF TypeOK
<1>5. named[c] \in Hashes /\ named[c] \in 2 .. 254 /\ Carried(read[c], wire[c], p, named[c])
  BY <1>2, <1>4, StreamRead, HashRange DEF Stream
<1>6. Len(read[c]) + k <= ShakeLen(p)
  <2>1. PICK n \in FieldEnds(read[c]) : n >= Len(read[c]) + k
    BY DEF Read
  <2>2. n \in Nat /\ n <= ShakeLen(p)
    BY <1>2, <1>4, StreamRead
  <2>3. ShakeLen(p) \in Nat
    BY Sizes DEF ShakeLen
  <2> QED BY <1>3, <2>1, <2>2, <2>3
<1> DEFINE r == read[c] \o SubSeq(wire[c], 1, k)
           w == SubSeq(wire[c], k + 1, Len(wire[c]))
<1>7. r \in Seq(Bytes) /\ w \in Seq(Bytes) /\ Carried(r, w, p, named[c])
  BY <1>3, <1>5, <1>6, CarriedRead
<1>8. \A d \in Conns : /\ read'[d] = IF d = c THEN r ELSE read[d]
                       /\ wire'[d] = IF d = c THEN w ELSE wire[d]
  BY <1>1 DEF TypeOK
<1> HIDE DEF r, w
<1>9. TypeOK'
  <2>1. read' \in [Conns -> Seq(Bytes)] /\ wire' \in [Conns -> Seq(Bytes)]
    <3>1. read \in [Conns -> Seq(Bytes)] /\ wire \in [Conns -> Seq(Bytes)]
      BY DEF TypeOK, Bytes
    <3>2. read' = [read EXCEPT ![c] = r] /\ wire' = [wire EXCEPT ![c] = w]
      BY <1>1, <3>1 DEF r, w
    <3> QED BY <1>7, <3>1, <3>2
  <2>2. \A d \in Conns :
          /\ ours[d] \in { "idle", "waiting" } => read'[d] = << >> /\ written[d] = << >>
          /\ named[d] = Zero => read'[d] = << >> /\ wire'[d] = << >>
    BY <1>1, <1>4, <1>8 DEF TypeOK
  <2> QED BY <1>1, <2>1, <2>2 DEF TypeOK, Bytes
<1>10. Unasked' /\ Unnamed' /\ Written'
  BY <1>1 DEF Unasked, Unnamed, Written
<1>11. Streams'
  <2> SUFFICES ASSUME NEW d \in Conns PROVE \E q \in 0 .. 254 : Stream(d, q)'
    BY DEF Streams
  <2>1. CASE d = c
    BY <1>1, <1>7, <1>8, <2>1 DEF Stream
  <2>2. CASE d # c
    BY <1>1, <1>8, <2>2 DEF Streams, Stream
  <2> QED BY <2>1, <2>2
<1>12. Checked'
  <2> SUFFICES ASSUME NEW d \in Conns, ours[d] = "ok" PROVE (Complete(d) /\ Agreed(d))'
    BY <1>1 DEF Checked
  <2>1. Complete(d) /\ Agreed(d) /\ read'[d] = read[d]
    BY <1>1, <1>8 DEF Checked
  <2> QED BY <2>1 DEF Complete, Agreed, Known, HashRead
<1> QED BY <1>9, <1>10, <1>11, <1>12

LEMMA ConnectStep ==
    ASSUME IInv, NEW c \in Conns, Connect(c)
    PROVE  IInv'
<1> DEFINE w == Shake(PstrLen, Wanted[c])
<1>1. /\ c \in Outgoing /\ ours[c] = "waiting"
      /\ ours' = [ours EXCEPT ![c] = "reading"] /\ theirs' = [theirs EXCEPT ![c] = "open"]
      /\ written' = [written EXCEPT ![c] = w] /\ UNCHANGED << wire, read, named >>
  BY DEF Connect
<1>2. w \in Seq(Bytes)
  BY <1>1, Sizes, HashRange, ShakeBytes
<1> HIDE DEF w
<1>3. theirs[c] = "idle"
  BY <1>1 DEF IInv, Unasked
<1>4. /\ theirs' \in [Conns -> Theirs] /\ theirs'[c] = "open"
      /\ \A d \in Conns : d # c => theirs'[d] = theirs[d]
  BY <1>1 DEF IInv, TypeOK, Theirs
<1>5. "reading" \in Ours /\ w = Shake(PstrLen, Wanted[c])
  BY DEF Ours, w
<1> QED BY <1>1, <1>2, <1>3, <1>4, <1>5, OursStep

LEMMA AnswerStep ==
    ASSUME IInv, NEW c \in Conns, Answer(c)
    PROVE  IInv'
<1> DEFINE w == Shake(PstrLen, named[c])
           s == IF Known(c) THEN "ok" ELSE "unknown"
<1>1. c \in Incoming /\ ours[c] = "reading" /\ Complete(c) /\ c \notin Outgoing
  BY OneWay DEF Answer
<1>2. PICK p \in 0 .. 254 : Stream(c, p)
  BY DEF IInv, Streams
<1>3. named[c] # Zero
  BY <1>1, CompleteNamed DEF IInv
<1>4. HashRead(c) = Times(named[c], HashLen) /\ named[c] \in 2 .. 254
  BY <1>1, <1>2, <1>3, StreamRead, HashRange DEF IInv
<1>5. w \in Seq(Bytes)
  BY <1>4, Sizes, ShakeBytes
<1>6. /\ ours' = [ours EXCEPT ![c] = s] /\ written' = [written EXCEPT ![c] = w]
      /\ UNCHANGED << theirs, wire, read, named >>
  BY <1>4 DEF Answer, Shake
<1>7. s \in Ours /\ s \notin { "idle", "waiting" }
  BY DEF Ours
<1>8. s = "ok" => Complete(c) /\ Agreed(c)
  BY <1>1 DEF Agreed
<1>9. theirs' \in [Conns -> Theirs] /\ theirs' = theirs
  BY <1>6 DEF IInv, TypeOK
<1>10. c \in Incoming /\ s = "ok" => w = Shake(PstrLen, named[c])
  OBVIOUS
<1> HIDE DEF w, s
<1> QED BY <1>1, <1>5, <1>6, <1>7, <1>8, <1>9, <1>10, OursStep

\* A stranger writes on a connection on which it has written nothing.
LEMMA WriteStep ==
    ASSUME IInv, NEW c \in Conns, NEW p \in StrangerPstr, NEW h \in Hashes,
           NEW n \in 0 .. Len(Shake(p, h)) + 1, StrangerWrites(c, p, h, n),
           named[c] = Zero, ours' \in [Conns -> Ours],
           \A d \in Conns : d # c => ours'[d] = ours[d],
           ours'[c] = ours[c] \/ (ours[c] = "idle" /\ ours'[c] = "waiting"),
           ours'[c] # "idle", c \in Outgoing => ours'[c] # "waiting"
    PROVE  IInv'
<1> USE DEF IInv
<1> DEFINE w == SubSeq(Shake(p, h) \o << Msg >>, 1, n)
           s == IF n < Len(Shake(p, h)) THEN "mute" ELSE "said"
<1>1. /\ wire' = [wire EXCEPT ![c] = w] /\ theirs' = [theirs EXCEPT ![c] = s]
      /\ named' = [named EXCEPT ![c] = h] /\ UNCHANGED << read, written >>
  BY DEF StrangerWrites
<1>2. p \in 0 .. 254 /\ h \in 2 .. 254 /\ h # Zero
  BY Sizes, HashRange
<1>3. w \in Seq(Bytes) /\ Carried(<< >>, w, p, h)
  BY <1>2, CarriedPart
<1>4. s \in Theirs /\ s \notin { "idle", "open" }
  BY DEF Theirs
<1> HIDE DEF w, s
<1>5. \A d \in Conns : /\ wire'[d] = IF d = c THEN w ELSE wire[d]
                       /\ theirs'[d] = IF d = c THEN s ELSE theirs[d]
                       /\ named'[d] = IF d = c THEN h ELSE named[d]
  BY <1>1 DEF TypeOK
<1>6. read[c] = << >> /\ ~Complete(c) /\ ours[c] # "ok" /\ ours'[c] # "ok"
  BY DEF TypeOK, Complete, Checked
<1>7. TypeOK'
  <2>1. /\ wire' \in [Conns -> Seq(Bytes)] /\ theirs' \in [Conns -> Theirs]
        /\ named' \in [Conns -> Hashes \cup {Zero}]
    BY <1>1, <1>3, <1>4 DEF TypeOK, Bytes
  <2>2. \A d \in Conns :
          /\ ours'[d] \in { "idle", "waiting" } => read[d] = << >> /\ written[d] = << >>
          /\ named'[d] = Zero => read[d] = << >> /\ wire'[d] = << >>
    BY <1>2, <1>5 DEF TypeOK
  <2> QED BY <1>1, <2>1, <2>2 DEF TypeOK, Bytes
<1>8. Unasked' /\ Unnamed'
  BY <1>4, <1>5 DEF Unasked, Unnamed
<1>9. Streams'
  <2> SUFFICES ASSUME NEW d \in Conns PROVE \E q \in 0 .. 254 : Stream(d, q)'
    BY DEF Streams
  <2>1. CASE d = c
    BY <1>1, <1>2, <1>3, <1>5, <1>6, <2>1 DEF Stream
  <2>2. CASE d # c
    BY <1>1, <1>5, <2>2 DEF Streams, Stream
  <2> QED BY <2>1, <2>2
<1>10. Written'
  <2> SUFFICES ASSUME NEW d \in Conns
               PROVE  /\ d \in Outgoing /\ ours'[d] \in { "reading", "ok" } =>
                            written[d] = Shake(PstrLen, Wanted[d])
                      /\ d \in Incoming /\ ours'[d] = "ok" => written[d] = Shake(PstrLen, named'[d])
    BY <1>1 DEF Written
  <2> QED BY <1>5, <1>6 DEF Written
<1>11. Checked'
  <2> SUFFICES ASSUME NEW d \in Conns, ours'[d] = "ok" PROVE Complete(d) /\ Agreed(d)
    BY <1>1 DEF Checked, Complete, Agreed, Known, HashRead
  <2> QED BY <1>6 DEF Checked
<1> QED BY <1>7, <1>8, <1>9, <1>10, <1>11

LEMMA ComesStep ==
    ASSUME IInv, NEW c \in Conns, Comes(c)
    PROVE  IInv'
<1>1. PICK p \in StrangerPstr, h \in Hashes :
        \E n \in 0 .. Len(Shake(p, h)) + 1 : StrangerConnects(c, p, h, n)
  BY DEF Comes
<1>2. PICK n \in 0 .. Len(Shake(p, h)) + 1 : StrangerConnects(c, p, h, n)
  BY <1>1
<1>3. /\ c \in Incoming /\ ours[c] = "idle" /\ ours' = [ours EXCEPT ![c] = "waiting"]
      /\ StrangerWrites(c, p, h, n)
  BY <1>2 DEF StrangerConnects, Opens
<1>4. named[c] = Zero
  BY <1>3 DEF IInv, Unasked, Unnamed
<1>5. /\ ours' \in [Conns -> Ours] /\ ours'[c] = "waiting"
      /\ \A d \in Conns : d # c => ours'[d] = ours[d]
      /\ c \notin Outgoing
  BY <1>3, OneWay DEF IInv, TypeOK, Ours
<1> QED BY <1>3, <1>4, <1>5, WriteStep

LEMMA RepliesStep ==
    ASSUME IInv, NEW c \in Conns, Replies(c)
    PROVE  IInv'
<1>1. PICK p \in StrangerPstr, h \in Hashes :
        \E n \in 0 .. Len(Shake(p, h)) + 1 : StrangerAnswers(c, p, h, n)
  BY DEF Replies
<1>2. PICK n \in 0 .. Len(Shake(p, h)) + 1 : StrangerAnswers(c, p, h, n)
  BY <1>1
<1>3. theirs[c] = "open" /\ StrangerWrites(c, p, h, n) /\ UNCHANGED ours
  BY <1>2 DEF StrangerAnswers
<1>4. /\ named[c] = Zero /\ ours' \in [Conns -> Ours]
      /\ ours[c] # "idle" /\ (c \in Outgoing => ours[c] # "waiting")
  BY <1>3 DEF IInv, TypeOK, Unnamed, Unasked
<1> QED BY <1>3, <1>4, WriteStep

LEMMA StepIInv == IInv /\ [Next]_vars => IInv'
<1> SUFFICES ASSUME IInv, [Next]_vars PROVE IInv'
  OBVIOUS
<1>1. CASE UNCHANGED vars
  BY <1>1 DEF vars, IInv, TypeOK, Unasked, Unnamed, Streams, Stream, Written, Checked,
              Complete, Agreed, Known, HashRead
<1>2. ASSUME NEW c \in Conns, Request(c) PROVE IInv'
  <2>1. c \in Outgoing /\ ours[c] = "idle" /\ "waiting" \in Ours
    BY <1>2 DEF Request, Opens, Ours
  <2> QED BY <1>2, <2>1, QuietStep DEF Request, IInv, TypeOK
<1>3. ASSUME NEW c \in Conns, Connect(c) PROVE IInv'
  BY <1>3, ConnectStep
<1>4. ASSUME NEW c \in Conns, Validate(c) PROVE IInv'
  <2> DEFINE s == IF HashRead(c) = Times(Wanted[c], HashLen) THEN "ok" ELSE "failed"
  <2>1. /\ c \in Outgoing /\ ours[c] = "reading" /\ Complete(c)
        /\ ours' = [ours EXCEPT ![c] = s] /\ UNCHANGED << theirs, wire, read, written, named >>
    BY <1>4 DEF Validate
  <2>2. s \in Ours /\ s \in { "ok", "failed" } /\ (s = "ok" => Agreed(c))
    BY <2>1 DEF Ours, Agreed
  <2> HIDE DEF s
  <2> QED BY <2>1, <2>2, QuietStep
<1>5. ASSUME NEW c \in Conns, Accept(c) PROVE IInv'
  <2>1. c \notin Outgoing /\ "reading" \in Ours
    BY <1>5, OneWay DEF Accept, Ours
  <2> QED BY <1>5, <2>1, QuietStep DEF Accept
<1>6. ASSUME NEW c \in Conns, Answer(c) PROVE IInv'
  BY <1>6, AnswerStep
<1>7. ASSUME NEW c \in Conns, AnswerFails(c) \/ ReadEnds(c) \/ TimesOut(c) PROVE IInv'
  BY <1>7, FailStep DEF AnswerFails, ReadEnds, TimesOut
<1>8. ASSUME NEW c \in Conns, NEW k \in 1 .. Len(wire[c]), Read(c, k) PROVE IInv'
  BY <1>8, ReadStep
<1>9. ASSUME NEW c \in Conns, Comes(c) \/ Replies(c) PROVE IInv'
  BY <1>9, ComesStep, RepliesStep
<1>10. ASSUME NEW c \in Conns, StrangerCloses(c) PROVE IInv'
  <2>1. /\ theirs[c] \in { "open", "mute", "said" } /\ theirs' = [theirs EXCEPT ![c] = "closed"]
        /\ UNCHANGED << ours, wire, read, written, named >>
    BY <1>10 DEF StrangerCloses
  <2>2. TypeOK' /\ Unasked' /\ Unnamed'
    BY <2>1 DEF IInv, TypeOK, Unasked, Unnamed, Theirs
  <2>3. Streams' /\ Written'
    BY <2>1 DEF IInv, Streams, Stream, Written
  <2>4. Checked'
    BY <2>1 DEF IInv, Checked, Complete, Agreed, Known, HashRead
  <2> QED BY <2>2, <2>3, <2>4 DEF IInv
<1> QED BY <1>1, <1>2, <1>3, <1>4, <1>5, <1>6, <1>7, <1>8, <1>9, <1>10 DEF Next, Go

LEMMA Inductive == Spec => []IInv
BY InitIInv, StepIInv, PTL DEF Spec

-----------------------------------------------------------------------------
(***************************************************************************)
(* Theorems                                                                *)
(***************************************************************************)

\* The type of every variable, and that nothing is read or written before its time.
THEOREM HandshakeTyped == Spec => []TypeOK
<1>1. IInv => TypeOK
  BY DEF IInv
<1> QED BY <1>1, Inductive, PTL

\* handshake_outgoing and handshake_incoming leave the stream at the first byte of the
\* first message.
THEOREM MessagesFollow == Spec => []MessagesComeNext
<1>1. IInv => MessagesComeNext
  <2> SUFFICES ASSUME IInv, NEW c \in Conns, ours[c] = "ok"
               PROVE  ~MsgIn(read[c]) /\ \A k \in 1 .. Len(wire[c]) : wire[c][k] = Msg
    BY DEF MessagesComeNext
  <2>1. Complete(c) /\ named[c] # Zero
    BY CompleteNamed DEF IInv, Checked
  <2>2. PICK p \in 0 .. 254 : Stream(c, p)
    BY DEF IInv, Streams
  <2> QED BY <2>1, <2>2, StreamRead DEF IInv
<1> QED BY <1>1, Inductive, PTL

LEMMA TimesEqual ==
    ASSUME NEW g, NEW h, Times(g, HashLen) = Times(h, HashLen)
    PROVE  g = h
<1>1. 1 \in 1 .. HashLen
  BY Sizes
<1>2. Times(g, HashLen)[1] = g /\ Times(h, HashLen)[1] = h
  BY <1>1 DEF Times
<1> QED BY <1>2

\* A connection is taken up only for the torrent the stranger named, and the stranger was
\* written a handshake that names it.
THEOREM TakenUpForItsTorrent == Spec => []SameTorrent
<1>1. IInv => SameTorrent
  <2> SUFFICES ASSUME IInv, NEW c \in Conns, ours[c] = "ok"
               PROVE  /\ named[c] \in Held /\ (c \in Outgoing => named[c] = Wanted[c])
                      /\ written[c] = Shake(PstrLen, named[c])
    BY DEF SameTorrent
  <2>1. Complete(c) /\ Agreed(c) /\ named[c] # Zero
    BY CompleteNamed DEF IInv, Checked
  <2>2. PICK p \in 0 .. 254 : Stream(c, p)
    BY DEF IInv, Streams
  <2>3. HashRead(c) = Times(named[c], HashLen)
    BY <2>1, <2>2, StreamRead DEF IInv
  <2>4. CASE c \in Outgoing
    <3>1. named[c] = Wanted[c] /\ Wanted[c] \in Held
      BY <2>1, <2>3, <2>4, TimesEqual, HashRange DEF Agreed
    <3> QED BY <2>4, <3>1 DEF IInv, Written
  <2>5. CASE c \notin Outgoing
    <3>1. named[c] \in Held
      BY <2>1, <2>3, <2>5, TimesEqual DEF Agreed, Known
    <3>2. c \in Incoming
      BY <2>5, OneWay
    <3> QED BY <2>5, <3>1, <3>2 DEF IInv, Written
  <2> QED BY <2>4, <2>5
<1> QED BY <1>1, Inductive, PTL
=============================================================================
