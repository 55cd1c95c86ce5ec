--------------------------- MODULE StorageProofs ---------------------------
(***************************************************************************)
(* Theorems about Storage, for any files, any length of the pieces and the    *)
(* blocks, and any content.                                                 *)
(***************************************************************************)
EXTENDS Storage, NatSets, TLAPS

-----------------------------------------------------------------------------
(***************************************************************************)
(* The layout: where pieces and blocks lie.                                  *)
(***************************************************************************)
LEMMA TimesMonotonic ==
    ASSUME NEW a \in Nat, NEW b \in Nat, NEW d \in Nat, a <= b
    PROVE  a * d \in Nat /\ b * d \in Nat /\ a * d <= b * d
BY SMT

LEMMA NextMultiple ==
    ASSUME NEW a \in Nat, NEW d \in Nat
    PROVE  (a + 1) * d = a * d + d
BY SMT

LEMMA LengthNat == Length \in Nat /\ Length > 0 /\ Places = 0 .. Length - 1
<1>1. Length \in Nat
  BY FileAssumption DEF Length
<1>2. PieceLength * (NumPieces - 1) \in Nat
  BY PieceAssumption, SMT
<1>3. Length > 0
  BY <1>1, <1>2, PieceAssumption, SMT
<1> QED BY <1>1, <1>3 DEF Places

LEMMA PieceLayout ==
    ASSUME NEW i \in Pieces
    PROVE  /\ PieceOffset(i) \in Nat /\ PieceLen(i) \in Nat \ {0}
           /\ PieceOffset(i) + PieceLen(i) <= Length
           /\ PieceLen(i) <= PieceLength
<1> USE LengthNat
<1>1. i \in Nat /\ i <= NumPieces - 1 /\ NumPieces - 1 \in Nat /\ PieceLength \in Nat \ {0}
  BY PieceAssumption, SMT DEF Pieces
<1> DEFINE last == (NumPieces - 1) * PieceLength
<1>2. i * PieceLength \in Nat /\ last \in Nat
  BY <1>1, SMT
<1>3. last < Length /\ Length <= last + PieceLength
  <2>1. last = PieceLength * (NumPieces - 1)
    BY <1>1, SMT
  <2>2. PieceLength * NumPieces = last + PieceLength
    BY <1>1, PieceAssumption, SMT
  <2> QED BY <2>1, <2>2, PieceAssumption
<1>4. CASE i = NumPieces - 1
  <2>1. PieceOffset(i) = last /\ PieceLen(i) = Length - last
    BY <1>1, <1>4, SMT DEF PieceOffset, PieceLen
  <2> HIDE DEF last
  <2> QED BY <1>1, <1>2, <1>3, <2>1, SMT
<1>5. CASE i # NumPieces - 1
  <2>1. PieceOffset(i) = i * PieceLength /\ PieceLen(i) = PieceLength
    BY <1>5 DEF PieceOffset, PieceLen
  <2>2. i + 1 \in Nat /\ i + 1 <= NumPieces - 1
    BY <1>1, <1>5, SMT
  <2>3. i * PieceLength + PieceLength <= last
    BY <1>1, <2>2, TimesMonotonic, NextMultiple
  <2> HIDE DEF last
  <2> QED BY <1>1, <1>2, <1>3, <2>1, <2>3, SMT
<1> QED BY <1>4, <1>5

\* The block numbers of a piece are those of which the first byte lies in it.
LEMMA BlockStarts ==
    ASSUME NEW i \in Pieces, NEW b \in Nat, << i, b >> \in BlocksOf(i)
    PROVE  BlockOffset(b) \in Nat /\ BlockOffset(b) < PieceLen(i)
<1> DEFINE n == PieceLen(i) + BlockSize - 1
           q == n \div BlockSize
<1>1. BlockSize \in Nat \ {0} /\ n \in Nat
  BY PieceLayout, PieceAssumption, SMT
<1>2. q \in Nat /\ q * BlockSize <= n
  <2> HIDE DEF n
  <2> QED BY <1>1, SMT
<1>3. b + 1 <= q
  BY <1>2, SMT DEF BlocksOf, NumBlocks
<1> HIDE DEF q
<1>4. (b + 1) * BlockSize <= q * BlockSize /\ (b + 1) * BlockSize = b * BlockSize + BlockSize
  BY <1>1, <1>2, <1>3, TimesMonotonic, NextMultiple
<1>5. b * BlockSize \in Nat /\ q * BlockSize \in Nat
  BY <1>1, <1>2, SMT
<1> QED BY <1>1, <1>2, <1>4, <1>5, PieceLayout, SMT DEF BlockOffset

LEMMA BlockLayout ==
    ASSUME NEW i \in Pieces, NEW b \in Nat, << i, b >> \in BlocksOf(i)
    PROVE  /\ PieceOffset(i) + BlockOffset(b) \in Nat /\ BlockLen(i, b) \in Nat \ {0}
           /\ PieceOffset(i) + BlockOffset(b) + BlockLen(i, b) <= Length
           /\ BlockLen(i, b) <= BlockSize
<1>1. /\ PieceOffset(i) \in Nat /\ PieceLen(i) \in Nat /\ BlockOffset(b) \in Nat
      /\ PieceOffset(i) + PieceLen(i) <= Length /\ BlockOffset(b) < PieceLen(i)
  BY PieceLayout, BlockStarts
<1> QED BY <1>1, LengthNat, PieceAssumption, SMT DEF BlockLen, AtMost

LEMMA BlockNumbers ==
    ASSUME NEW i \in Pieces, NEW b
    PROVE  /\ << i, b >> \in BlocksOf(i) <=> b \in 0 .. NumBlocks(i) - 1
           /\ << i, b >> \in BlocksOf(i) => b \in Nat
<1>1. << i, b >> \in BlocksOf(i) <=> b \in 0 .. NumBlocks(i) - 1
  BY DEF BlocksOf
<1>2. PieceLen(i) + BlockSize - 1 \in Nat /\ BlockSize \in Nat \ {0}
  BY PieceLayout, PieceAssumption, SMT
<1>3. NumBlocks(i) \in Nat
  BY <1>2, SMT DEF NumBlocks
<1> QED BY <1>1, <1>3, SMT

-----------------------------------------------------------------------------
(***************************************************************************)
(* Types, calls and the loop over the files.                                 *)
(***************************************************************************)
\* What the loop is called with.
CallOK ==
    /\ phase \in { "init", "check" } => offset = PieceOffset(piece) /\ len = PieceLen(piece)
    /\ phase \in { "write", "serve" } =>
         /\ << piece, block >> \in BlocksOf(piece)
         /\ offset = PieceOffset(piece) + BlockOffset(block) /\ len = BlockLen(piece, block)
    /\ phase \in { "off", "idle" } => len = 0

\* What has been done when the loop comes to a file.
Progress ==
    IF FileStart[file] <= offset THEN done = 0
    ELSE done = AtMost(FileStart[file] - offset, len)

LoopInv == TypeOK /\ CallOK /\ (phase \notin { "off", "idle" } => Progress)

LEMMA FileFacts ==
    ASSUME NEW f \in Files
    PROVE  /\ f \in Nat /\ f \in 1 .. NumFiles + 1 /\ f + 1 \in 1 .. NumFiles + 1
           /\ FileLength[f] \in Nat /\ FileStart[f] \in Nat /\ FileStart[f + 1] \in Nat
           /\ FileStart[f + 1] = FileStart[f] + FileLength[f]
           /\ NextFileStart(f) = FileStart[f + 1]
           /\ FileStart[f + 1] <= Length
<1>1. f \in Nat /\ f \in 1 .. NumFiles + 1 /\ f + 1 \in 1 .. NumFiles + 1 /\ f + 1 <= NumFiles + 1
  BY FileAssumption, SMT DEF Files
<1>2. NumFiles + 1 \in 1 .. NumFiles + 1
  BY FileAssumption, SMT
<1> QED BY <1>1, <1>2, FileAssumption DEF NextFileStart, Length

\* Where a step of the loop works, and that it leaves the loop in order.
LEMMA LoopStep ==
    ASSUME LoopInv, Looping
    PROVE  /\ file \in Files
           /\ NextFileStart(file) <= offset =>
                (FileStart[file + 1] <= offset /\ done = 0)
           /\ NextFileStart(file) > offset =>
                /\ FileOffset \in Nat /\ FileOffset <= FileLength[file]
                /\ FileStart[file] + FileOffset = offset + done
                /\ InThisFile \in Nat /\ InThisFile <= len - done
                /\ FileOffset + InThisFile <= FileLength[file]
                /\ done + InThisFile = AtMost(FileStart[file + 1] - offset, len)
<1>1. /\ file \in 1 .. NumFiles + 1 /\ FileStart[file] \in Nat /\ Length \in Nat
      /\ offset \in Nat /\ len \in Nat /\ done \in Nat /\ done < len /\ offset + len <= Length
  BY LengthNat, FileAssumption DEF LoopInv, TypeOK, Looping
<1>2. Progress
  BY DEF LoopInv, Looping, Reading
<1>3. file \in Files
  <2>1. file # NumFiles + 1
    BY <1>1, <1>2, SMT DEF Progress, AtMost, Length
  <2> QED BY <1>1, <2>1, FileAssumption, SMT DEF Files
<1>4. /\ FileLength[file] \in Nat /\ FileStart[file + 1] = FileStart[file] + FileLength[file]
      /\ NextFileStart(file) = FileStart[file + 1]
  BY <1>3, FileFacts
<1>5. ASSUME NextFileStart(file) <= offset
      PROVE  FileStart[file + 1] <= offset /\ done = 0
  BY <1>1, <1>2, <1>4, <1>5, SMT DEF Progress
<1>6. ASSUME NextFileStart(file) > offset
      PROVE  /\ FileOffset \in Nat /\ FileOffset <= FileLength[file]
             /\ FileStart[file] + FileOffset = offset + done
             /\ InThisFile \in Nat /\ InThisFile <= len - done
             /\ FileOffset + InThisFile <= FileLength[file]
             /\ done + InThisFile = AtMost(FileStart[file + 1] - offset, len)
  <2>1. CASE FileStart[file] <= offset
    <3>1. FileOffset = offset - FileStart[file] /\ done = 0
      BY <1>2, <2>1 DEF FileOffset, Progress
    <3> QED BY <1>1, <1>4, <1>6, <2>1, <3>1, SMT DEF InThisFile, AtMost
  <2>2. CASE ~(FileStart[file] <= offset)
    <3>1. FileOffset = 0 /\ done = FileStart[file] - offset
      BY <1>1, <1>2, <2>2, SMT DEF FileOffset, Progress, AtMost
    <3> QED BY <1>1, <1>4, <1>6, <2>2, <3>1, SMT DEF InThisFile, AtMost
  <2> QED BY <2>1, <2>2
<1> QED BY <1>3, <1>5, <1>6

LEMMA InitLoop == Init => LoopInv
<1> SUFFICES ASSUME Init PROVE LoopInv
  OBVIOUS
<1>1. TypeOK
  <2>1. 0 \in Pieces /\ 1 \in 1 .. NumFiles + 1
    BY PieceAssumption, FileAssumption, SMT DEF Pieces
  <2>2. \A f \in Files : FileLength[f] \in Nat
    BY FileAssumption
  <2> QED BY <2>1, <2>2, DataAssumption, LengthNat, SMT DEF Init, TypeOK, Phases, NoData
<1> QED BY <1>1 DEF Init, LoopInv, CallOK

\* The first step of a call.
LEMMA CallStarts ==
    ASSUME LoopInv, NEW what \in Phases, NEW from \in Nat, NEW n \in Nat \ {0},
           from + n <= Length,
           NEW bytes \in [0 .. n - 1 -> Byte], Call(what, from, n, bytes)
    PROVE  /\ phase' = what /\ offset' = from /\ len' = n /\ done' \in 0 .. len'
           /\ offset' + len' <= Length /\ file' \in 1 .. NumFiles + 1
           /\ data' \in [0 .. len' - 1 -> Byte]
           /\ Progress'
BY FileAssumption, SMT DEF Call, Progress

LEMMA CallEnds ==
    ASSUME NoCall
    PROVE  /\ offset' = 0 /\ len' = 0 /\ done' \in 0 .. len'
           /\ offset' + len' <= Length /\ file' \in 1 .. NumFiles + 1
           /\ data' \in [0 .. len' - 1 -> Byte]
BY FileAssumption, LengthNat, SMT DEF NoCall, NoData

LEMMA ReadStarts ==
    ASSUME LoopInv, NEW what \in { "init", "check" }, NEW i \in Pieces, ReadPiece(what, i)
    PROVE  /\ phase' = what /\ offset' = PieceOffset(i) /\ len' = PieceLen(i)
           /\ done' = 0 /\ offset' \in Nat /\ len' \in Nat /\ done' \in 0 .. len'
           /\ offset' + len' <= Length /\ file' \in 1 .. NumFiles + 1
           /\ data' \in [0 .. len' - 1 -> Byte]
           /\ Progress'
<1> DEFINE zeros == [k \in 0 .. PieceLen(i) - 1 |-> 0]
<1>1. /\ PieceOffset(i) \in Nat /\ PieceLen(i) \in Nat \ {0}
      /\ PieceOffset(i) + PieceLen(i) <= Length
  BY PieceLayout
<1>2. zeros \in [0 .. PieceLen(i) - 1 -> Byte]
  BY DataAssumption
<1>3. Call(what, PieceOffset(i), PieceLen(i), zeros) /\ done' = 0 /\ what \in Phases
  BY DEF ReadPiece, Call, Phases
<1> HIDE DEF zeros
<1> QED BY <1>1, <1>2, <1>3, CallStarts

LEMMA SkipLoop == ASSUME LoopInv, SkipFile PROVE LoopInv'
<1>1. /\ file \in Files /\ FileStart[file + 1] <= offset /\ done = 0 /\ done < len
      /\ phase \notin { "off", "idle" }
  BY LoopStep DEF SkipFile, Looping, Reading
<1>2. file + 1 \in 1 .. NumFiles + 1
  BY <1>1, FileFacts
<1>3. TypeOK'
  BY <1>2, SMT DEF SkipFile, diskVars, pieceVars, LoopInv, TypeOK
<1>4. CallOK' /\ Progress'
  BY <1>1, SMT DEF SkipFile, LoopInv, CallOK, Progress
<1> QED BY <1>3, <1>4 DEF LoopInv

LEMMA ReadLoop == ASSUME LoopInv, ReadFromFile PROVE LoopInv'
<1>1. /\ file \in Files /\ NextFileStart(file) > offset /\ done < len /\ Reading /\ Looping
  BY DEF ReadFromFile, Looping
<1>2. /\ FileOffset \in Nat /\ FileStart[file] + FileOffset = offset + done
      /\ InThisFile \in Nat /\ InThisFile <= len - done
      /\ FileOffset + InThisFile <= FileLength[file]
      /\ done + InThisFile = AtMost(FileStart[file + 1] - offset, len)
  BY <1>1, LoopStep
<1>3. file + 1 \in 1 .. NumFiles + 1 /\ NextFileStart(file) = FileStart[file + 1]
  BY <1>1, FileFacts
<1>4. data' \in [0 .. len' - 1 -> Byte]
  <2>1. ASSUME NEW k \in 0 .. len - 1, k \in done .. done + InThisFile - 1
        PROVE  on_disk[file][FileOffset + k - done] \in Byte
    <3>1. done \in Nat /\ FileLength[file] \in Nat
      BY <1>1, FileFacts DEF LoopInv, TypeOK
    <3>2. FileOffset + k - done \in 0 .. FileLength[file] - 1
      BY <1>2, <2>1, <3>1, SMT
    <3> QED BY <1>1, <3>2 DEF LoopInv, TypeOK
  <2>2. data \in [0 .. len - 1 -> Byte]
    BY DEF LoopInv, TypeOK
  <2> QED BY <2>1, <2>2, DataAssumption DEF ReadFromFile
<1>5. done' \in 0 .. len'
  BY <1>2, SMT DEF ReadFromFile, LoopInv, TypeOK
<1>6. TypeOK'
  BY <1>3, <1>4, <1>5, SMT DEF ReadFromFile, diskVars, pieceVars, LoopInv, TypeOK
<1>7. CallOK' /\ Progress'
  <2>1. CallOK'
    BY DEF ReadFromFile, LoopInv, CallOK
  <2>2. /\ FileStart[file'] = FileStart[file + 1] /\ FileStart[file + 1] > offset
        /\ offset' = offset /\ len' = len /\ done' = done + InThisFile
    BY <1>1, <1>3 DEF ReadFromFile
  <2>3. FileStart[file + 1] \in Nat /\ offset \in Nat
    BY <1>1, FileFacts DEF LoopInv, TypeOK
  <2>4. ~(FileStart[file'] <= offset')
    BY <2>2, <2>3, SMT
  <2>5. Progress'
    BY <1>2, <2>2, <2>4 DEF Progress
  <2> QED BY <2>1, <2>5
<1> QED BY <1>6, <1>7 DEF LoopInv

LEMMA WriteTypes ==
    ASSUME LoopInv, WriteToFile
    PROVE  /\ file_size' \in [Files -> Nat] /\ \A f \in Files : file_size'[f] <= FileLength[f]
           /\ DOMAIN on_disk' = Files
           /\ \A f \in Files : on_disk'[f] \in [0 .. FileLength[f] - 1 -> Byte]
<1>1. /\ file \in Files /\ NextFileStart(file) > offset /\ Looping
  BY DEF WriteToFile
<1> DEFINE n == InThisFile
<1>2. /\ FileOffset \in Nat /\ n \in Nat /\ n <= len - done
      /\ FileOffset + n <= FileLength[file]
  BY <1>1, LoopStep
<1>3. WriteBytes(n)
  BY DEF WriteToFile
<1> HIDE DEF n
<1>4. file_size[file] \in Nat /\ file_size[file] <= FileLength[file] /\ FileLength[file] \in Nat
  BY <1>1, FileFacts DEF LoopInv, TypeOK
<1>5. /\ file_size' \in [Files -> Nat] /\ \A f \in Files : file_size'[f] <= FileLength[f]
  BY <1>1, <1>2, <1>3, <1>4, SMT DEF WriteBytes, LoopInv, TypeOK
<1> DEFINE new == [k \in 0 .. FileLength[file] - 1 |->
                     IF k \in FileOffset .. FileOffset + n - 1 THEN data[done + k - FileOffset]
                     ELSE IF k < file_size[file] THEN on_disk[file][k] ELSE 0]
<1>6. new \in [0 .. FileLength[file] - 1 -> Byte]
  <2>1. ASSUME NEW k \in FileOffset .. FileOffset + n - 1 PROVE data[done + k - FileOffset] \in Byte
    <3>1. done + k - FileOffset \in 0 .. len - 1
      BY <1>2, <2>1, SMT DEF LoopInv, TypeOK
    <3> QED BY <3>1 DEF LoopInv, TypeOK
  <2>2. \A k \in 0 .. FileLength[file] - 1 : on_disk[file][k] \in Byte
    BY <1>1 DEF LoopInv, TypeOK
  <2> QED BY <2>1, <2>2, DataAssumption
<1>7. on_disk' = [on_disk EXCEPT ![file] = new]
  BY <1>3 DEF WriteBytes
<1>8. \A f \in Files : on_disk'[f] \in [0 .. FileLength[f] - 1 -> Byte]
  <2> HIDE DEF new
  <2> QED BY <1>1, <1>6, <1>7 DEF LoopInv, TypeOK
<1>9. DOMAIN on_disk' = Files
  <2> HIDE DEF new
  <2> QED BY <1>7 DEF LoopInv, TypeOK
<1> QED BY <1>5, <1>8, <1>9

LEMMA WriteLoop == ASSUME LoopInv, WriteToFile PROVE LoopInv'
<1>1. /\ file \in Files /\ NextFileStart(file) > offset /\ Looping /\ done < len
  BY DEF WriteToFile, Looping
<1>2. /\ InThisFile \in Nat /\ InThisFile <= len - done
      /\ done + InThisFile = AtMost(FileStart[file + 1] - offset, len)
  BY <1>1, LoopStep
<1>3. file + 1 \in 1 .. NumFiles + 1 /\ NextFileStart(file) = FileStart[file + 1]
  BY <1>1, FileFacts
<1>4. done' \in 0 .. len'
  BY <1>2, SMT DEF WriteToFile, LoopInv, TypeOK
<1>5. TypeOK'
  BY <1>3, <1>4, WriteTypes, SMT DEF WriteToFile, pieceVars, LoopInv, TypeOK
<1>6. CallOK' /\ Progress'
  <2>1. CallOK'
    BY DEF WriteToFile, LoopInv, CallOK
  <2>2. /\ FileStart[file'] = FileStart[file + 1] /\ FileStart[file + 1] > offset
        /\ offset' = offset /\ len' = len /\ done' = done + InThisFile
    BY <1>1, <1>3 DEF WriteToFile
  <2>3. FileStart[file + 1] \in Nat /\ offset \in Nat
    BY <1>1, FileFacts DEF LoopInv, TypeOK
  <2>4. ~(FileStart[file'] <= offset')
    BY <2>2, <2>3, SMT
  <2>5. Progress'
    BY <1>2, <2>2, <2>4 DEF Progress
  <2> QED BY <2>1, <2>5
<1> QED BY <1>5, <1>6 DEF LoopInv

LEMMA StartLoop == ASSUME LoopInv, Start PROVE LoopInv'
<1>1. 0 \in Pieces
  BY PieceAssumption, SMT DEF Pieces
<1>2. /\ phase' = "init" /\ offset' = PieceOffset(0) /\ len' = PieceLen(0)
      /\ offset' \in Nat /\ len' \in Nat /\ done' \in 0 .. len'
      /\ offset' + len' <= Length /\ file' \in 1 .. NumFiles + 1
      /\ data' \in [0 .. len' - 1 -> Byte] /\ Progress'
  BY <1>1, ReadStarts DEF Start
<1>3. TypeOK'
  BY <1>1, <1>2, SMT DEF Start, diskVars, pieceVars, LoopInv, TypeOK, Phases
<1> QED BY <1>2, <1>3 DEF LoopInv, CallOK, Start

LEMMA InitPieceLoop == ASSUME LoopInv, InitPiece PROVE LoopInv'
<1>1. piece \in Pieces
  BY DEF LoopInv, TypeOK
<1>2. /\ piece_downloaded' \subseteq Pieces
      /\ block_downloaded' \subseteq UNION { BlocksOf(i) : i \in Pieces }
  <2>1. BlocksOf(piece) \subseteq UNION { BlocksOf(i) : i \in Pieces }
    BY <1>1
  <2> QED BY <1>1, <2>1 DEF InitPiece, LoopInv, TypeOK, pieceVars
<1>3. CASE piece + 1 \in Pieces
  <2>1. piece' = piece + 1 /\ ReadPiece("init", piece + 1)
    BY <1>3 DEF InitPiece
  <2>2. /\ phase' = "init" /\ offset' = PieceOffset(piece') /\ len' = PieceLen(piece')
        /\ offset' \in Nat /\ len' \in Nat /\ done' \in 0 .. len'
        /\ offset' + len' <= Length /\ file' \in 1 .. NumFiles + 1
        /\ data' \in [0 .. len' - 1 -> Byte] /\ Progress'
    BY <1>3, <2>1, ReadStarts
  <2>3. TypeOK'
    BY <1>2, <1>3, <2>1, <2>2, SMT DEF InitPiece, diskVars, LoopInv, TypeOK, Phases
  <2> QED BY <2>2, <2>3 DEF LoopInv, CallOK
<1>4. CASE piece + 1 \notin Pieces
  <2>1. piece' = 0 /\ NoCall /\ phase' = "idle" /\ 0 \in Pieces
    BY <1>4, PieceAssumption, SMT DEF InitPiece, Pieces
  <2>2. TypeOK'
    BY <1>2, <2>1, CallEnds, SMT DEF InitPiece, diskVars, LoopInv, TypeOK, Phases
  <2> QED BY <2>1, <2>2, CallEnds DEF LoopInv, CallOK
<1> QED BY <1>3, <1>4

LEMMA SliceType ==
    ASSUME NEW bytes \in [Places -> Byte], NEW from \in Nat, NEW n \in Nat, from + n <= Length
    PROVE  Slice(bytes, from, n) \in [0 .. n - 1 -> Byte]
<1>1. \A k \in 0 .. n - 1 : from + k \in Places
  BY LengthNat, SMT
<1> QED BY <1>1 DEF Slice

LEMMA BlockCallLoop ==
    ASSUME LoopInv, NEW i \in Pieces, NEW b \in 0 .. NumBlocks(i) - 1, NEW bytes \in [Places -> Byte],
           OnPiece(i, b, bytes) \/ SendBlock(i, b)
    PROVE  LoopInv'
<1> DEFINE from == PieceOffset(i) + BlockOffset(b)
           n    == BlockLen(i, b)
<1>1. << i, b >> \in BlocksOf(i) /\ b \in Nat
  BY BlockNumbers
<1>2. from \in Nat /\ n \in Nat \ {0} /\ from + n <= Length
  BY <1>1, BlockLayout
<1> HIDE DEF from, n
<1>3. PICK what \in { "write", "serve" }, d \in [0 .. n - 1 -> Byte] : Call(what, from, n, d)
  <2>1. Slice(bytes, from, n) \in [0 .. n - 1 -> Byte]
    BY <1>2, SliceType
  <2>2. [k \in 0 .. n - 1 |-> 0] \in [0 .. n - 1 -> Byte]
    BY DataAssumption
  <2> QED BY <2>1, <2>2 DEF OnPiece, SendBlock, from, n
<1>4. /\ phase' = what /\ offset' = from /\ len' = n /\ done' \in 0 .. len'
      /\ offset' + len' <= Length /\ file' \in 1 .. NumFiles + 1
      /\ data' \in [0 .. len' - 1 -> Byte] /\ Progress'
  BY <1>2, <1>3, CallStarts DEF Phases
<1>5. piece' = i /\ block' = b /\ UNCHANGED << diskVars, pieceVars >>
  BY DEF OnPiece, SendBlock
<1>6. TypeOK'
  BY <1>1, <1>2, <1>3, <1>4, <1>5, SMT DEF diskVars, pieceVars, LoopInv, TypeOK, Phases
<1>7. CallOK'
  BY <1>1, <1>3, <1>4, <1>5 DEF CallOK, from, n
<1> QED BY <1>4, <1>6, <1>7 DEF LoopInv

LEMMA SetBlockLoop == ASSUME LoopInv, SetBlockDownloaded PROVE LoopInv'
<1>1. piece \in Pieces /\ << piece, block >> \in BlocksOf(piece)
  BY DEF SetBlockDownloaded, LoopInv, TypeOK, CallOK
<1>2. /\ piece_downloaded' \subseteq Pieces
      /\ block_downloaded' \subseteq UNION { BlocksOf(i) : i \in Pieces }
  <2>1. << piece, block >> \in UNION { BlocksOf(i) : i \in Pieces }
    BY <1>1
  <2>2. block_downloaded' = block_downloaded \cup { << piece, block >> }
    BY DEF SetBlockDownloaded
  <2>3. piece_downloaded' \subseteq Pieces
    BY <1>1 DEF SetBlockDownloaded, LoopInv, TypeOK
  <2> QED BY <2>1, <2>2, <2>3 DEF LoopInv, TypeOK
<1>3. CASE BlocksOf(piece) \subseteq block_downloaded'
  <2>1. ReadPiece("check", piece) /\ UNCHANGED << piece, block >>
    BY <1>3 DEF SetBlockDownloaded
  <2>2. /\ phase' = "check" /\ offset' = PieceOffset(piece') /\ len' = PieceLen(piece')
        /\ offset' \in Nat /\ len' \in Nat /\ done' \in 0 .. len'
        /\ offset' + len' <= Length /\ file' \in 1 .. NumFiles + 1
        /\ data' \in [0 .. len' - 1 -> Byte] /\ Progress'
    BY <1>1, <2>1, ReadStarts
  <2>3. TypeOK'
    BY <1>2, <2>1, <2>2, SMT DEF SetBlockDownloaded, diskVars, LoopInv, TypeOK, Phases
  <2> QED BY <2>2, <2>3 DEF LoopInv, CallOK
<1>4. CASE ~(BlocksOf(piece) \subseteq block_downloaded')
  <2>1. piece' = 0 /\ block' = 0 /\ NoCall /\ phase' = "idle" /\ 0 \in Pieces
    BY <1>4, PieceAssumption, SMT DEF SetBlockDownloaded, Pieces
  <2>2. TypeOK'
    BY <1>2, <2>1, CallEnds, SMT DEF SetBlockDownloaded, diskVars, LoopInv, TypeOK, Phases
  <2> QED BY <2>1, <2>2, CallEnds DEF LoopInv, CallOK
<1> QED BY <1>3, <1>4

LEMMA CallEndsLoop == ASSUME LoopInv, OnPieceDone \/ BlockSent \/ Kill PROVE LoopInv'
<1>1. /\ NoCall /\ piece' = 0 /\ block' = 0 /\ phase' \in { "idle", "off" }
      /\ UNCHANGED diskVars /\ 0 \in Pieces
  BY PieceAssumption, SMT DEF OnPieceDone, BlockSent, Kill, Pieces
<1>2. /\ piece_downloaded' \subseteq Pieces
      /\ block_downloaded' \subseteq UNION { BlocksOf(i) : i \in Pieces }
  BY DEF OnPieceDone, BlockSent, Kill, pieceVars, LoopInv, TypeOK
<1>3. TypeOK'
  BY <1>1, <1>2, CallEnds, SMT DEF diskVars, LoopInv, TypeOK, Phases
<1> QED BY <1>1, <1>3, CallEnds DEF LoopInv, CallOK

LEMMA LoopPreserved == ASSUME LoopInv, [Next]_vars PROVE LoopInv'
<1>1. CASE UNCHANGED vars
  BY <1>1 DEF vars, diskVars, pieceVars, loopVars, LoopInv, TypeOK, CallOK, Progress
<1>2. ASSUME NEW i \in Pieces, NEW b \in 0 .. NumBlocks(i) - 1,
             SendBlock(i, b) \/ \E bytes \in Sent : OnPiece(i, b, bytes)
      PROVE  LoopInv'
  <2>1. Sent \subseteq [Places -> Byte] /\ Content \in [Places -> Byte]
    BY DataAssumption DEF Sent
  <2> QED BY <1>2, <2>1, BlockCallLoop
<1> QED
  BY <1>1, <1>2, StartLoop, InitPieceLoop, SkipLoop, ReadLoop, WriteLoop, SetBlockLoop,
     CallEndsLoop DEF Next

\* All variables keep their types, and no call reaches beyond the torrent.
THEOREM StorageTyped == Spec => []TypeOK
<1>1. LoopInv => TypeOK
  BY DEF LoopInv
<1> QED BY InitLoop, LoopPreserved, <1>1, PTL DEF Spec

\* The loops of get_content and set_content never run out of files, whatever the files
\* are, and never work beyond the end of one.
THEOREM LoopsFit == Spec => []LoopFits
<1>1. LoopInv => LoopFits
  BY LoopStep DEF LoopFits
<1> QED BY InitLoop, LoopPreserved, <1>1, PTL DEF Spec

-----------------------------------------------------------------------------
(***************************************************************************)
(* The array the files make up.                                              *)
(***************************************************************************)
LEMMA FileAtIs ==
    ASSUME NEW f \in Files, NEW k \in Nat, FileStart[f] <= k, k < FileStart[f + 1]
    PROVE  FileAt(k) = f
<1>1. ASSUME NEW g \in Files, FileStart[g] <= k, k < FileStart[g + 1] PROVE g = f
  <2>1. /\ f \in Nat /\ g \in Nat /\ f \in 1 .. NumFiles + 1 /\ g \in 1 .. NumFiles + 1
        /\ f + 1 \in 1 .. NumFiles + 1 /\ g + 1 \in 1 .. NumFiles + 1
        /\ FileStart[f] \in Nat /\ FileStart[f + 1] \in Nat
        /\ FileStart[g] \in Nat /\ FileStart[g + 1] \in Nat
    BY FileFacts
  <2>2. ~(g + 1 <= f)
    <3>1. g + 1 <= f => FileStart[g + 1] <= FileStart[f]
      BY <2>1, FileAssumption
    <3> QED BY <1>1, <2>1, <3>1, SMT
  <2>3. ~(f + 1 <= g)
    <3>1. f + 1 <= g => FileStart[f + 1] <= FileStart[g]
      BY <2>1, FileAssumption
    <3> QED BY <1>1, <2>1, <3>1, SMT
  <2> QED BY <2>1, <2>2, <2>3, SMT
<1> QED BY <1>1 DEF FileAt

\* Every place of the torrent lies in a file.
LEMMA FileAtBounds ==
    ASSUME NEW k \in Places
    PROVE  /\ FileAt(k) \in Files
           /\ FileStart[FileAt(k)] <= k /\ k < FileStart[FileAt(k) + 1]
           /\ k - FileStart[FileAt(k)] \in 0 .. FileLength[FileAt(k)] - 1
<1>1. k \in Nat /\ k < Length
  BY LengthNat
<1>2. \E f \in Files : FileStart[f] <= k /\ k < FileStart[f + 1]
  <2> DEFINE S == { f \in 1 .. NumFiles : FileStart[f] <= k }
  <2>1. 1 \in S
    BY FileAssumption, <1>1, SMT DEF Files
  <2>2. PICK f \in S : \A g \in S : g <= f
    BY <2>1, IntervalHasMax, FileAssumption
  <2>3. f \in Files /\ FileStart[f] <= k
    BY <2>2 DEF Files
  <2>4. k < FileStart[f + 1]
    <3>1. f + 1 \in 1 .. NumFiles + 1 /\ FileStart[f + 1] \in Nat /\ f \in Nat
      BY <2>3, FileFacts
    <3>2. CASE f = NumFiles
      BY <1>1, <3>2 DEF Length
    <3>3. CASE f # NumFiles
      <4>1. f + 1 \in 1 .. NumFiles /\ ~(f + 1 <= f)
        BY <2>3, <3>1, <3>3, FileAssumption, SMT DEF Files
      <4>2. f + 1 \notin S
        BY <2>2, <4>1
      <4> QED BY <1>1, <3>1, <4>1, <4>2, SMT
    <3> QED BY <3>2, <3>3
  <2> QED BY <2>3, <2>4
<1>3. /\ FileAt(k) \in Files
      /\ FileStart[FileAt(k)] <= k /\ k < FileStart[FileAt(k) + 1]
  BY <1>2 DEF FileAt
<1> DEFINE f == FileAt(k)
<1> HIDE DEF f
<1>4. f \in Files /\ FileStart[f] <= k /\ k < FileStart[f + 1]
  BY <1>3 DEF f
<1>5. k - FileStart[f] \in 0 .. FileLength[f] - 1
  BY <1>1, <1>4, FileFacts, SMT
<1> QED BY <1>3, <1>5 DEF f

LEMMA FlatType ==
    ASSUME LoopInv
    PROVE  Flat \in [Places -> Byte]
<1>1. ASSUME NEW k \in Places PROVE FileByte(FileAt(k), k - FileStart[FileAt(k)]) \in Byte
  <2>1. FileAt(k) \in Files /\ k - FileStart[FileAt(k)] \in 0 .. FileLength[FileAt(k)] - 1
    BY FileAtBounds
  <2>2. on_disk[FileAt(k)][k - FileStart[FileAt(k)]] \in Byte
    BY <2>1 DEF LoopInv, TypeOK
  <2> QED BY <2>2, DataAssumption DEF FileByte
<1> QED BY <1>1 DEF Flat

LEMMA FlatAt ==
    ASSUME NEW p \in Places
    PROVE  Flat[p] = FileByte(FileAt(p), p - FileStart[FileAt(p)])
BY DEF Flat

LEMMA FlatIs ==
    ASSUME NEW p \in Places, NEW f, NEW q, FileAt(p) = f, p - FileStart[f] = q
    PROVE  Flat[p] = FileByte(f, q)
<1>1. Flat[p] = FileByte(FileAt(p), p - FileStart[FileAt(p)])
  BY FlatAt
<1> QED BY <1>1

LEMMA FlatSame == ASSUME UNCHANGED diskVars PROVE Flat' = Flat
BY DEF diskVars, Flat, FileByte

\* Where the loop works on a file it works on consecutive places of the array.
LEMMA FlatInFile ==
    ASSUME LoopInv, Looping, NextFileStart(file) > offset,
           NEW k \in Nat, k \in done .. done + InThisFile - 1,
           NEW p, p = offset + k
    PROVE  /\ p \in Places /\ FileAt(p) = file
           /\ p - FileStart[file] = FileOffset + k - done
<1>1. /\ file \in Files /\ FileOffset \in Nat /\ FileStart[file] + FileOffset = offset + done
      /\ InThisFile \in Nat /\ InThisFile <= len - done
      /\ FileOffset + InThisFile <= FileLength[file]
  BY LoopStep
<1>2. /\ FileStart[file] \in Nat /\ FileLength[file] \in Nat
      /\ FileStart[file + 1] = FileStart[file] + FileLength[file]
  BY <1>1, FileFacts
<1>3. offset \in Nat /\ len \in Nat /\ done \in Nat /\ offset + len <= Length
  BY DEF LoopInv, TypeOK
<1>4. p \in Nat /\ FileStart[file] <= p /\ p < FileStart[file + 1]
  BY <1>1, <1>2, <1>3, SMT
<1>5. FileAt(p) = file
  BY <1>1, <1>4, FileAtIs
<1> QED BY <1>1, <1>2, <1>3, <1>5, LengthNat, SMT

LEMMA ReadsStep == ASSUME LoopInv, ReadsFlat, [Next]_vars PROVE ReadsFlat'
<1>1. CASE UNCHANGED vars
  BY <1>1, FlatSame DEF vars, loopVars, ReadsFlat, Reading
<1>2. ASSUME done' = 0 PROVE ReadsFlat'
  BY <1>2, SMT DEF ReadsFlat
<1>3. CASE Start
  BY <1>2, <1>3 DEF Start, ReadPiece, Call
<1>4. CASE InitPiece
  BY <1>2, <1>4 DEF InitPiece, ReadPiece, Call, NoCall
<1>5. CASE SkipFile
  BY <1>5, FlatSame DEF SkipFile, ReadsFlat, Reading
<1>6. CASE ReadFromFile
  <2>1. /\ Flat' = Flat /\ offset' = offset /\ done' = done + InThisFile /\ len' = len
        /\ Reading /\ Looping /\ NextFileStart(file) > offset
    BY <1>6, FlatSame DEF ReadFromFile
  <2>2. InThisFile \in Nat /\ InThisFile <= len - done /\ done \in Nat /\ len \in Nat
    BY <2>1, LoopStep DEF LoopInv, TypeOK
  <2>3. ASSUME NEW k \in 0 .. done' - 1 PROVE data'[k] = Flat[offset + k]
    <3>1. k \in Nat /\ k \in 0 .. len - 1
      BY <2>1, <2>2, SMT
    <3>2. CASE k \in done .. done + InThisFile - 1
      <4> DEFINE p == offset + k
      <4>0. p = offset + k
        OBVIOUS
      <4> HIDE DEF p
      <4>1. p \in Places /\ FileAt(p) = file /\ p - FileStart[file] = FileOffset + k - done
        BY <2>1, <3>1, <3>2, <4>0, FlatInFile
      <4>2. Flat[p] = FileByte(file, FileOffset + k - done)
        BY <4>1, FlatIs
      <4>3. data'[k] = FileByte(file, FileOffset + k - done)
        BY <1>6, <3>1, <3>2 DEF ReadFromFile, FileByte
      <4> QED BY <4>0, <4>2, <4>3
    <3>3. CASE k \notin done .. done + InThisFile - 1
      <4>1. data'[k] = data[k]
        BY <1>6, <3>1, <3>3 DEF ReadFromFile
      <4>2. k \in 0 .. done - 1
        BY <2>1, <2>2, <2>3, <3>1, <3>3, SMT
      <4> QED BY <2>1, <4>1, <4>2 DEF ReadsFlat
    <3> QED BY <3>2, <3>3
  <2> QED BY <2>1, <2>3 DEF ReadsFlat
<1>7. CASE WriteToFile
  BY <1>7 DEF WriteToFile, ReadsFlat, Reading
<1>8. ASSUME NEW i \in Pieces, NEW b \in 0 .. NumBlocks(i) - 1,
             SendBlock(i, b) \/ \E bytes \in Sent : OnPiece(i, b, bytes)
      PROVE  ReadsFlat'
  BY <1>2, <1>8 DEF SendBlock, OnPiece, Call
<1>9. CASE SetBlockDownloaded
  BY <1>2, <1>9 DEF SetBlockDownloaded, ReadPiece, Call, NoCall
<1>10. CASE OnPieceDone \/ BlockSent \/ Kill
  BY <1>2, <1>10 DEF OnPieceDone, BlockSent, Kill, NoCall
<1> QED
  BY <1>1, <1>3, <1>4, <1>5, <1>6, <1>7, <1>8, <1>9, <1>10 DEF Next

\* get_content returns what the array holds.
THEOREM ReadsAreFlat == Spec => []ReadsFlat
<1>1. Init => ReadsFlat
  BY DEF Init, ReadsFlat, Reading
<1>2. LoopInv /\ ReadsFlat /\ [Next]_vars => (LoopInv /\ ReadsFlat)'
  BY LoopPreserved, ReadsStep
<1> QED BY InitLoop, <1>1, <1>2, PTL DEF Spec

-----------------------------------------------------------------------------
(***************************************************************************)
(* Writing: one file of set_content.                                         *)
(***************************************************************************)
LEMMA FlatNext ==
    ASSUME NEW p \in Places, NEW f, NEW q, FileAt(p) = f, p - FileStart[f] = q
    PROVE  Flat'[p] = IF q < file_size'[f] THEN on_disk'[f][q] ELSE 0
BY DEF Flat, FileByte

\* What happens to one byte of the file that is written.
LEMMA WriteByte ==
    ASSUME LoopInv, WriteToFile, NEW q \in 0 .. FileLength[file] - 1
    PROVE  (IF q < file_size'[file] THEN on_disk'[file][q] ELSE 0)
             = IF q \in FileOffset .. FileOffset + InThisFile - 1
                 THEN data[done + q - FileOffset] ELSE FileByte(file, q)
<1>1. file \in Files /\ NextFileStart(file) > offset /\ Looping
  BY DEF WriteToFile
<1> DEFINE n == InThisFile
<1>2. FileOffset \in Nat /\ n \in Nat /\ FileLength[file] \in Nat /\ file_size[file] \in Nat
  BY <1>1, LoopStep, FileFacts DEF LoopInv, TypeOK
<1>3. WriteBytes(n)
  BY DEF WriteToFile
<1> HIDE DEF n
<1>4. on_disk'[file][q] = IF q \in FileOffset .. FileOffset + n - 1
                            THEN data[done + q - FileOffset]
                            ELSE IF q < file_size[file] THEN on_disk[file][q] ELSE 0
  <2> DEFINE new == [k \in 0 .. FileLength[file] - 1 |->
                       IF k \in FileOffset .. FileOffset + n - 1
                         THEN data[done + k - FileOffset]
                         ELSE IF k < file_size[file] THEN on_disk[file][k] ELSE 0]
  <2>1. on_disk' = [on_disk EXCEPT ![file] = new]
    BY <1>3 DEF WriteBytes
  <2>2. file \in DOMAIN on_disk
    BY <1>1 DEF LoopInv, TypeOK
  <2>3. on_disk'[file] = new
    <3> HIDE DEF new
    <3> QED BY <2>1, <2>2
  <2> QED BY <2>3
<1>5. file_size'[file] = IF file_size[file] < FileOffset + n THEN FileOffset + n
                         ELSE file_size[file]
  BY <1>1, <1>3 DEF WriteBytes, LoopInv, TypeOK
<1>6. CASE q \in FileOffset .. FileOffset + n - 1
  <2>1. q < file_size'[file]
    BY <1>2, <1>5, <1>6, SMT
  <2> QED BY <1>4, <1>6, <2>1 DEF n
<1>7. CASE q \notin FileOffset .. FileOffset + n - 1
  <2>1. on_disk'[file][q] = FileByte(file, q)
    BY <1>4, <1>7 DEF FileByte
  <2>2. ~(q < file_size'[file]) => ~(q < file_size[file])
    BY <1>2, <1>5, SMT
  <2> QED BY <1>7, <2>1, <2>2 DEF n, FileByte
<1> QED BY <1>6, <1>7

\* A write to one file is a write to consecutive places of the array.
LEMMA WriteFlat ==
    ASSUME LoopInv, WriteToFile
    PROVE  Flat' = [p \in Places |->
                      IF p \in (offset + done) .. (offset + done + InThisFile - 1)
                        THEN data[p - offset] ELSE Flat[p]]
<1>1. file \in Files /\ NextFileStart(file) > offset /\ Looping
  BY DEF WriteToFile
<1>2. /\ FileOffset \in Nat /\ InThisFile \in Nat
      /\ FileStart[file] + FileOffset = offset + done
      /\ FileOffset + InThisFile <= FileLength[file]
      /\ offset \in Nat /\ done \in Nat /\ FileStart[file] \in Nat /\ FileLength[file] \in Nat
      /\ FileStart[file + 1] = FileStart[file] + FileLength[file]
  BY <1>1, LoopStep, FileFacts DEF LoopInv, TypeOK
<1>3. ASSUME NEW p \in Places
      PROVE  Flat'[p] = IF p \in (offset + done) .. (offset + done + InThisFile - 1)
                          THEN data[p - offset] ELSE Flat[p]
  <2>1. PICK f \in Files : f = FileAt(p)
    BY FileAtBounds
  <2>2. FileStart[f] <= p /\ p < FileStart[f + 1] /\ p - FileStart[f] \in 0 .. FileLength[f] - 1
    BY <2>1, FileAtBounds
  <2>3. p \in Nat /\ FileStart[f] \in Nat
    BY LengthNat, FileFacts
  <2>4. PICK q \in 0 .. FileLength[f] - 1 : q = p - FileStart[f]
    BY <2>2
  <2>5. Flat[p] = FileByte(f, q)
    BY <2>1, <2>4, FlatIs
  <2>6. Flat'[p] = IF q < file_size'[f] THEN on_disk'[f][q] ELSE 0
    BY <2>1, <2>4, FlatNext
  <2>7. CASE f = file
    <3>1. Flat'[p] = IF q \in FileOffset .. FileOffset + InThisFile - 1
                       THEN data[done + q - FileOffset] ELSE Flat[p]
      BY <2>5, <2>6, <2>7, WriteByte
    <3>2. /\ q \in FileOffset .. FileOffset + InThisFile - 1
               <=> p \in (offset + done) .. (offset + done + InThisFile - 1)
          /\ done + q - FileOffset = p - offset
      BY <1>2, <2>3, <2>4, <2>7, SMT
    <3> QED BY <3>1, <3>2
  <2>8. CASE f # file
    <3>1. p \notin (offset + done) .. (offset + done + InThisFile - 1)
      <4>1. ASSUME p \in (offset + done) .. (offset + done + InThisFile - 1)
            PROVE  FALSE
        <5>1. FileStart[file] <= p /\ p < FileStart[file + 1]
          BY <1>2, <2>3, <4>1, SMT
        <5>2. FileAt(p) = file
          BY <1>1, <2>3, <5>1, FileAtIs
        <5> QED BY <2>1, <2>8, <5>2
      <4> QED BY <4>1
    <3>2. WriteBytes(InThisFile)
      BY DEF WriteToFile
    <3>3. file_size'[f] = file_size[f] /\ on_disk'[f] = on_disk[f]
      BY <2>8, <3>2 DEF WriteBytes, LoopInv, TypeOK
    <3>4. Flat'[p] = Flat[p]
      BY <2>5, <2>6, <3>3 DEF FileByte
    <3> QED BY <3>1, <3>4
  <2> QED BY <2>7, <2>8
<1>4. Flat' = [p \in Places |-> Flat'[p]]
  BY DEF Flat
<1> QED BY <1>3, <1>4

-----------------------------------------------------------------------------
(***************************************************************************)
(* The files implement one array.                                           *)
(***************************************************************************)
\* The data of a write are as many as its length.
LEMMA SizeIs ==
    ASSUME LoopInv, phase = "write"
    PROVE  /\ data # NoData /\ len \in 1 .. Length
           /\ (CHOOSE n \in 1 .. Length : DOMAIN data = 0 .. n - 1) = len
<1>1. << piece, block >> \in BlocksOf(piece) /\ piece \in Pieces /\ len = BlockLen(piece, block)
  BY DEF LoopInv, TypeOK, CallOK
<1>2. block \in Nat
  BY <1>1, BlockNumbers
<1>3. len \in Nat \ {0}
  BY <1>1, <1>2, BlockLayout
<1>4. len \in 1 .. Length /\ DOMAIN data = 0 .. len - 1
  BY <1>3, LengthNat, SMT DEF LoopInv, TypeOK
<1>5. ASSUME NEW n \in 1 .. Length, DOMAIN data = 0 .. n - 1 PROVE n = len
  <2>1. n \in Nat /\ n - 1 \in 0 .. n - 1 /\ len - 1 \in 0 .. len - 1
    BY <1>4, <1>5, LengthNat, SMT
  <2>2. n - 1 \in 0 .. len - 1 /\ len - 1 \in 0 .. n - 1
    BY <1>4, <1>5, <2>1
  <2> QED BY <1>3, <2>1, <2>2, SMT
<1>6. data # NoData
  <2>1. 0 \in DOMAIN data
    BY <1>3, <1>4, SMT
  <2> QED BY <2>1 DEF NoData
<1> QED BY <1>4, <1>5, <1>6

ArrayVars == << Flat, phase # "off", IF phase = "write" THEN offset ELSE 0,
                IF phase = "write" THEN data ELSE NoData, IF phase = "write" THEN done ELSE 0 >>

\* A step that neither writes nor starts or ends the process or a write changes nothing of
\* the array.
LEMMA ArrayStutters ==
    ASSUME UNCHANGED diskVars, phase # "write", phase' # "write",
           phase' = "off" <=> phase = "off"
    PROVE  UNCHANGED ArrayVars
BY FlatSame DEF ArrayVars

LEMMA ArrayWrite == ASSUME LoopInv, WriteToFile PROVE Array!Next \/ UNCHANGED ArrayVars
<1>1. phase = "write" /\ Looping /\ NextFileStart(file) > offset /\ file \in Files
  BY DEF WriteToFile
<1>2. InThisFile \in Nat /\ InThisFile <= len - done /\ done \in Nat /\ len \in Nat /\ offset \in Nat
  BY <1>1, LoopStep DEF LoopInv, TypeOK
<1>3. /\ phase' = "write" /\ offset' = offset /\ data' = data /\ done' = done + InThisFile
  BY <1>1 DEF WriteToFile
<1>4. /\ data # NoData /\ len \in 1 .. Length
      /\ (CHOOSE n \in 1 .. Length : DOMAIN data = 0 .. n - 1) = len
  BY <1>1, SizeIs
<1> DEFINE n == InThisFile
<1>5. Flat' = [p \in Places |-> IF p \in (offset + done) .. (offset + done + n - 1)
                                  THEN data[p - offset] ELSE Flat[p]]
  BY WriteFlat
<1> HIDE DEF n
<1>6. n \in Nat /\ n <= len - done /\ done' = done + n
  BY <1>2, <1>3 DEF n
<1>7. CASE n = 0
  <2>1. \A p \in Places : p \notin (offset + done) .. (offset + done + n - 1)
    BY <1>2, <1>7, SMT
  <2>2. Flat' = [p \in Places |-> Flat[p]]
    BY <1>5, <2>1, Zenon
  <2>3. Flat' = Flat
    BY <2>2 DEF Flat
  <2> QED BY <1>1, <1>2, <1>3, <1>6, <1>7, <2>3, SMT DEF ArrayVars
<1>8. CASE n # 0
  <2>1. n \in 1 .. Length /\ done + n <= len
    BY <1>2, <1>4, <1>6, <1>8, LengthNat, SMT
  <2>2. Array!Write(n)
    BY <1>1, <1>3, <1>4, <1>5, <1>6, <2>1, Zenon DEF Array!Write, Array!Size, Array!Places,
       Places, Array!NoData, NoData
  <2> QED BY <2>1, <2>2 DEF Array!Next
<1> QED BY <1>7, <1>8

LEMMA ArrayBegin ==
    ASSUME LoopInv, NEW i \in Pieces, NEW b \in 0 .. NumBlocks(i) - 1, NEW bytes \in Sent,
           OnPiece(i, b, bytes)
    PROVE  Array!Next
<1> DEFINE from == PieceOffset(i) + BlockOffset(b)
           n    == BlockLen(i, b)
<1>1. << i, b >> \in BlocksOf(i) /\ b \in Nat
  BY BlockNumbers
<1>2. from \in Nat /\ n \in Nat \ {0} /\ from + n <= Length
  BY <1>1, BlockLayout
<1>3. Slice(bytes, from, n) \in [0 .. n - 1 -> Byte]
  <2>1. bytes \in [Places -> Byte]
    BY DataAssumption DEF Sent
  <2> QED BY <1>2, <2>1, SliceType
<1>4. /\ phase = "idle" /\ phase' = "write" /\ offset' = from /\ done' = 0
      /\ data' = Slice(bytes, from, n) /\ UNCHANGED diskVars
  BY DEF OnPiece, Call
<1> HIDE DEF from, n
<1>5. from \in Places /\ n \in 1 .. Length - from
  BY <1>2, LengthNat, SMT
<1>6. Array!Begin
  BY <1>3, <1>4, <1>5, FlatSame DEF Array!Begin, Array!Places, Places, Array!NoData, NoData
<1> QED BY <1>6 DEF Array!Next

LEMMA ArrayEnd == ASSUME LoopInv, SetBlockDownloaded PROVE Array!Next
<1>1. /\ phase = "write" /\ done = len /\ phase' \in { "check", "idle" } /\ UNCHANGED diskVars
  BY DEF SetBlockDownloaded, ReadPiece, Call
<1>2. /\ data # NoData
      /\ (CHOOSE n \in 1 .. Length : DOMAIN data = 0 .. n - 1) = len
  BY <1>1, SizeIs
<1>3. Array!End
  BY <1>1, <1>2, FlatSame DEF Array!End, Array!Size, Array!NoData, NoData
<1> QED BY <1>3 DEF Array!Next

LEMMA ArrayStep == ASSUME LoopInv, [Next]_vars PROVE Array!Next \/ UNCHANGED ArrayVars
<1>1. CASE UNCHANGED vars
  BY <1>1, FlatSame DEF vars, loopVars, diskVars, ArrayVars
<1>2. CASE Start
  <2>1. phase = "off" /\ phase' = "init" /\ UNCHANGED diskVars
    BY <1>2 DEF Start, ReadPiece, Call
  <2>2. Array!Start
    BY <2>1, FlatSame DEF Array!Start
  <2> QED BY <2>2 DEF Array!Next
<1>3. CASE InitPiece
  <2>1. /\ UNCHANGED diskVars /\ phase = "init" /\ phase' \in { "init", "idle" }
    BY <1>3 DEF InitPiece, ReadPiece, Call
  <2> QED BY <2>1, ArrayStutters
<1>4. CASE SkipFile
  BY <1>4, FlatSame DEF SkipFile, ArrayVars
<1>5. CASE ReadFromFile
  BY <1>5, ArrayStutters DEF ReadFromFile, Reading
<1>6. CASE OnPieceDone \/ BlockSent
  BY <1>6, ArrayStutters DEF OnPieceDone, BlockSent
<1>7. CASE Kill
  <2>1. phase # "off" /\ phase' = "off" /\ UNCHANGED diskVars
    BY <1>7 DEF Kill
  <2>2. Array!Stop
    BY <2>1, FlatSame DEF Array!Stop, Array!NoData, NoData
  <2> QED BY <2>2 DEF Array!Next
<1>8. ASSUME NEW i \in Pieces, NEW b \in 0 .. NumBlocks(i) - 1, SendBlock(i, b)
      PROVE  UNCHANGED ArrayVars
  BY <1>8, ArrayStutters DEF SendBlock, Call
<1> QED
  BY <1>1, <1>2, <1>3, <1>4, <1>5, <1>6, <1>7, <1>8, ArrayWrite, ArrayBegin, ArrayEnd DEF Next

\* The files are one array, of which set_content writes the bytes in order, wherever the
\* files are cut and whenever the process is killed.
THEOREM StorageImplementsArray == Spec => ImplementsArray
<1>1. Init => Array!Init
  <2> SUFFICES ASSUME Init PROVE Array!Init
    OBVIOUS
  <2>1. Flat \in [Places -> Byte]
    BY InitLoop, FlatType
  <2> QED BY <2>1 DEF Init, Array!Init, Array!Places, Places, Array!NoData, NoData
<1>2. LoopInv /\ [Next]_vars
        => [Array!Next]_<< Flat, phase # "off", IF phase = "write" THEN offset ELSE 0,
                           IF phase = "write" THEN data ELSE NoData,
                           IF phase = "write" THEN done ELSE 0 >>
  BY ArrayStep DEF ArrayVars
<1> QED BY InitLoop, LoopPreserved, <1>1, <1>2, PTL DEF Spec, ImplementsArray, Array!Spec

-----------------------------------------------------------------------------
(***************************************************************************)
(* Pieces that are marked are right, when the blocks fill the pieces.          *)
(***************************************************************************)
Aligned == \E m \in Nat : PieceLength = m * BlockSize

\* Then a block lies in its piece.
LEMMA BlockInPiece ==
    ASSUME Aligned, NEW i \in Pieces, NEW b \in Nat, << i, b >> \in BlocksOf(i)
    PROVE  BlockOffset(b) \in Nat /\ BlockOffset(b) + BlockLen(i, b) <= PieceLen(i)
<1>1. /\ BlockOffset(b) \in Nat /\ BlockOffset(b) < PieceLen(i)
      /\ PieceLen(i) \in Nat /\ PieceLen(i) <= PieceLength /\ PieceOffset(i) \in Nat
      /\ PieceOffset(i) + PieceLen(i) <= Length
  BY BlockStarts, PieceLayout
<1>2. BlockSize \in Nat \ {0} /\ Length \in Nat
  BY PieceAssumption, LengthNat
<1>3. BlockLen(i, b) = AtMost(Length - PieceOffset(i) - BlockOffset(b), BlockSize)
  BY DEF BlockLen
<1>4. CASE i = NumPieces - 1
  <2>1. PieceOffset(i) + PieceLen(i) = Length
    <3>1. NumPieces - 1 \in Nat /\ PieceLength \in Nat
      BY PieceAssumption, SMT
    <3>2. PieceLength * (NumPieces - 1) = (NumPieces - 1) * PieceLength
          /\ PieceLength * (NumPieces - 1) \in Nat
      BY <3>1, SMT
    <3>3. PieceOffset(i) = PieceLength * (NumPieces - 1)
          /\ PieceLen(i) = Length - PieceLength * (NumPieces - 1)
      BY <1>4, <3>2 DEF PieceOffset, PieceLen
    <3> DEFINE last == PieceLength * (NumPieces - 1)
    <3>4. PieceOffset(i) = last /\ PieceLen(i) = Length - last /\ last \in Nat
      BY <3>2, <3>3
    <3> HIDE DEF last
    <3> QED BY <1>2, <3>4, SMT
  <2> QED BY <1>1, <1>2, <1>3, <2>1, SMT DEF AtMost
<1>5. CASE i # NumPieces - 1
  <2>1. PieceLen(i) = PieceLength
    BY <1>5 DEF PieceLen
  <2>2. PICK m \in Nat : PieceLength = m * BlockSize
    BY DEF Aligned
  <2>3. ~(m <= b)
    <3>1. m <= b => m * BlockSize <= b * BlockSize
      BY <1>2, TimesMonotonic
    <3> QED BY <1>1, <2>1, <2>2, <3>1, SMT DEF BlockOffset
  <2>4. b + 1 <= m /\ b + 1 \in Nat
    BY <2>2, <2>3, SMT
  <2>5. (b + 1) * BlockSize <= m * BlockSize /\ (b + 1) * BlockSize = b * BlockSize + BlockSize
    BY <1>2, <2>4, TimesMonotonic, NextMultiple
  <2>6. BlockOffset(b) + BlockSize <= PieceLen(i)
    BY <2>1, <2>2, <2>5 DEF BlockOffset
  <2> QED BY <1>1, <1>2, <1>3, <2>6, SMT DEF AtMost
<1> QED BY <1>1, <1>4, <1>5

\* Pieces do not overlap.
LEMMA PiecesApart ==
    ASSUME NEW i \in Pieces, NEW j \in Pieces, i < j
    PROVE  PieceOffset(i) + PieceLen(i) <= PieceOffset(j)
<1>1. i \in Nat /\ j \in Nat /\ i + 1 <= j /\ i + 1 \in Nat /\ PieceLength \in Nat
  BY PieceAssumption, SMT DEF Pieces
<1>2. (i + 1) * PieceLength <= j * PieceLength /\ (i + 1) * PieceLength = i * PieceLength + PieceLength
  BY <1>1, TimesMonotonic, NextMultiple
<1>3. PieceOffset(i) + PieceLength <= PieceOffset(j)
  BY <1>2 DEF PieceOffset
<1>4. /\ PieceOffset(i) \in Nat /\ PieceOffset(j) \in Nat
      /\ PieceLen(i) \in Nat /\ PieceLen(i) <= PieceLength
  BY PieceLayout
<1> QED BY <1>1, <1>3, <1>4, SMT

MarksFit == \A i \in piece_downloaded : BlocksOf(i) \subseteq block_downloaded
RightInv == MarksFit /\ PiecesRight

Right(i) == Slice(Flat, PieceOffset(i), PieceLen(i)) = Slice(Content, PieceOffset(i), PieceLen(i))

\* What the hash of a piece says when it has been read.
LEMMA HashSays ==
    ASSUME LoopInv, ReadsFlat, phase \in { "init", "check" }, done = len, HashMatches
    PROVE  Right(piece)
<1>1. /\ piece \in Pieces /\ offset = PieceOffset(piece) /\ len = PieceLen(piece)
      /\ data \in [0 .. len - 1 -> Byte]
  BY DEF LoopInv, TypeOK, CallOK
<1>2. \A k \in 0 .. len - 1 : data[k] = Flat[offset + k]
  BY DEF ReadsFlat, Reading
<1>3. data = Slice(Flat, offset, len)
  BY <1>1, <1>2 DEF Slice
<1> QED BY <1>1, <1>3 DEF HashMatches, Right

\* A write leaves the pieces alone that it isn't about.
LEMMA OthersStay ==
    ASSUME Aligned, LoopInv, WriteToFile, NEW i \in Pieces, i # piece
    PROVE  Slice(Flat', PieceOffset(i), PieceLen(i)) = Slice(Flat, PieceOffset(i), PieceLen(i))
<1>1. phase = "write" /\ Looping /\ NextFileStart(file) > offset
  BY DEF WriteToFile
<1>2. /\ piece \in Pieces /\ << piece, block >> \in BlocksOf(piece)
      /\ offset = PieceOffset(piece) + BlockOffset(block) /\ len = BlockLen(piece, block)
      /\ done \in Nat /\ len \in Nat
  BY <1>1 DEF LoopInv, TypeOK, CallOK
<1>3. block \in Nat
  BY <1>2, BlockNumbers
<1>4. InThisFile \in Nat /\ InThisFile <= len - done
  BY <1>1, LoopStep
<1>5. BlockOffset(block) \in Nat /\ BlockOffset(block) + len <= PieceLen(piece)
  BY <1>2, <1>3, BlockInPiece
<1>6. /\ PieceOffset(i) \in Nat /\ PieceLen(i) \in Nat /\ PieceOffset(i) + PieceLen(i) <= Length
      /\ PieceOffset(piece) \in Nat /\ PieceLen(piece) \in Nat
  BY <1>2, PieceLayout
<1>7. \/ PieceOffset(i) + PieceLen(i) <= PieceOffset(piece)
      \/ PieceOffset(piece) + PieceLen(piece) <= PieceOffset(i)
  <2>1. i \in Nat /\ piece \in Nat
    BY <1>2, PieceAssumption, SMT DEF Pieces
  <2>2. i < piece \/ piece < i
    BY <2>1, SMT
  <2> QED BY <1>2, <2>2, PiecesApart
<1>8. ASSUME NEW k \in 0 .. PieceLen(i) - 1
      PROVE  Flat'[PieceOffset(i) + k] = Flat[PieceOffset(i) + k]
  <2>1. PICK p \in Places : p = PieceOffset(i) + k
    BY <1>6, LengthNat, SMT
  <2>2. p \notin (offset + done) .. (offset + done + InThisFile - 1)
    BY <1>2, <1>4, <1>5, <1>6, <1>7, <2>1, SMT
  <2>3. Flat'[p] = Flat[p]
    BY <2>2, WriteFlat
  <2> QED BY <2>1, <2>3
<1> QED BY <1>8 DEF Slice

\* A step that leaves the disk and the marks alone, and ends no write or check.
LEMMA RightSame ==
    ASSUME RightInv, UNCHANGED << diskVars, pieceVars >>, phase \notin { "write", "check" }
    PROVE  RightInv'
<1>1. MarksFit' BY DEF RightInv, MarksFit, pieceVars
<1>2. PiecesRight'
  BY FlatSame DEF RightInv, PiecesRight, pieceVars
<1> QED BY <1>1, <1>2 DEF RightInv

LEMMA RightWrite == ASSUME Aligned, LoopInv, RightInv, WriteToFile PROVE RightInv'
<1>1. phase = "write" /\ UNCHANGED << phase, pieceVars, piece >>
  BY DEF WriteToFile
<1>2. MarksFit'
  BY <1>1 DEF RightInv, MarksFit, pieceVars
<1>3. ASSUME NEW i \in piece_downloaded, i # piece PROVE Right(i)'
  <2>1. i \in Pieces
    BY DEF LoopInv, TypeOK
  <2>2. Right(i)
    BY <1>3 DEF RightInv, PiecesRight, Right
  <2>3. Slice(Flat', PieceOffset(i), PieceLen(i)) = Slice(Flat, PieceOffset(i), PieceLen(i))
    BY <1>3, <2>1, OthersStay
  <2> QED BY <2>2, <2>3 DEF Right
<1>4. PiecesRight'
  BY <1>1, <1>3 DEF PiecesRight, Right, pieceVars
<1> QED BY <1>2, <1>4 DEF RightInv

LEMMA RightStep ==
    ASSUME Aligned, LoopInv, ReadsFlat, RightInv, [Next]_vars PROVE RightInv'
<1>1. CASE UNCHANGED vars
  BY <1>1, FlatSame DEF vars, pieceVars, RightInv, MarksFit, PiecesRight
<1>2. CASE Start
  BY <1>2, RightSame DEF Start
<1>3. CASE InitPiece
  <2>1. phase = "init" /\ done = len /\ Flat' = Flat
    BY <1>3, FlatSame DEF InitPiece
  <2>2. CASE HashMatches
    <3>1. Right(piece)
      BY <2>1, <2>2, HashSays
    <3>2. /\ piece_downloaded' = piece_downloaded \cup {piece}
          /\ block_downloaded' = block_downloaded \cup BlocksOf(piece)
      BY <1>3, <2>2 DEF InitPiece
    <3>3. MarksFit'
      BY <3>2 DEF RightInv, MarksFit
    <3>4. PiecesRight'
      BY <2>1, <3>1, <3>2 DEF RightInv, PiecesRight, Right
    <3> QED BY <3>3, <3>4 DEF RightInv
  <2>3. CASE ~HashMatches
    BY <1>3, <2>1, <2>3, RightSame DEF InitPiece
  <2> QED BY <2>2, <2>3
<1>4. CASE SkipFile
  <2>1. UNCHANGED << phase, piece, diskVars, pieceVars >>
    BY <1>4 DEF SkipFile
  <2> QED BY <2>1, FlatSame DEF RightInv, MarksFit, PiecesRight, pieceVars
<1>5. CASE ReadFromFile
  <2>1. UNCHANGED << phase, piece, diskVars, pieceVars >>
    BY <1>5 DEF ReadFromFile
  <2> QED BY <2>1, FlatSame DEF RightInv, MarksFit, PiecesRight, pieceVars
<1>6. CASE SetBlockDownloaded
  <2>1. /\ phase = "write" /\ UNCHANGED diskVars
        /\ block_downloaded' = block_downloaded \cup { << piece, block >> }
    BY <1>6 DEF SetBlockDownloaded
  <2>2. CASE BlocksOf(piece) \subseteq block_downloaded'
    <3>1. /\ piece_downloaded' = piece_downloaded \cup {piece} /\ piece' = piece
          /\ phase' = "check"
      BY <1>6, <2>2 DEF SetBlockDownloaded, ReadPiece, Call
    <3>2. MarksFit'
      BY <2>1, <2>2, <3>1 DEF RightInv, MarksFit
    <3>3. PiecesRight'
      BY <2>1, <3>1, FlatSame DEF RightInv, PiecesRight
    <3> QED BY <3>2, <3>3 DEF RightInv
  <2>3. CASE ~(BlocksOf(piece) \subseteq block_downloaded')
    <3>1. piece_downloaded' = piece_downloaded
      BY <1>6, <2>3 DEF SetBlockDownloaded
    <3>2. piece \notin piece_downloaded
      BY <2>1, <2>3 DEF RightInv, MarksFit
    <3>3. MarksFit'
      BY <2>1, <3>1 DEF RightInv, MarksFit
    <3>4. PiecesRight'
      BY <2>1, <3>1, <3>2, FlatSame DEF RightInv, PiecesRight
    <3> QED BY <3>3, <3>4 DEF RightInv
  <2> QED BY <2>2, <2>3
<1>7. CASE OnPieceDone
  <2>1. phase = "check" /\ done = len /\ Flat' = Flat
    BY <1>7, FlatSame DEF OnPieceDone
  <2>2. CASE HashMatches
    <3>1. Right(piece)
      BY <2>1, <2>2, HashSays
    <3>2. UNCHANGED pieceVars
      BY <1>7, <2>2 DEF OnPieceDone
    <3> QED BY <2>1, <3>1, <3>2 DEF RightInv, MarksFit, PiecesRight, Right, pieceVars
  <2>3. CASE ~HashMatches
    <3>1. /\ piece_downloaded' = piece_downloaded \ {piece}
          /\ block_downloaded' = block_downloaded \ BlocksOf(piece)
      BY <1>7, <2>3 DEF OnPieceDone
    <3>2. ASSUME NEW i \in piece_downloaded' PROVE BlocksOf(i) \subseteq block_downloaded'
      <4>1. i # piece /\ BlocksOf(i) \subseteq block_downloaded
        BY <3>1, <3>2 DEF RightInv, MarksFit
      <4>2. BlocksOf(i) \cap BlocksOf(piece) = {}
        BY <4>1 DEF BlocksOf
      <4> QED BY <3>1, <4>1, <4>2
    <3>3. PiecesRight'
      BY <2>1, <3>1 DEF RightInv, PiecesRight
    <3> QED BY <3>2, <3>3 DEF RightInv, MarksFit
  <2> QED BY <2>2, <2>3
<1>8. CASE BlockSent
  BY <1>8, RightSame DEF BlockSent
<1>9. CASE Kill
  BY <1>9 DEF Kill, RightInv, MarksFit, PiecesRight
<1>10. ASSUME NEW i \in Pieces, NEW b \in 0 .. NumBlocks(i) - 1,
              SendBlock(i, b) \/ \E bytes \in Sent : OnPiece(i, b, bytes)
       PROVE  RightInv'
  BY <1>10, RightSame DEF SendBlock, OnPiece
<1> QED
  BY <1>1, <1>2, <1>3, <1>4, <1>5, <1>6, <1>7, <1>8, <1>9, <1>10, RightWrite DEF Next

\* If the length of a piece is a multiple of that of a block, a piece that is marked as
\* downloaded is right on disk, whatever peers send, except while a block of it is
\* written once more and the piece checked once more.
THEOREM AlignedPiecesRight == ASSUME Aligned PROVE Spec => []PiecesRight
<1>1. Init => LoopInv /\ ReadsFlat /\ RightInv
  BY InitLoop DEF Init, ReadsFlat, Reading, RightInv, MarksFit, PiecesRight
<1>2. LoopInv /\ ReadsFlat /\ RightInv /\ [Next]_vars => (LoopInv /\ ReadsFlat /\ RightInv)'
  BY LoopPreserved, ReadsStep, RightStep
<1>3. RightInv => PiecesRight
  BY DEF RightInv
<1> QED BY <1>1, <1>2, <1>3, PTL DEF Spec

\* Every place of the torrent lies in a piece.
LEMMA PieceOfPlace ==
    ASSUME NEW p \in Places
    PROVE  \E i \in Pieces : \E k \in 0 .. PieceLen(i) - 1 : p = PieceOffset(i) + k
<1>1. /\ p \in Nat /\ p < Length /\ PieceLength \in Nat \ {0} /\ NumPieces \in Nat \ {0}
      /\ Length \in Nat
  BY LengthNat, PieceAssumption
<1>2. PICK i \in Nat : i * PieceLength <= p /\ p < i * PieceLength + PieceLength
  <2> DEFINE q == p \div PieceLength
  <2>1. q \in Nat /\ q * PieceLength <= p /\ p < q * PieceLength + PieceLength
    BY <1>1, SMT
  <2> HIDE DEF q
  <2> QED BY <2>1
<1> DEFINE last == (NumPieces - 1) * PieceLength
<1>3. /\ last = PieceLength * (NumPieces - 1) /\ last \in Nat
      /\ PieceLength * NumPieces = last + PieceLength
  BY <1>1, SMT
<1>4. last < Length /\ Length <= last + PieceLength
  BY <1>3, PieceAssumption
<1>5. NumPieces * PieceLength = last + PieceLength
  BY <1>1, <1>3, SMT
<1>6. i < NumPieces
  <2>1. NumPieces <= i => NumPieces * PieceLength <= i * PieceLength
    BY <1>1, <1>2, TimesMonotonic
  <2>2. i * PieceLength \in Nat
    BY <1>1, <1>2, SMT
  <2> HIDE DEF last
  <2> QED BY <1>1, <1>2, <1>3, <1>4, <1>5, <2>1, <2>2, SMT
<1>7. i \in Pieces
  BY <1>1, <1>2, <1>6, SMT DEF Pieces
<1>8. p - PieceOffset(i) \in 0 .. PieceLen(i) - 1
  <2>1. i * PieceLength \in Nat /\ PieceOffset(i) = i * PieceLength
    BY <1>1, <1>2, SMT DEF PieceOffset
  <2>2. CASE i = NumPieces - 1
    <3>1. PieceLen(i) = Length - last /\ i * PieceLength = last
      BY <1>3, <2>2 DEF PieceLen
    <3> HIDE DEF last
    <3> QED BY <1>1, <1>2, <1>3, <2>1, <3>1, SMT
  <2>3. CASE i # NumPieces - 1
    <3>1. PieceLen(i) = PieceLength
      BY <2>3 DEF PieceLen
    <3> QED BY <1>1, <1>2, <2>1, <3>1, SMT
  <2> QED BY <2>2, <2>3
<1>9. p = PieceOffset(i) + (p - PieceOffset(i))
  BY <1>1, <1>7, PieceLayout, SMT
<1> QED BY <1>7, <1>8, <1>9

\* And then, when all pieces are marked, the files are those of the torrent: what goes
\* wrong where the blocks do not fill the pieces goes wrong nowhere else.
THEOREM AlignedFilesRight == ASSUME Aligned PROVE Spec => []AllMeansRight
<1>1. LoopInv /\ PiecesRight => AllMeansRight
  <2> SUFFICES ASSUME LoopInv, PiecesRight, phase = "idle", piece_downloaded = Pieces
               PROVE  Flat = Content
    BY DEF AllMeansRight
  <2>1. ASSUME NEW p \in Places PROVE Flat[p] = Content[p]
    <3>0. PICK i \in Pieces : \E k \in 0 .. PieceLen(i) - 1 : p = PieceOffset(i) + k
      BY PieceOfPlace
    <3>1. PICK k \in 0 .. PieceLen(i) - 1 : p = PieceOffset(i) + k
      BY <3>0
    <3>2. Slice(Flat, PieceOffset(i), PieceLen(i))[k]
            = Slice(Content, PieceOffset(i), PieceLen(i))[k]
      BY DEF PiecesRight
    <3> QED BY <3>1, <3>2 DEF Slice
  <2>2. Flat \in [Places -> Byte] /\ Content \in [Places -> Byte]
    BY FlatType, DataAssumption
  <2> QED BY <2>1, <2>2
<1>2. Spec => []LoopInv
  BY InitLoop, LoopPreserved, PTL DEF Spec
<1> QED BY <1>1, <1>2, AlignedPiecesRight, PTL
=============================================================================
