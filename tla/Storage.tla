------------------------------ MODULE Storage ------------------------------
(***************************************************************************)
(* The pieces and blocks of a torrent and the files their bytes are kept in   *)
(* (download.rs: init_pieces, get_content, set_content, set_block_downloaded, *)
(* on_piece_done; peer_protocol.rs: on_piece, send_block).                    *)
(*                                                                         *)
(* The torrent is an array of bytes, cut into pieces and those into blocks;  *)
(* the same array is cut into files, at other places.  get_content and        *)
(* set_content go through the files in order, one step here for each file;    *)
(* the process can be killed between two of them.                           *)
(***************************************************************************)
EXTENDS Integers

CONSTANTS
    NumFiles,     \* length of Download::files
    FileLength,   \* DownloadFile::length
    FileStart,    \* where a file starts in the torrent; FileStart[NumFiles + 1] is its end
    PieceLength,  \* Download::piece_length
    NumPieces,    \* hashes in the torrent file
    BlockSize,    \* config::BLOCK_SIZE
    Byte,         \* values of a byte, 0 among them
    Content,      \* the torrent, of which a hash stands for a piece
    Damaged,      \* what a peer may send blocks of instead: its data are damaged or incomplete
    Faulty,       \* there is such a peer
    MayKill       \* the process may be killed

Files  == 1 .. NumFiles
Length == FileStart[NumFiles + 1]
Places == 0 .. Length - 1
Pieces == 0 .. NumPieces - 1

ASSUME FileAssumption ==
    /\ NumFiles \in Nat \ {0}
    /\ FileLength \in [Files -> Nat] /\ FileStart \in [1 .. NumFiles + 1 -> Nat]
    /\ FileStart[1] = 0
    /\ \A f \in Files : FileStart[f + 1] = FileStart[f] + FileLength[f]
    /\ \A f, g \in 1 .. NumFiles + 1 : f <= g => FileStart[f] <= FileStart[g]
ASSUME PieceAssumption ==
    /\ PieceLength \in Nat \ {0} /\ NumPieces \in Nat \ {0} /\ BlockSize \in Nat \ {0}
    /\ PieceLength * (NumPieces - 1) < Length /\ Length <= PieceLength * NumPieces
ASSUME DataAssumption ==
    /\ 0 \in Byte /\ Content \in [Places -> Byte] /\ Damaged \in [Places -> Byte]
    /\ Faulty \in BOOLEAN /\ MayKill \in BOOLEAN

VARIABLES
    phase,            \* what the process does; "off": it does not run
    file_size,        \* how long a file is on disk
    on_disk,          \* its bytes; what lies beyond file_size is not there
    block_downloaded, \* <<piece, block>> pairs whose `downloaded' is set
    piece_downloaded, \* pieces whose `downloaded' is set
    piece, block,     \* what the present call is about
    offset, len,      \* arguments of get_content and set_content
    file,             \* the file their loop is at
    data,             \* what is written, or what has been read
    done              \* how many bytes of it

diskVars == << file_size, on_disk >>
pieceVars == << block_downloaded, piece_downloaded >>
loopVars == << offset, len, file, data, done >>
vars == << phase, diskVars, pieceVars, piece, block, loopVars >>

Phases == { "off", "init", "idle", "write", "check", "serve" }
Reading == phase \in { "init", "check", "serve" }
NoData == [k \in {} |-> 0]
AtMost(k, n) == IF k < n THEN k ELSE n

-----------------------------------------------------------------------------
(***************************************************************************)
(* The layout init_pieces computes.  The last block of a piece is cut at the *)
(* end of the torrent, not of the piece.                                    *)
(***************************************************************************)
PieceOffset(i) == i * PieceLength
\* Faulty variant: the last piece is as long as the others.
FullPieceLen(i) == PieceLength

PieceLen(i) == IF i = NumPieces - 1 THEN Length - PieceLength * (NumPieces - 1) ELSE PieceLength

NumBlocks(i) == (PieceLen(i) + BlockSize - 1) \div BlockSize
BlocksOf(i) == { << i, b >> : b \in 0 .. NumBlocks(i) - 1 }
BlockOffset(b) == b * BlockSize
BlockLen(i, b) == AtMost(Length - PieceOffset(i) - BlockOffset(b), BlockSize)

Slice(bytes, from, n) == [k \in 0 .. n - 1 |-> bytes[from + k]]

Init ==
    /\ phase = "off"
    /\ file_size = [f \in Files |-> 0]
    /\ on_disk = [f \in Files |-> [k \in 0 .. FileLength[f] - 1 |-> 0]]
    /\ block_downloaded = {} /\ piece_downloaded = {}
    /\ piece = 0 /\ block = 0
    /\ offset = 0 /\ len = 0 /\ file = 1 /\ data = NoData /\ done = 0

\* A call of get_content or set_content.
Call(what, from, n, bytes) ==
    /\ phase' = what
    /\ offset' = from /\ len' = n /\ file' = 1 /\ data' = bytes /\ done' = 0

NoCall ==
    /\ offset' = 0 /\ len' = 0 /\ file' = 1 /\ data' = NoData /\ done' = 0

ReadPiece(what, i) == Call(what, PieceOffset(i), PieceLen(i), [k \in 0 .. PieceLen(i) - 1 |-> 0])

-----------------------------------------------------------------------------
(***************************************************************************)
(* The loops of get_content and set_content over the files.                  *)
(***************************************************************************)
NextFileStart(f) == FileStart[f] + FileLength[f]
FileOffset == IF FileStart[file] <= offset THEN offset - FileStart[file] ELSE 0
InThisFile == AtMost(FileLength[file] - FileOffset, len - done)

Looping == (Reading \/ phase = "write") /\ done < len

SkipFile ==
    /\ Looping /\ file \in Files /\ NextFileStart(file) <= offset
    /\ file' = file + 1
    /\ UNCHANGED << phase, diskVars, pieceVars, piece, block, offset, len, data, done >>

\* Faulty variant: the seek is left out.
ReadWithoutSeek ==
    /\ Looping /\ Reading /\ file \in Files /\ NextFileStart(file) > offset
    /\ data' = [k \in 0 .. len - 1 |->
                  IF k \in done .. done + InThisFile - 1
                    THEN IF k - done < file_size[file] THEN on_disk[file][k - done] ELSE 0
                    ELSE data[k]]
    /\ done' = done + InThisFile
    /\ file' = file + 1
    /\ UNCHANGED << phase, diskVars, pieceVars, piece, block, offset, len >>

\* A file that is shorter than it should be is read as if it ended in zeros.
ReadFromFile ==
    /\ Looping /\ Reading /\ file \in Files /\ NextFileStart(file) > offset
    /\ data' = [k \in 0 .. len - 1 |->
                  IF k \in done .. done + InThisFile - 1
                    THEN IF FileOffset + k - done < file_size[file]
                           THEN on_disk[file][FileOffset + k - done] ELSE 0
                    ELSE data[k]]
    /\ done' = done + InThisFile
    /\ file' = file + 1
    /\ UNCHANGED << phase, diskVars, pieceVars, piece, block, offset, len >>

\* Faulty variant: every file is written from the place of the first.
WriteAtOffset(n) ==
    /\ on_disk' = [on_disk EXCEPT ![file] =
         [k \in 0 .. FileLength[file] - 1 |->
            IF k \in offset .. offset + n - 1 THEN data[done + k - offset]
            ELSE IF k < file_size[file] THEN on_disk[file][k] ELSE 0]]
    /\ file_size' = [file_size EXCEPT ![file] = IF @ < FileOffset + n THEN FileOffset + n ELSE @]

\* A write beyond the end of a file fills what lies between with zeros.
WriteBytes(n) ==
    /\ on_disk' = [on_disk EXCEPT ![file] =
         [k \in 0 .. FileLength[file] - 1 |->
            IF k \in FileOffset .. FileOffset + n - 1 THEN data[done + k - FileOffset]
            ELSE IF k < file_size[file] THEN on_disk[file][k] ELSE 0]]
    /\ file_size' = [file_size EXCEPT ![file] = IF @ < FileOffset + n THEN FileOffset + n ELSE @]

WriteToFile ==
    /\ Looping /\ phase = "write" /\ file \in Files /\ NextFileStart(file) > offset
    /\ WriteBytes(InThisFile)
    /\ done' = done + InThisFile
    /\ file' = file + 1
    /\ UNCHANGED << phase, pieceVars, piece, block, offset, len, data >>

-----------------------------------------------------------------------------
(***************************************************************************)
(* Download::new: init_pieces reads every piece and compares its hash.        *)
(***************************************************************************)
Start ==
    /\ phase = "off"
    /\ ReadPiece("init", 0)
    /\ piece' = 0
    /\ UNCHANGED << diskVars, pieceVars, block >>

\* Faulty variant: part of the piece is compared.
StartMatches == data[0] = Content[PieceOffset(piece)]

HashMatches == data = Slice(Content, PieceOffset(piece), PieceLen(piece))

InitPiece ==
    /\ phase = "init" /\ done = len
    /\ IF HashMatches
         THEN /\ piece_downloaded' = piece_downloaded \cup {piece}
              /\ block_downloaded' = block_downloaded \cup BlocksOf(piece)
         ELSE UNCHANGED pieceVars
    /\ IF piece + 1 \in Pieces
         THEN piece' = piece + 1 /\ ReadPiece("init", piece + 1)
         ELSE piece' = 0 /\ NoCall /\ phase' = "idle"
    /\ UNCHANGED << diskVars, block >>

(***************************************************************************)
(* on_piece: a block some peer was asked for arrives, wanted or not any more. *)
(***************************************************************************)
OnPiece(i, b, bytes) ==
    /\ phase = "idle" /\ << i, b >> \in BlocksOf(i)
    /\ piece' = i /\ block' = b
    /\ Call("write", PieceOffset(i) + BlockOffset(b), BlockLen(i, b),
            Slice(bytes, PieceOffset(i) + BlockOffset(b), BlockLen(i, b)))
    /\ UNCHANGED << diskVars, pieceVars >>

\* Faulty variant: a piece that was downloaded is not looked at again.
SetBlockOnce ==
    /\ phase = "write" /\ done = len
    /\ block_downloaded' = block_downloaded \cup { << piece, block >> }
    /\ IF BlocksOf(piece) \subseteq block_downloaded' /\ piece \notin piece_downloaded
         THEN /\ piece_downloaded' = piece_downloaded \cup {piece}
              /\ ReadPiece("check", piece)
              /\ UNCHANGED << piece, block >>
         ELSE /\ NoCall /\ phase' = "idle" /\ piece' = 0 /\ block' = 0
              /\ UNCHANGED piece_downloaded
    /\ UNCHANGED diskVars

\* Piece::set_block_downloaded, and on_piece_done if that was the last block.
SetBlockDownloaded ==
    /\ phase = "write" /\ done = len
    /\ block_downloaded' = block_downloaded \cup { << piece, block >> }
    /\ IF BlocksOf(piece) \subseteq block_downloaded'
         THEN /\ piece_downloaded' = piece_downloaded \cup {piece}
              /\ ReadPiece("check", piece)
              /\ UNCHANGED << piece, block >>
         ELSE /\ NoCall /\ phase' = "idle" /\ piece' = 0 /\ block' = 0
              /\ UNCHANGED piece_downloaded
    /\ UNCHANGED diskVars

\* The hash of the piece does not match: Piece::reset.
OnPieceDone ==
    /\ phase = "check" /\ done = len
    /\ IF HashMatches
         THEN UNCHANGED pieceVars
         ELSE /\ piece_downloaded' = piece_downloaded \ {piece}
              /\ block_downloaded' = block_downloaded \ BlocksOf(piece)
    /\ NoCall /\ phase' = "idle" /\ piece' = 0 /\ block' = 0
    /\ UNCHANGED diskVars

\* send_block, for a block as this program asks for them, of a piece it has.
SendBlock(i, b) ==
    /\ phase = "idle" /\ i \in piece_downloaded /\ << i, b >> \in BlocksOf(i)
    /\ piece' = i /\ block' = b
    /\ Call("serve", PieceOffset(i) + BlockOffset(b), BlockLen(i, b),
            [k \in 0 .. BlockLen(i, b) - 1 |-> 0])
    /\ UNCHANGED << diskVars, pieceVars >>

BlockSent ==
    /\ phase = "serve" /\ done = len
    /\ NoCall /\ phase' = "idle" /\ piece' = 0 /\ block' = 0
    /\ UNCHANGED << diskVars, pieceVars >>

Kill ==
    /\ MayKill /\ phase # "off"
    /\ phase' = "off" /\ piece' = 0 /\ block' = 0 /\ NoCall
    /\ block_downloaded' = {} /\ piece_downloaded' = {}
    /\ UNCHANGED diskVars

Sent == IF Faulty THEN { Content, Damaged } ELSE { Content }

Next ==
    \/ Start \/ InitPiece
    \/ SkipFile \/ ReadFromFile \/ WriteToFile
    \/ \E i \in Pieces : \E b \in 0 .. NumBlocks(i) - 1 :
         SendBlock(i, b) \/ \E bytes \in Sent : OnPiece(i, b, bytes)
    \/ SetBlockDownloaded \/ OnPieceDone \/ BlockSent \/ Kill

Spec == Init /\ [][Next]_vars

-----------------------------------------------------------------------------
(***************************************************************************)
(* Properties                                                              *)
(***************************************************************************)

\* The array the files make up.
FileAt(k) == CHOOSE f \in Files : FileStart[f] <= k /\ k < FileStart[f + 1]
FileByte(f, k) == IF k < file_size[f] THEN on_disk[f][k] ELSE 0
Flat == [k \in Places |-> FileByte(FileAt(k), k - FileStart[FileAt(k)])]

\* The type of every variable.  No subtraction of the layout or of the loops, which the
\* code makes on unsigned numbers, goes below zero.
TypeOK ==
    /\ phase \in Phases
    /\ file_size \in [Files -> Nat] /\ \A f \in Files : file_size[f] <= FileLength[f]
    /\ DOMAIN on_disk = Files /\ \A f \in Files : on_disk[f] \in [0 .. FileLength[f] - 1 -> Byte]
    /\ piece \in Pieces /\ block \in Nat
    /\ piece_downloaded \subseteq Pieces
    /\ block_downloaded \subseteq UNION { BlocksOf(i) : i \in Pieces }
    /\ offset \in Nat /\ len \in Nat /\ done \in 0 .. len /\ offset + len <= Length
    /\ file \in 1 .. NumFiles + 1
    /\ data \in [0 .. len - 1 -> Byte]

\* Whatever the files and wherever they are cut, get_content and set_content find room
\* for every piece and every block: the loop never runs out of files, which would end in a
\* panic, and goes on in each file where it left the one before.
LoopFits ==
    Looping =>
        /\ file \in Files
        /\ NextFileStart(file) > offset =>
             FileOffset <= FileLength[file] /\ FileStart[file] + FileOffset = offset + done

\* What get_content has read is what the array holds there: the files that were
\* passed over, cut short or are not yet written make no difference.
ReadsFlat == Reading => \A k \in 0 .. done - 1 : data[k] = Flat[offset + k]

\* A piece marked downloaded is right on disk, except while a block of it is being
\* written again and checked again.
PiecesRight ==
    \A i \in piece_downloaded :
        (phase \in { "write", "check" } /\ piece = i)
          \/ Slice(Flat, PieceOffset(i), PieceLen(i)) = Slice(Content, PieceOffset(i), PieceLen(i))

\* When every piece is downloaded, the files are those of the torrent.
AllMeansRight == phase = "idle" /\ piece_downloaded = Pieces => Flat = Content

\* The files implement one array, also when the process is killed between two of them.
Array == INSTANCE FlatFile WITH
    flat <- Flat,
    up   <- phase # "off",
    at   <- IF phase = "write" THEN offset ELSE 0,
    data <- IF phase = "write" THEN data ELSE NoData,
    done <- IF phase = "write" THEN done ELSE 0
ImplementsArray == Array!Spec
=============================================================================
