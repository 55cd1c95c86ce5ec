------------------------------ MODULE FlatFile ------------------------------
(***************************************************************************)
(* What the files of a torrent are to the rest of a download: one array of    *)
(* bytes.  Data are written to it from the first byte to the last, all of    *)
(* them unless the process stops; nothing else ever changes it.              *)
(***************************************************************************)
EXTENDS Integers

CONSTANTS
    Length,   \* of the array
    Byte      \* what one place of it can hold

VARIABLES
    flat,     \* the array
    up,       \* the process runs
    at,       \* where data are being written
    data,     \* the data being written, or << >>
    done      \* how many of them have been

Places == 0 .. Length - 1
NoData == [k \in {} |-> 0]
Size   == IF data = NoData THEN 0 ELSE CHOOSE n \in 1 .. Length : DOMAIN data = 0 .. n - 1

Init == flat \in [Places -> Byte] /\ ~up /\ at = 0 /\ data = NoData /\ done = 0

Begin ==
    /\ up /\ data = NoData
    /\ at' \in Places /\ \E n \in 1 .. Length - at' : data' \in [0 .. n - 1 -> Byte]
    /\ done' = 0
    /\ UNCHANGED << flat, up >>

\* The next `n' bytes.
Write(n) ==
    /\ up /\ done + n <= Size
    /\ flat' = [k \in Places |-> IF k \in (at + done) .. (at + done + n - 1) THEN data[k - at]
                                                                          ELSE flat[k]]
    /\ done' = done + n
    /\ UNCHANGED << up, at, data >>

End ==
    /\ up /\ data # NoData /\ done = Size
    /\ at' = 0 /\ data' = NoData /\ done' = 0
    /\ UNCHANGED << flat, up >>

Start == ~up /\ up' /\ UNCHANGED << flat, at, data, done >>

Stop == up /\ ~up' /\ at' = 0 /\ data' = NoData /\ done' = 0 /\ UNCHANGED flat

Next == Begin \/ End \/ Start \/ Stop \/ \E n \in 1 .. Length : Write(n)

Spec == Init /\ [][Next]_<< flat, up, at, data, done >>
=============================================================================
