--------------------------- MODULE MessageChannel ---------------------------
(***************************************************************************)
(* What a connection promises to those who exchange messages over it: those  *)
(* that were put on it are got whole, once and in order, though some may     *)
(* never be put, until the connection ends or is damaged.  Nothing is        *)
(* promised on a damaged connection; the next one starts afresh.             *)
(***************************************************************************)
EXTENDS Sequences

CONSTANT Messages

VARIABLES
    queue,    \* messages put and not yet got
    got,      \* messages got on this connection, in order
    damaged   \* the connection no longer promises anything

Init == queue = << >> /\ got = << >> /\ damaged = FALSE

Put(m) ==
    /\ queue' = Append(queue, m)
    /\ UNCHANGED << got, damaged >>

Get ==
    /\ queue # << >>
    /\ got' = Append(got, Head(queue)) /\ queue' = Tail(queue)
    /\ UNCHANGED damaged

Fresh == queue' = << >> /\ got' = << >> /\ damaged' = FALSE

\* The damage, and whatever happens after it.
Damage == damaged'

Next ==
    \/ ~damaged /\ ((\E m \in Messages : Put(m)) \/ Get)
    \/ Fresh \/ Damage

Spec == Init /\ [][Next]_<< queue, got, damaged >>
=============================================================================
