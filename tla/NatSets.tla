------------------------------ MODULE NatSets -------------------------------
(***************************************************************************)
(* Facts about sets of natural numbers that the proofs of this project      *)
(* need: every choice the code makes by scanning a vector in index order is  *)
(* the least element of a set of indices.                                   *)
(***************************************************************************)
EXTENDS Integers, WellFoundedInduction, TLAPS

\* A set of naturals that is not empty has a least element: a scan by index that can
\* stop somewhere stops somewhere first (find_peer in decider.rs).
LEMMA NatHasMin ==
    ASSUME NEW T, T \subseteq Nat, T # {}
    PROVE  \E x \in T : \A y \in T : x <= y
<1> DEFINE R == { r \in Nat \X Nat : r[1] < r[2] }
<1>1. IsWellFoundedOn(R, Nat)
  <2>1. R = OpToRel(<, Nat)
    BY Zenon DEF OpToRel
  <2> QED BY <2>1, NatLessThanWellFounded, Zenon
<1>2. PICK x \in T : \A y \in T : ~ (<< y, x >> \in R)
  <2> HIDE DEF R
  <2> QED BY <1>1, WFMin, Zenon
<1>3. ASSUME NEW y \in T PROVE x <= y
  <2>1. x \in Nat /\ y \in Nat
    OBVIOUS
  <2>2. << y, x >> \notin R
    BY <1>2, Zenon
  <2>3. y < x => << y, x >> \in R
    BY <2>1
  <2>4. ~ (y < x)
    BY <2>2, <2>3, Zenon
  <2> QED BY <2>1, <2>4
<1> QED BY <1>3

\* A set of numbers between 1 and n that is not empty has a greatest element: the last
\* block a tick asks a peer for (decide_block_requests in decider.rs).
LEMMA IntervalHasMax ==
    ASSUME NEW n \in Nat, NEW T, T \subseteq 1 .. n, T # {}
    PROVE  \E x \in T : \A y \in T : y <= x
<1> DEFINE M == { n - t : t \in T }
<1>1. M \subseteq Nat /\ M # {}
  <2>1. ASSUME NEW t \in T PROVE n - t \in Nat
    OBVIOUS
  <2>2. PICK t \in T : TRUE
    OBVIOUS
  <2>3. n - t \in M
    BY <2>2
  <2> QED BY <2>1, <2>3
<1>2. PICK m \in M : \A k \in M : m <= k
  <2> HIDE DEF M
  <2> QED BY <1>1, NatHasMin
<1>3. PICK x \in T : m = n - x
  OBVIOUS
<1>4. ASSUME NEW y \in T PROVE y <= x
  <2>1. m <= n - y
    BY <1>2
  <2> QED BY <1>3, <2>1
<1> QED BY <1>4
=============================================================================
