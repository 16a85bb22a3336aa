--------------------------- MODULE ArithmeticLemmas ---------------------------
(***************************************************************************)
(* Facts about unsigned wrap (% m) and sequences that the component proofs   *)
(* cite; no state of the firmware appears here.                             *)
(***************************************************************************)
EXTENDS Integers, Sequences, TLAPS

(* Remainder and quotient of an integer: what a cast to an unsigned type of  *)
(* m values keeps and what it drops.                                         *)
LEMMA RemainderRange ==
  ASSUME NEW x \in Int, NEW m \in Nat \ {0}
  PROVE  /\ x % m \in 0 .. m - 1
         /\ x \div m \in Int
         /\ x = m * (x \div m) + (x % m)
  OBVIOUS

(* Zero is the only multiple of m strictly between -m and m. *)
LEMMA NoMultipleInside ==
  ASSUME NEW k \in Int, NEW m \in Nat \ {0}, m * k < m, -m < m * k
  PROVE  k = 0
<1>1. CASE k >= 1
  <2>1. m * k >= m
    BY <1>1
  <2> QED BY <2>1
<1>2. CASE k <= -1
  <2>1. m * k <= -m
    BY <1>2
  <2> QED BY <2>1
<1> QED BY <1>1, <1>2

(* A remainder in range is the remainder, whatever quotient came with it: two *)
(* counters that differ by whole turns wrap to the same value.                *)
LEMMA RemainderUnique ==
  ASSUME NEW x \in Int, NEW m \in Nat \ {0}, NEW q \in Int, NEW r \in 0 .. m - 1,
         x = m * q + r
  PROVE  x % m = r
<1> DEFINE p == x \div m
<1> DEFINE s == x % m
<1>1. p \in Int /\ s \in 0 .. m - 1 /\ x = m * p + s
  BY RemainderRange
<1> HIDE DEF p, s
<1>2. m * (q - p) = m * q - m * p
  BY <1>1
<1>3. m * (q - p) = s - r
  BY <1>1, <1>2
<1>4. q - p = 0
  BY <1>1, <1>3, NoMultipleInside
<1>5. s = r
  BY <1>1, <1>3, <1>4
<1> QED BY <1>5 DEF s

(* A function on 1..n is a sequence of length n. *)
LEMMA FunctionIsSeq ==
  ASSUME NEW S, NEW n \in Nat, NEW f \in [1 .. n -> S]
  PROVE  f \in Seq(S) /\ Len(f) = n
  OBVIOUS
(* The two ends of a work queue. *)
LEMMA HeadTail ==
  ASSUME NEW S, NEW q \in Seq(S), q # <<>>
  PROVE  /\ Len(q) \in Nat \ {0}
         /\ Head(q) = q[1] /\ q[1] \in S
         /\ Tail(q) \in Seq(S)
         /\ Len(Tail(q)) = Len(q) - 1
         /\ \A i \in 1 .. Len(Tail(q)) : Tail(q)[i] = q[i + 1]
  OBVIOUS

LEMMA AppendEnd ==
  ASSUME NEW S, NEW q \in Seq(S), NEW e \in S
  PROVE  /\ Len(q) \in Nat
         /\ Append(q, e) \in Seq(S)
         /\ Len(Append(q, e)) = Len(q) + 1
         /\ \A i \in 1 .. Len(q) : Append(q, e)[i] = q[i]
         /\ Append(q, e)[Len(q) + 1] = e
  OBVIOUS
=============================================================================
