------------------------------- MODULE Division -------------------------------
(***************************************************************************)
(* Quotients and remainders, and what set_request of low_saurion.c makes   *)
(* of them: how many buffers of a size it takes for some bytes, and how    *)
(* much is in the last.                                                    *)
(***************************************************************************)
EXTENDS Integers, TLAPS

(* A larger number of buffers is larger by a buffer at least.              *)
LEMMA Multiples ==
  ASSUME NEW b \in Nat \ {0}, NEW p \in Int, NEW q \in Int, p < q
  PROVE  p * b + b <= q * b
<1>1. PICK d \in Nat : q = p + 1 + d
  <2>1. q - p - 1 \in Nat
    OBVIOUS
  <2> QED BY <2>1
<1>2. q * b = p * b + b + d * b
  BY <1>1
<1>3. d * b >= 0
  OBVIOUS
<1>4. p * b \in Int /\ d * b \in Int
  OBVIOUS
<1> QED BY <1>2, <1>3, <1>4

(* The quotient and the remainder.                                         *)
LEMMA Divided ==
  ASSUME NEW a \in Nat, NEW b \in Nat \ {0}
  PROVE  \E d \in Nat, m \in 0 .. b - 1 :
           d = a \div b /\ m = a % b /\ a = d * b + m
<1>1. ASSUME NEW d, NEW m, d = a \div b, m = a % b
      PROVE  d \in Nat /\ m \in 0 .. b - 1 /\ a = d * b + m
  <2>1. d \in Int /\ m \in 0 .. b - 1
    BY <1>1
  <2> QED BY <1>1, <2>1
<1> QED BY <1>1, Zenon

(* A number of the form q * b + r has the quotient q and the remainder r.  *)
LEMMA QuotientIs ==
  ASSUME NEW a \in Nat, NEW b \in Nat \ {0}, NEW q \in Nat,
         NEW r \in 0 .. b - 1, a = q * b + r
  PROVE  a \div b = q /\ a % b = r
<1>1. PICK d \in Nat, m \in 0 .. b - 1 :
        d = a \div b /\ m = a % b /\ a = d * b + m
  BY Divided, Zenon
<1>2. d * b \in Int /\ q * b \in Int
  BY <1>1
<1>3. ~(d < q)
  <2>1. ASSUME d < q
        PROVE  FALSE
    <3>1. d * b + b <= q * b
      BY <1>1, <2>1, Multiples
    <3> QED BY <1>1, <1>2, <3>1
  <2> QED BY <2>1
<1>4. ~(q < d)
  <2>1. ASSUME q < d
        PROVE  FALSE
    <3>1. q * b + b <= d * b
      BY <1>1, <2>1, Multiples
    <3> QED BY <1>1, <1>2, <3>1
  <2> QED BY <2>1
<1>5. d = q
  BY <1>1, <1>3, <1>4
<1>6. m = r
  BY <1>1, <1>2, <1>5
<1> QED BY <1>1, <1>5, <1>6, Zenon

(* a bytes take that many buffers of b, all full but the last.             *)
LEMMA Shared ==
  ASSUME NEW a \in Nat \ {0}, NEW b \in Nat \ {0}
  PROVE  \E n \in Nat \ {0}, l \in 1 .. b :
           /\ n = (a + b - 1) \div b
           /\ l = IF a % b # 0 THEN a % b ELSE b
           /\ a = (n - 1) * b + l
<1>1. PICK t \in Nat, s \in 0 .. b - 1 : t = a \div b /\ s = a % b /\ a = t * b + s
  <2>1. a \in Nat
    OBVIOUS
  <2> QED BY <2>1, Divided, Zenon
<1>2. a + b - 1 \in Nat /\ t * b \in Nat
  BY <1>1
<1>3. CASE s = 0
  <2>1. t # 0
    BY <1>1, <1>3
  <2>2. (t - 1) * b = t * b - b
    BY <1>1
  <2>3. a + b - 1 = t * b + (b - 1)
    BY <1>1, <1>2, <1>3
  <2>4. t = (a + b - 1) \div b
    <3>1. b - 1 \in 0 .. b - 1
      OBVIOUS
    <3> QED BY <1>1, <1>2, <2>3, <3>1, QuotientIs, Zenon
  <2>5. t \in Nat \ {0} /\ b \in 1 .. b /\ a = (t - 1) * b + b
    BY <1>1, <1>2, <1>3, <2>1, <2>2
  <2>6. b = IF a % b # 0 THEN a % b ELSE b
    BY <1>1, <1>3
  <2> QED BY <2>4, <2>5, <2>6, Zenon
<1>4. CASE s # 0
  <2>1. (t + 1) * b = t * b + b
    BY <1>1
  <2>2. a + b - 1 = (t + 1) * b + (s - 1)
    BY <1>1, <1>2, <2>1
  <2>3. t + 1 = (a + b - 1) \div b
    <3>1. t + 1 \in Nat /\ s - 1 \in 0 .. b - 1
      BY <1>1, <1>4
    <3> QED BY <1>2, <2>2, <3>1, QuotientIs, Zenon
  <2>4. t + 1 \in Nat \ {0} /\ s \in 1 .. b /\ a = ((t + 1) - 1) * b + s
    BY <1>1, <1>4
  <2>5. s = IF a % b # 0 THEN a % b ELSE b
    BY <1>1, <1>4
  <2> QED BY <2>3, <2>4, <2>5, Zenon
<1> QED BY <1>3, <1>4
=============================================================================
