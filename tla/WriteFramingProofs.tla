--------------------------- MODULE WriteFramingProofs ---------------------------
(***************************************************************************)
(* Theorems of WriteFraming, for a message of any length, and buffers and  *)
(* a header of any size.                                                   *)
(***************************************************************************)
EXTENDS WriteFraming, Division, SequenceTheorems

(* Each buffer is filled in its turn with its part of the message, and the *)
(* memset that ends the filling early is one whose size wraps.             *)
Buffer(pos) == [len |-> IovLen(pos), data |-> Content(pos)]

Filled ==
  /\ len \in Lengths
  /\ Len(iov) <= Amount
  /\ iov \in Seq({Buffer(pos) : pos \in 0 .. Amount - 1})
  /\ \A p \in 1 .. Len(iov) : iov[p] = Buffer(p - 1)
  /\ wpc \in {"fill", "submitted", "smashed"}
  /\ wpc = "submitted" => Len(iov) = Amount
  /\ wpc = "smashed" => \E pos \in 0 .. Amount - 1 : Cleared(pos) < 0

-----------------------------------------------------------------------------
(* The buffers.                                                            *)

(* The buffers are as many as it takes, and the last has what is left.     *)
LEMMA LastBuffer ==
  ASSUME len \in Nat
  PROVE  /\ Amount \in Nat \ {0} /\ Total \in Nat
         /\ IovLen(Amount - 1) \in 1 .. CHUNK
         /\ Total = (Amount - 1) * CHUNK + IovLen(Amount - 1)
<1>1. CHUNK \in Nat \ {0} /\ Total \in Nat \ {0}
  BY WriteAssumption DEF Total
<1>2. PICK n \in Nat \ {0}, l \in 1 .. CHUNK :
        /\ n = (Total + CHUNK - 1) \div CHUNK
        /\ l = IF Total % CHUNK # 0 THEN Total % CHUNK ELSE CHUNK
        /\ Total = (n - 1) * CHUNK + l
  BY <1>1, Shared, Zenon
<1>3. Amount = n
  BY <1>2 DEF Amount
<1>4. IovLen(Amount - 1) = l
  BY <1>2 DEF IovLen
<1> QED BY <1>1, <1>2, <1>3, <1>4

(* The buffers before the last are sent whole.                             *)
LEMMA EarlierBuffer ==
  ASSUME len \in Nat, NEW pos \in 0 .. Amount - 1, pos # Amount - 1
  PROVE  IovLen(pos) = CHUNK
BY DEF IovLen

(* The memset wraps in the first buffer only, when it is the last too and  *)
(* has fewer than HDR bytes to spare.                                      *)
LEMMA WrapsWhere ==
  ASSUME len \in Nat, NEW pos \in 0 .. Amount - 1, Cleared(pos) < 0
  PROVE  CHUNK - 2 * HDR < len /\ len + HDR + 1 <= CHUNK
<1>1. /\ Amount \in Nat \ {0} /\ CHUNK \in Nat /\ HDR \in Nat
      /\ IovLen(Amount - 1) \in 1 .. CHUNK
      /\ Total = (Amount - 1) * CHUNK + IovLen(Amount - 1)
  BY LastBuffer, WriteAssumption
<1>2. IovLen(pos) \in Nat
  BY <1>1, EarlierBuffer
<1>3. End(pos) < CHUNK /\ CHUNK < End(pos) + OffsetIov(pos)
  BY <1>1, <1>2 DEF Cleared, End, OffsetIov
<1>4. pos = 0
  BY <1>1, <1>2, <1>3 DEF End, OffsetIov
<1>5. pos = Amount - 1
  BY <1>1, <1>3, EarlierBuffer DEF End
<1>6. Total = IovLen(0)
  BY <1>1, <1>4, <1>5
<1>7. End(pos) = len + HDR /\ OffsetIov(pos) = HDR /\ Total = len + HDR + 1
  BY <1>1, <1>4, <1>5, <1>6 DEF End, OffsetIov, Total
<1> QED BY <1>1, <1>3, <1>4, <1>6, <1>7

(* A position of what is sent is one of a buffer.                          *)
LEMMA InBuffer ==
  ASSUME len \in Nat, NEW x \in 0 .. Total - 1
  PROVE  \E q \in 0 .. Amount - 1, k \in 0 .. CHUNK - 1 :
           /\ q = x \div CHUNK /\ k = x % CHUNK /\ x = q * CHUNK + k
           /\ q = Amount - 1 => k < IovLen(q)
<1>1. /\ Amount \in Nat \ {0} /\ CHUNK \in Nat \ {0} /\ Total \in Nat
      /\ IovLen(Amount - 1) \in 1 .. CHUNK
      /\ Total = (Amount - 1) * CHUNK + IovLen(Amount - 1)
  BY LastBuffer, WriteAssumption
<1>2. x \in Nat
  BY <1>1
<1>3. PICK q \in Nat, k \in 0 .. CHUNK - 1 :
        q = x \div CHUNK /\ k = x % CHUNK /\ x = q * CHUNK + k
  BY <1>1, <1>2, Divided, Zenon
<1>4. (Amount - 1) * CHUNK \in Int /\ q * CHUNK \in Int /\ x < Total
  BY <1>1, <1>3
<1>5. ~(Amount - 1 < q)
  <2>1. ASSUME Amount - 1 < q
        PROVE  FALSE
    <3>1. (Amount - 1) * CHUNK + CHUNK <= q * CHUNK
      BY <1>1, <1>3, <2>1, Multiples
    <3> QED BY <1>1, <1>3, <1>4, <3>1
  <2> QED BY <2>1
<1>6. q \in 0 .. Amount - 1
  BY <1>1, <1>3, <1>5
<1>7. q = Amount - 1 => k < IovLen(q)
  BY <1>1, <1>3, <1>4
<1> QED BY <1>3, <1>6, <1>7, Zenon

(* What a buffer has at a position behind the header: the byte of the      *)
(* message, then the terminator if there is more than one buffer.          *)
LEMMA ContentIs ==
  ASSUME len \in Nat, NEW q \in 0 .. Amount - 1, NEW k \in 0 .. CHUNK - 1,
         NEW i \in 0 .. len, HDR + i = q * CHUNK + k,
         q = Amount - 1 => k < IovLen(q)
  PROVE  /\ i < len => Content(q)[k] = i + 1
         /\ i = len /\ Amount > 1 => Content(q)[k] = 0
<1>1. /\ Amount \in Nat \ {0} /\ CHUNK \in Nat \ {0} /\ HDR \in Nat \ {0}
      /\ IovLen(Amount - 1) \in 1 .. CHUNK
      /\ Total = (Amount - 1) * CHUNK + IovLen(Amount - 1)
      /\ Total = len + HDR + 1 /\ HDR < CHUNK
  BY LastBuffer, WriteAssumption DEF Total
<1>2. /\ q \in Nat /\ q * CHUNK \in Nat /\ (Amount - 1) * CHUNK \in Nat
  BY <1>1
<1>3. q > 0 => q * CHUNK >= CHUNK
  <2>1. ASSUME 0 < q
        PROVE  0 * CHUNK + CHUNK <= q * CHUNK
    BY <1>1, <1>2, <2>1, Multiples
  <2> QED BY <1>1, <1>2, <2>1
<1>4. /\ q = 0 => k = HDR + i /\ OffsetIov(q) = HDR /\ OffsetS(q) = 0
      /\ q > 0 => OffsetIov(q) = 0 /\ OffsetS(q) = q * CHUNK - HDR
  BY <1>1, <1>2 DEF OffsetIov, OffsetS
<1>5. OffsetIov(q) <= k /\ OffsetS(q) + k - OffsetIov(q) = i
  <2>1. CASE q = 0
    <3>1. k = HDR + i /\ OffsetIov(q) = HDR /\ OffsetS(q) = 0
      BY <1>4, <2>1
    <3> QED BY <1>1, <3>1
  <2>2. CASE q > 0
    <3>1. OffsetIov(q) = 0 /\ OffsetS(q) = q * CHUNK - HDR
      BY <1>4, <2>2
    <3>2. ASSUME NEW m \in Nat, m = q * CHUNK
          PROVE  m - HDR + k - 0 = i /\ 0 <= k
      BY <1>1, <3>2
    <3> QED BY <1>2, <3>1, <3>2
  <2> QED BY <1>2, <2>1, <2>2
<1>6. IovLen(q) \in 1 .. CHUNK /\ (q # Amount - 1 => IovLen(q) = CHUNK)
  BY <1>1, EarlierBuffer
<1>7. ASSUME i < len
      PROVE  Content(q)[k] = i + 1
  <2>1. CASE q = Amount - 1
    <3>1. k < End(q)
      BY <1>1, <1>2, <1>7, <2>1 DEF End
    <3> QED BY <1>5, <1>7, <3>1 DEF Content, Str
  <2>2. CASE q # Amount - 1
    <3>1. k < End(q)
      BY <1>1, <1>6, <2>2 DEF End
    <3> QED BY <1>5, <1>7, <3>1 DEF Content, Str
  <2> QED BY <2>1, <2>2
<1>8. ASSUME i = len, Amount > 1
      PROVE  Content(q)[k] = 0
  <2>1. q = Amount - 1
    <3>1. ASSUME q < Amount - 1
          PROVE  FALSE
      <4>1. q * CHUNK + CHUNK <= (Amount - 1) * CHUNK
        BY <1>1, <1>2, <3>1, Multiples
      <4> QED BY <1>1, <1>2, <1>8, <4>1
    <3> QED BY <1>1, <3>1
  <2>2. k = IovLen(q) - 1 /\ End(q) = k /\ OffsetIov(q) = 0
    BY <1>1, <1>2, <1>4, <1>8, <2>1 DEF End
  <2>3. Cleared(q) > 0
    BY <1>1, <1>6, <2>2 DEF Cleared
  <2> QED BY <1>1, <2>2, <2>3 DEF Content
<1> QED BY <1>7, <1>8

(* The room of the header, and the terminator of a message that fits one   *)
(* buffer: neither the memcpy nor the memset reaches them.                 *)
LEMMA ContentRaw ==
  ASSUME len \in Nat, NEW k \in 0 .. CHUNK - 1,
         k < HDR \/ (k = HDR + len /\ Amount = 1)
  PROVE  Content(0)[k] = Raw
<1>1. /\ Amount \in Nat \ {0} /\ CHUNK \in Nat /\ HDR \in Nat \ {0}
      /\ IovLen(Amount - 1) \in 1 .. CHUNK
      /\ Total = (Amount - 1) * CHUNK + IovLen(Amount - 1)
      /\ Total = len + HDR + 1
  BY LastBuffer, WriteAssumption DEF Total
<1>2. IovLen(0) \in 1 .. CHUNK
  BY <1>1, EarlierBuffer
<1>3. OffsetIov(0) = HDR /\ End(0) \in Nat
  BY <1>1, <1>2 DEF OffsetIov, End
<1>4. Amount = 1 => End(0) = HDR + len
  BY <1>1 DEF End
<1>5. ~(HDR <= k /\ k < End(0)) /\ ~(HDR + End(0) <= k)
  BY <1>1, <1>3, <1>4
<1> QED BY <1>3, <1>5 DEF Content

-----------------------------------------------------------------------------
(* The invariant and the theorems.                                         *)

(* set_request starts with no buffer filled.                               *)
LEMMA FilledInit ==
  ASSUME Init
  PROVE  Filled
<1>1. len \in Nat /\ iov = <<>> /\ Len(iov) = 0
  BY WriteAssumption DEF Init
<1>2. Amount \in Nat
  BY <1>1, LastBuffer
<1> QED BY <1>1, <1>2 DEF Init, Filled

(* A turn of its loop fills the next buffer.                               *)
LEMMA FilledNext ==
  ASSUME Filled, [Next]_vars
  PROVE  Filled'
<1> DEFINE S == {Buffer(pos) : pos \in 0 .. Amount - 1}
<1>1. len \in Nat /\ Amount \in Nat \ {0} /\ iov \in Seq(S) /\ Len(iov) \in Nat
  BY WriteAssumption, LastBuffer, LenProperties DEF Filled
<1>2. len' = len
  BY DEF Next, Fill, Submit, vars
<1>3. /\ Amount' = Amount /\ S' = S
      /\ \A pos : Buffer(pos)' = Buffer(pos) /\ Cleared(pos)' = Cleared(pos)
  BY <1>2
     DEF Amount, Total, Buffer, IovLen, Content, OffsetIov, OffsetS, End, Str,
         Cleared
<1>4. CASE Fill
  <2>1. Len(iov) \in 0 .. Amount - 1 /\ wpc = "fill"
    BY <1>1, <1>4 DEF Fill
  <2>2. CASE Cleared(Len(iov)) < 0
    <3>1. wpc' = "smashed" /\ iov' = iov
      BY <1>4, <2>2 DEF Fill
    <3> QED BY <1>2, <1>3, <2>1, <2>2, <3>1 DEF Filled
  <2>3. CASE ~(Cleared(Len(iov)) < 0)
    <3> DEFINE b == Buffer(Len(iov))
    <3>1. wpc' = "fill" /\ iov' = Append(iov, b)
      BY <1>4, <2>1, <2>3 DEF Fill, Buffer
    <3>2. b \in S
      BY <2>1
    <3> HIDE DEF b, S
    <3>3. /\ iov' \in Seq(S) /\ Len(iov') = Len(iov) + 1
          /\ \A p \in 1 .. Len(iov) : iov'[p] = iov[p]
          /\ iov'[Len(iov) + 1] = b
      BY <1>1, <3>1, <3>2, AppendProperties
    <3>4. ASSUME NEW p \in 1 .. Len(iov')
          PROVE  iov'[p] = Buffer(p - 1)
      <4>1. CASE p \in 1 .. Len(iov)
        BY <3>3, <4>1 DEF Filled
      <4>2. CASE p = Len(iov) + 1
        <5>1. p - 1 = Len(iov)
          BY <1>1, <4>2
        <5> QED BY <3>3, <4>2, <5>1 DEF b
      <4> QED BY <1>1, <3>3, <4>1, <4>2
    <3>5. iov' \in Seq({Buffer(pos) : pos \in 0 .. Amount - 1})'
      BY <1>3, <3>3 DEF S
    <3>6. Len(iov') <= Amount'
      BY <1>1, <1>3, <2>1, <3>3
    <3> QED BY <1>2, <1>3, <3>1, <3>4, <3>5, <3>6 DEF Filled
  <2> QED BY <2>2, <2>3
<1>5. CASE Submit
  BY <1>2, <1>3, <1>5 DEF Filled, Submit
<1>6. CASE UNCHANGED vars
  BY <1>2, <1>3, <1>6 DEF Filled, vars
<1> QED BY <1>4, <1>5, <1>6 DEF Next

(* What is sent, position by position.                                     *)
LEMMA Sent ==
  ASSUME Filled, wpc = "submitted"
  PROVE  /\ BodyWhole /\ LongTerminated
<1>1. /\ len \in Nat /\ Amount \in Nat \ {0} /\ Len(iov) = Amount
      /\ CHUNK \in Nat /\ HDR \in Nat
      /\ Total = (Amount - 1) * CHUNK + IovLen(Amount - 1)
      /\ Total = len + HDR + 1
  BY WriteAssumption, LastBuffer DEF Filled, Total
<1>2. \A p \in 1 .. Amount : iov[p].len = IovLen(p - 1) /\ iov[p].data = Content(p - 1)
  BY <1>1 DEF Filled, Buffer
<1>3. ASSUME NEW i \in 0 .. len
      PROVE  /\ i < len => Wire(HDR + i) = i + 1
             /\ i = len /\ Amount > 1 => Wire(HDR + i) = 0
  <2>1. HDR + i \in 0 .. Total - 1
    BY <1>1
  <2>2. PICK q \in 0 .. Amount - 1, k \in 0 .. CHUNK - 1 :
          /\ q = (HDR + i) \div CHUNK /\ k = (HDR + i) % CHUNK
          /\ HDR + i = q * CHUNK + k
          /\ q = Amount - 1 => k < IovLen(q)
    BY <1>1, <2>1, InBuffer, Zenon
  <2>3. q + 1 \in 1 .. Amount /\ (q + 1) - 1 = q
    BY <1>1
  <2>4. iov[q + 1].data = Content(q)
    BY <1>2, <2>3
  <2>5. Wire(HDR + i) = Content(q)[k]
    BY <2>2, <2>4, Zenon DEF Wire
  <2>6. /\ i < len => Content(q)[k] = i + 1
        /\ i = len /\ Amount > 1 => Content(q)[k] = 0
    BY <1>1, <2>2, ContentIs
  <2> QED BY <2>5, <2>6
<1>4. ASSUME NEW i \in 1 .. len
      PROVE  Wire(HDR + i - 1) = i
  <2>1. i - 1 \in 0 .. len /\ i - 1 < len /\ HDR + (i - 1) = HDR + i - 1
        /\ (i - 1) + 1 = i
    BY <1>1
  <2>2. Wire(HDR + (i - 1)) = (i - 1) + 1
    BY <1>3, <2>1
  <2> QED BY <2>1, <2>2
<1>5. ASSUME NEW p \in 1 .. Len(iov) - 1
      PROVE  iov[p].len = CHUNK
  <2>1. p \in 1 .. Amount /\ p - 1 \in 0 .. Amount - 1 /\ p - 1 # Amount - 1
    BY <1>1
  <2> QED BY <1>1, <1>2, <2>1, EarlierBuffer
<1>6. (Len(iov) - 1) * CHUNK + iov[Len(iov)].len = HDR + len + 1
  BY <1>1, <1>2
<1>7. ASSUME NEW i \in 0 .. HDR + len, i < HDR \/ (i = HDR + len /\ Amount = 1)
      PROVE  Wire(i) = Raw
  <2>1. i \in 0 .. CHUNK - 1 /\ i < CHUNK /\ CHUNK \in Nat \ {0}
    <3>1. HDR < CHUNK /\ IovLen(Amount - 1) \in 1 .. CHUNK
      BY <1>1, WriteAssumption, LastBuffer
    <3> QED BY <1>1, <1>7, <3>1
  <2>2. i \div CHUNK = 0 /\ i % CHUNK = i
    BY <2>1
  <2>3. iov[1].data = Content(0)
    BY <1>1, <1>2
  <2>4. Wire(i) = Content(0)[i]
    BY <2>2, <2>3 DEF Wire
  <2> QED BY <1>1, <1>7, <2>1, <2>4, ContentRaw
<1>8. Wire(HDR + len) = IF Len(iov) > 1 THEN 0 ELSE Raw
  <2>1. len \in 0 .. len /\ HDR + len \in 0 .. HDR + len
    BY <1>1
  <2>2. CASE Amount > 1
    BY <1>1, <1>3, <2>1, <2>2
  <2>3. CASE ~(Amount > 1)
    <3>1. Amount = 1
      BY <1>1, <2>3
    <3> QED BY <1>1, <1>7, <2>1, <3>1
  <2> QED BY <2>2, <2>3
<1>9. \A i \in 0 .. HDR - 1 : Wire(i) = Raw
  BY <1>1, <1>7
<1> QED BY <1>4, <1>5, <1>6, <1>8, <1>9 DEF BodyWhole, LongTerminated

(* The invariant holds in every state of set_request.                      *)
THEOREM FilledInvariant == Spec => []Filled
<1>1. Init => Filled
  BY FilledInit
<1>2. Filled /\ [Next]_vars => Filled'
  BY FilledNext
<1> QED BY <1>1, <1>2, PTL DEF Spec

(* A message of any length is sent whole, each byte once and in order,     *)
(* behind the room of its header, whatever the size of the buffers         *)
(* (allocate_iovec, initialize_iovec).                                     *)
THEOREM MessageWhole == Spec => []BodyWhole
<1>1. Filled => BodyWhole
  BY Sent DEF BodyWhole
<1> QED BY <1>1, FilledInvariant, PTL

(* A message of several buffers ends with its terminator; the header, and  *)
(* the terminator of a message of one buffer, are memory nobody wrote.     *)
THEOREM MessageTerminated == Spec => []LongTerminated
<1>1. Filled => LongTerminated
  BY Sent DEF LongTerminated
<1> QED BY <1>1, FilledInvariant, PTL

(* The memset of initialize_iovec writes past its buffer for the messages  *)
(* whose frame almost fills one buffer, and for no other.                  *)
THEOREM SmashedWhere == Spec => []WithinBuffers
<1>1. Filled => WithinBuffers
  <2>1. SUFFICES ASSUME Filled, wpc = "smashed"
                 PROVE  CHUNK - 2 * HDR < len /\ len + HDR + 1 <= CHUNK
    BY DEF WithinBuffers
  <2>2. PICK pos \in 0 .. Amount - 1 : Cleared(pos) < 0
    BY <2>1 DEF Filled
  <2>3. len \in Nat
    BY <2>1, WriteAssumption DEF Filled
  <2> QED BY <2>2, <2>3, WrapsWhere
<1> QED BY <1>1, FilledInvariant, PTL
=============================================================================
