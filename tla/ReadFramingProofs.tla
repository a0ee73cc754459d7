--------------------------- MODULE ReadFramingProofs ---------------------------
(***************************************************************************)
(* Theorems of ReadFraming, for messages of any number and size, a header  *)
(* and buffers of any size, any number of failed allocations, and a stream *)
(* cut anywhere.                                                           *)
(***************************************************************************)
EXTENDS ReadFraming, Division, SequenceTheorems

-----------------------------------------------------------------------------
(* The invariant.                                                          *)

Bytes == (Nat \X Nat) \cup {Zero, Raw}

(* The frame of message m is behind the first o bytes of the stream, and   *)
(* behind it the next one, if there is one.                                *)
FrameAt(m, o) ==
  /\ o \in Nat /\ o + Frame(m) <= Len(stream)
  /\ \A k \in 1 .. Frame(m) : stream[o + k] = <<m, k>>
  /\ m < Len(size) => /\ o + Frame(m) < Len(stream)
                      /\ stream[o + Frame(m) + 1] = <<m + 1, 1>>
  /\ m = Len(size) => o + Frame(m) = Len(stream)

(* Of the byte behind the first p: the message, and the place in its frame.*)
Of(p) == stream[p + 1][1]
At(p) == stream[p + 1][2]

Framed(i) ==
  \E m \in 1 .. Len(size) : \E k \in 1 .. Frame(m) :
    stream[i] = <<m, k>> /\ FrameAt(m, i - k)

(* The stream is the frames of the messages in order.                      *)
StreamInv ==
  /\ size \in Seq(Sizes) /\ stream \in Seq(Nat \X Nat) /\ pos \in 0 .. Len(stream)
  /\ \A i \in 1 .. Len(stream) : Framed(i)
  /\ \A i, j \in 1 .. Len(stream) : i <= j => stream[i][1] <= stream[j][1]

DeliveredInv ==
  delivered \in Seq(Seq(Nat \X Nat)) /\ failed \in Nat /\ AsSent

(* What was delivered when message m is the next.                          *)
Given(m) ==
  /\ \A i \in Readed : MessageOf(i) < m
  /\ failed = 0 => \A j \in 1 .. m - 1 : \E i \in Readed : delivered[i] = Content(j)

(* What was delivered before the byte behind the first p is looked at: it  *)
(* is the first of a message, or the terminator of one that filled its     *)
(* read; without memory it may be any byte of such a message.              *)
Place(p) ==
  /\ p = Len(stream) => Given(Len(size) + 1)
  /\ p < Len(stream) /\ At(p) = 1 => Given(Of(p))
  /\ p < Len(stream) /\ At(p) # 1 => /\ Given(Of(p) + 1)
                                     /\ failed = 0 => At(p) = Frame(Of(p))

(* The first o bytes of message m are in the block d.                      *)
Prefix(d, m, o) ==
  d \in [1 .. size[m] -> Bytes] /\ \A k \in 1 .. o : d[k] = <<m, HDR + k>>

(* prev has the bytes of a message that came before the byte behind the    *)
(* first p, which is the next of it.                                       *)
Kept == prev_size - prev_remain

Carries(p) ==
  /\ p < Len(stream) /\ stream[p + 1] = <<Of(p), HDR + Kept + 1>>
  /\ prev_size = size[Of(p)] /\ prev_remain \in Nat /\ Kept \in 0 .. prev_size - 1
  /\ Prefix(prev, Of(p), Kept)
  /\ Given(Of(p))

NoPrev == prev = NULL /\ prev_size = 0 /\ prev_remain = 0

ReadInv ==
  pc = "read" =>
    /\ next_iov = 0 /\ next_offset = 0
    /\ \/ NoPrev /\ iov = Buffers(CHUNK) /\ Place(pos)
       \/ HasPrev /\ iov = Buffers(prev_remain) /\ Carries(pos)

(* In handle_read Room is the number of bytes that came, Base what was read*)
(* before them, and Here what was read before the message in turn.         *)
Base == pos - Room
Here == Base + next_offset

Buffered ==
  /\ iov \in Seq([len : 1 .. CHUNK, data : [0 .. CHUNK - 1 -> Bytes]])
  /\ Len(iov) > 0 /\ Base \in Nat
  /\ \A i \in 1 .. Len(iov) - 1 : iov[i].len = CHUNK
  /\ \A i \in 1 .. Len(iov) : \A k \in 0 .. CHUNK - 1 :
       iov[i].data[k] = IF (i - 1) * CHUNK + k < Room
                          THEN stream[Base + (i - 1) * CHUNK + k + 1] ELSE Zero

(* The read ends behind the body of a message, or within the only one, the *)
(* size of which is more than all that came.                               *)
CutRight ==
  \/ stream[pos][2] >= HDR + size[stream[pos][1]]
  \/ /\ next_offset = 0 /\ stream[pos][1] = Of(Base)
     /\ HDR <= Room /\ Room < size[stream[pos][1]]

First ==
  /\ NoPrev /\ Len(iov) = 1 /\ next_offset \in 0 .. Room - 1
  /\ Place(Here) /\ CutRight
  /\ At(Here) # 1 => Room = 1 /\ At(Here) = Frame(Of(Here))

Rest == HasPrev /\ next_offset = 0 /\ Room <= prev_remain /\ Carries(Base)

HandleInv ==
  pc \in {"handle", "copy"} => Buffered /\ next_iov = 0 /\ (First \/ Rest)

(* The loop of read_chunk: the rest of a message carried over, a message   *)
(* that starts in the read, or the terminator of a long message, which is  *)
(* read as a message of no bytes.                                          *)
CopyRest ==
  /\ chunk.keep /\ chunk.msg_size = prev_size /\ chunk.o_iov = 0
  /\ chunk.o_s = Kept + (IF chunk.i = Len(iov) THEN Room ELSE chunk.i * CHUNK)
  /\ Prefix(chunk.dest, Of(Base), chunk.o_s)
  /\ chunk.readed \in Nat
  /\ chunk.i > 0 => chunk.readed >= iov[chunk.i].len

CopyFirst ==
  /\ At(Here) = 1 /\ chunk.msg_size = size[Of(Here)]
  /\ chunk.keep <=> next_offset = 0 /\ size[Of(Here)] > Room
  /\ Prefix(chunk.dest, Of(Here), chunk.o_s)
  /\ chunk.i = 0 => /\ chunk.o_s = 0 /\ chunk.readed = 0
                    /\ chunk.o_iov = next_offset + HDR
  /\ chunk.i = 1 => /\ chunk.o_s = Smaller(size[Of(Here)], Room - next_offset - HDR)
                    /\ chunk.readed = chunk.o_s + HDR + 1
                    /\ chunk.curr_len = chunk.o_s

CopyNone ==
  /\ At(Here) # 1
  /\ chunk.msg_size = 0 /\ chunk.o_s = 0 /\ chunk.dest = <<>> /\ ~chunk.keep
  /\ chunk.i = 0 => chunk.readed = 0
  /\ chunk.i = 1 => chunk.readed = HDR + 1

Chunks ==
  [msg_size : Nat, o_s : Nat, o_iov : Nat, dest : Seq(Bytes), keep : BOOLEAN,
   i : Nat, curr_len : Int, readed : Int]

CopyInv ==
  pc = "copy" =>
    /\ chunk \in Chunks /\ chunk.i <= Len(iov)
    /\ (First /\ (CopyFirst \/ CopyNone)) \/ (Rest /\ CopyRest)

InStep ==
  /\ StreamInv /\ DeliveredInv /\ ReadInv /\ HandleInv /\ CopyInv
  /\ pc \in {"read", "handle", "copy", "lost"}
  /\ failed = 0 => pc # "lost"

FramingInv == ~torn => InStep
-----------------------------------------------------------------------------
(* The stream.                                                             *)

(* A frame has a header, a body and a terminator.                          *)
LEMMA FrameSize ==
  ASSUME size \in Seq(Sizes), NEW m \in 1 .. Len(size)
  PROVE  /\ size[m] \in Sizes /\ size[m] \in Nat \ {0}
         /\ Frame(m) = HDR + size[m] + 1 /\ Frame(m) \in Nat
<1>1. size[m] \in Sizes
  BY ElementOfSeq
<1>2. size[m] \in Nat \ {0} /\ HDR \in Nat
  BY <1>1, FramingAssumption
<1> QED BY <1>1, <1>2 DEF Frame

(* The byte behind the first p belongs to a frame.                         *)
LEMMA ByteAt ==
  ASSUME StreamInv, NEW p \in Nat, p < Len(stream)
  PROVE  /\ Of(p) \in 1 .. Len(size) /\ At(p) \in 1 .. Frame(Of(p))
         /\ stream[p + 1] = <<Of(p), At(p)>> /\ FrameAt(Of(p), p + 1 - At(p))
         /\ Len(stream) \in Nat /\ Len(size) \in Nat
         /\ size[Of(p)] \in Sizes /\ size[Of(p)] \in Nat \ {0}
         /\ Frame(Of(p)) = HDR + size[Of(p)] + 1
<1>1. Len(stream) \in Nat /\ Len(size) \in Nat /\ size \in Seq(Sizes)
  BY LenProperties DEF StreamInv
<1>2. p + 1 \in 1 .. Len(stream)
  BY <1>1
<1>3. PICK m \in 1 .. Len(size) :
         \E k \in 1 .. Frame(m) : stream[p + 1] = <<m, k>> /\ FrameAt(m, p + 1 - k)
  <2>1. Framed(p + 1)
    BY <1>2 DEF StreamInv
  <2> QED BY <2>1 DEF Framed
<1>4. PICK k \in 1 .. Frame(m) : stream[p + 1] = <<m, k>> /\ FrameAt(m, p + 1 - k)
  BY <1>3
<1>5. Of(p) = m /\ At(p) = k
  BY <1>4 DEF Of, At
<1> QED BY <1>1, <1>4, <1>5, FrameSize

(* The bytes of a frame follow each other, and the next frame follows.     *)
LEMMA BytesFollow ==
  ASSUME StreamInv, NEW p \in Nat, p < Len(stream),
         NEW d \in Nat, At(p) + d <= Frame(Of(p))
  PROVE  /\ p + d < Len(stream) /\ stream[p + d + 1] = <<Of(p), At(p) + d>>
         /\ Of(p + d) = Of(p) /\ At(p + d) = At(p) + d
<1> DEFINE m == Of(p)
           k == At(p)
           f == Frame(m)
           o == p + 1 - k
           n == Len(stream)
<1>1. m \in 1 .. Len(size) /\ k \in 1 .. f /\ FrameAt(m, o) /\ n \in Nat
      /\ f = HDR + size[m] + 1 /\ size[m] \in Nat
  BY ByteAt
<1>2. f \in Nat /\ HDR \in Nat
  BY <1>1, FramingAssumption
<1>3. o \in Nat /\ o + f <= n /\ \A j \in 1 .. f : stream[o + j] = <<m, j>>
  BY <1>1 DEF FrameAt
<1>4. k + d <= f
  OBVIOUS
<1> HIDE DEF m, k, f, n
<1>5. k + d \in 1 .. f /\ o + (k + d) = p + d + 1
  BY <1>1, <1>2, <1>4
<1>6. stream[p + d + 1] = <<m, k + d>>
  BY <1>3, <1>5
<1>7. p + d < n
  BY SMTT(30), <1>1, <1>2, <1>3, <1>4
<1>8. Of(p + d) = m /\ At(p + d) = k + d
  BY <1>6 DEF Of, At
<1> QED BY <1>6, <1>7, <1>8 DEF m, k, n

(* What follows the last byte of a frame.                                  *)
LEMMA FrameEnds ==
  ASSUME StreamInv, NEW p \in Nat, p < Len(stream), At(p) = Frame(Of(p))
  PROVE  /\ p + 1 < Len(stream) => Of(p + 1) = Of(p) + 1 /\ At(p + 1) = 1
         /\ p + 1 = Len(stream) => Of(p) = Len(size)
<1> DEFINE m == Of(p)
           f == Frame(m)
<1>1. m \in 1 .. Len(size) /\ f \in Nat /\ FrameAt(m, p + 1 - f)
      /\ Len(stream) \in Nat /\ Len(size) \in Nat
  BY ByteAt, FramingAssumption
<1> HIDE DEF m, f
<1>2. (p + 1 - f) + f = p + 1
  BY <1>1
<1>3. /\ m < Len(size) => p + 1 < Len(stream) /\ stream[p + 1 + 1] = <<m + 1, 1>>
      /\ m = Len(size) => p + 1 = Len(stream)
  BY <1>1, <1>2 DEF FrameAt, f
<1>4. m < Len(size) \/ m = Len(size)
  BY <1>1
<1>5. stream[p + 1 + 1] = <<m + 1, 1>> => Of(p + 1) = m + 1 /\ At(p + 1) = 1
  BY DEF Of, At
<1> QED BY <1>1, <1>3, <1>4, <1>5 DEF m

(* Before the end of the stream comes the end of the frame.                *)
LEMMA FrameInStream ==
  ASSUME StreamInv, NEW p \in Nat, p < Len(stream)
  PROVE  /\ p + 1 - At(p) + Frame(Of(p)) <= Len(stream)
         /\ Of(p) = Len(size) => p + 1 - At(p) + Frame(Of(p)) = Len(stream)
BY ByteAt DEF FrameAt

-----------------------------------------------------------------------------
(* Messages delivered.                                                     *)

(* A message of bytes that are not zero has a first one.                   *)
LEMMA ContentOf ==
  ASSUME size \in Seq(Sizes), NEW m \in 1 .. Len(size)
  PROVE  /\ Content(m) \in Seq(Nat \X Nat) /\ Content(m) # <<>>
         /\ Content(m)[1] = <<m, HDR + 1>>
<1>1. size[m] \in Nat \ {0} /\ HDR \in Nat /\ m \in Nat
  BY FrameSize, FramingAssumption, LenProperties
<1>2. \A k \in 1 .. size[m] : <<m, HDR + k>> \in Nat \X Nat
  BY <1>1
<1>3. Content(m) \in Seq(Nat \X Nat) /\ Len(Content(m)) = size[m]
  BY <1>1, <1>2 DEF Content
<1>4. Content(m) # <<>>
  BY <1>1, <1>3, EmptySeq
<1>5. Content(m)[1] = <<m, HDR + 1>>
  BY <1>1 DEF Content
<1> QED BY <1>3, <1>4, <1>5

(* A call of on_readed that was not empty is about a message sent.         *)
LEMMA ReadedIs ==
  ASSUME StreamInv, DeliveredInv, NEW i \in Readed
  PROVE  MessageOf(i) \in 1 .. Len(size) /\ MessageOf(i) \in Nat
<1>1. size \in Seq(Sizes)
  BY DEF StreamInv
<1>2. PICK b \in 1 .. Len(size) : delivered[i] = Content(b)
  BY <1>1, LenProperties DEF DeliveredInv, AsSent
<1>3. MessageOf(i) = b
  BY <1>1, <1>2, ContentOf DEF MessageOf
<1> QED BY <1>1, <1>3, LenProperties

(* A block that all the bytes of the message came to is its content.       *)
LEMMA WholeBlock ==
  ASSUME size \in Seq(Sizes), NEW m \in 1 .. Len(size),
         NEW d, Prefix(d, m, size[m])
  PROVE  d = Content(m)
BY DEF Prefix, Content
-----------------------------------------------------------------------------
(* The peer sends.                                                         *)

(* One more message, of n bytes.                                           *)
Longer(n) ==
  /\ size' \in Seq(Sizes) /\ Len(size') = Len(size) + 1 /\ size'[Len(size) + 1] = n
  /\ \A m \in 1 .. Len(size) : size'[m] = size[m]
  /\ stream' \in Seq(Nat \X Nat) /\ Len(stream') = Len(stream) + (HDR + n + 1)
  /\ \A i \in 1 .. Len(stream) : stream'[i] = stream[i]
  /\ \A k \in 1 .. HDR + n + 1 : stream'[Len(stream) + k] = <<Len(size) + 1, k>>

(* What the peer does.                                                     *)
LEMMA PeerSends ==
  ASSUME StreamInv, PeerSend
  PROVE  /\ \E n \in Sizes : Longer(n)
         /\ UNCHANGED <<pos, pc, iov, carried, next, chunk, delivered, failed>>
<1>1. size \in Seq(Sizes) /\ stream \in Seq(Nat \X Nat) /\ pos \in 0 .. Len(stream)
      /\ Len(size) \in Nat /\ Len(stream) \in Nat /\ HDR \in Nat
  BY LenProperties, FramingAssumption DEF StreamInv
<1>2. PICK n \in Sizes :
        /\ size' = Append(size, n)
        /\ stream' = stream \o [k \in 1 .. HDR + n + 1 |-> <<Len(size) + 1, k>>]
  BY DEF PeerSend
<1>3. n \in Nat \ {0}
  BY FramingAssumption
<1>4. Longer(n)
  <2> DEFINE f == [k \in 1 .. HDR + n + 1 |-> <<Len(size) + 1, k>>]
  <2>1. HDR + n + 1 \in Nat
    BY <1>1, <1>3
  <2>2. \A k \in 1 .. HDR + n + 1 : <<Len(size) + 1, k>> \in Nat \X Nat
    BY <1>1, <2>1
  <2>3. f \in Seq(Nat \X Nat) /\ Len(f) = HDR + n + 1
    BY <2>1, <2>2
  <2>4. \A k \in 1 .. HDR + n + 1 : f[k] = <<Len(size) + 1, k>>
    OBVIOUS
  <2> HIDE DEF f
  <2>5. stream' = stream \o f
    BY <1>2 DEF f
  <2>6. /\ stream' \in Seq(Nat \X Nat) /\ Len(stream') = Len(stream) + (HDR + n + 1)
        /\ \A i \in 1 .. Len(stream) + (HDR + n + 1) :
             stream'[i] = IF i <= Len(stream) THEN stream[i] ELSE f[i - Len(stream)]
    <3>1. /\ stream \o f \in Seq(Nat \X Nat) /\ Len(stream \o f) = Len(stream) + Len(f)
          /\ \A i \in 1 .. Len(stream) + Len(f) :
               (stream \o f)[i] = IF i <= Len(stream) THEN stream[i] ELSE f[i - Len(stream)]
      BY <1>1, <2>3, ConcatProperties
    <3> QED BY <2>3, <2>5, <3>1
  <2>7. /\ \A i \in 1 .. Len(stream) : stream'[i] = stream[i]
        /\ \A k \in 1 .. HDR + n + 1 : stream'[Len(stream) + k] = f[k]
    <3>1. ASSUME NEW i \in 1 .. Len(stream)
          PROVE  stream'[i] = stream[i]
      <4>1. i \in 1 .. Len(stream) + (HDR + n + 1) /\ i <= Len(stream)
        BY <1>1, <1>3
      <4> QED BY <2>6, <4>1
    <3>2. ASSUME NEW k \in 1 .. HDR + n + 1
          PROVE  stream'[Len(stream) + k] = f[k]
      <4>1. /\ Len(stream) + k \in 1 .. Len(stream) + (HDR + n + 1)
            /\ ~(Len(stream) + k <= Len(stream)) /\ (Len(stream) + k) - Len(stream) = k
        BY <1>1, <1>3
      <4> QED BY <2>6, <4>1
    <3> QED BY <3>1, <3>2
  <2>8. /\ size' \in Seq(Sizes) /\ Len(size') = Len(size) + 1 /\ size'[Len(size) + 1] = n
        /\ \A m \in 1 .. Len(size) : size'[m] = size[m]
    BY <1>1, <1>2, AppendProperties
  <2> QED BY <2>4, <2>6, <2>7, <2>8 DEF Longer
<1>5. UNCHANGED <<pos, pc, iov, carried, next, chunk, delivered, failed>>
  BY DEF PeerSend
<1> QED BY <1>4, <1>5

(* The messages and bytes before stay what they are.                       *)
LEMMA LongerKeeps ==
  ASSUME StreamInv, NEW n \in Sizes, Longer(n),
         NEW l, l = Len(stream), NEW s, s = Len(size)
  PROVE  /\ \A m \in 1 .. Len(size) : Frame(m)' = Frame(m) /\ Content(m)' = Content(m)
         /\ \A p \in Nat : p < Len(stream) => /\ stream'[p + 1] = stream[p + 1]
                                             /\ Of(p)' = Of(p) /\ At(p)' = At(p)
                                             /\ size'[Of(p)] = size[Of(p)]
                                             /\ Frame(Of(p))' = Frame(Of(p))
         /\ Of(l)' = s + 1 /\ At(l)' = 1
         /\ l < Len(stream') /\ l \in Nat /\ s \in Nat
         /\ Frame(s + 1)' = HDR + n + 1 /\ n \in Nat \ {0} /\ HDR \in Nat
<1>1. /\ Len(size) \in Nat /\ Len(stream) \in Nat /\ HDR \in Nat /\ n \in Nat \ {0}
  BY LenProperties, FramingAssumption DEF StreamInv
<1>2. \A m \in 1 .. Len(size) : Frame(m)' = Frame(m) /\ Content(m)' = Content(m)
  BY DEF Longer, Frame, Content
<1>3. ASSUME NEW p \in Nat, p < Len(stream)
      PROVE  /\ stream'[p + 1] = stream[p + 1]
             /\ Of(p)' = Of(p) /\ At(p)' = At(p)
             /\ size'[Of(p)] = size[Of(p)]
             /\ Frame(Of(p))' = Frame(Of(p))
  <2>1. p + 1 \in 1 .. Len(stream)
    BY <1>1, <1>3
  <2>2. Of(p) \in 1 .. Len(size)
    BY <1>3, ByteAt
  <2>3. stream'[p + 1] = stream[p + 1] /\ size'[Of(p)] = size[Of(p)]
    BY <2>1, <2>2 DEF Longer
  <2> QED BY <2>3 DEF Of, At, Frame
<1>4. 1 \in 1 .. HDR + n + 1
  BY <1>1
<1>5. stream'[l + 1] = <<s + 1, 1>>
  BY <1>4 DEF Longer
<1>6. Of(l)' = s + 1 /\ At(l)' = 1
  BY <1>5 DEF Of, At
<1>7. l < Len(stream')
  BY <1>1 DEF Longer
<1>8. Frame(s + 1)' = HDR + n + 1
  BY DEF Longer, Frame
<1> QED BY <1>1, <1>2, <1>3, <1>6, <1>7, <1>8

(* The frame sent follows those before.                                    *)
LEMMA StreamGrows ==
  ASSUME StreamInv, PeerSend
  PROVE  StreamInv'
<1> SUFFICES ASSUME NEW l, l = Len(stream), NEW s, s = Len(size)
             PROVE  StreamInv'
  OBVIOUS
<1>1. PICK n \in Sizes : Longer(n)
  BY PeerSends
<1>2. /\ l \in Nat /\ s \in Nat /\ HDR \in Nat /\ n \in Nat \ {0}
      /\ pos' = pos /\ pos \in 0 .. l /\ Len(stream') = l + (HDR + n + 1)
      /\ Len(size') = s + 1
  BY <1>1, LongerKeeps, PeerSends DEF Longer, StreamInv
<1>3. \A i \in 1 .. l : /\ stream'[i] = stream[i]
                        /\ stream[i][1] \in 1 .. s /\ size'[stream[i][1]] = size[stream[i][1]]
  <2> SUFFICES ASSUME NEW i \in 1 .. l
               PROVE  /\ stream'[i] = stream[i]
                      /\ stream[i][1] \in 1 .. s
                      /\ size'[stream[i][1]] = size[stream[i][1]]
    OBVIOUS
  <2>1. PICK p \in Nat : p < l /\ i = p + 1
    <3>1. i - 1 \in Nat /\ i - 1 < l /\ i = (i - 1) + 1
      BY <1>2
    <3> QED BY <3>1
  <2>2. Of(p) \in 1 .. s /\ Of(p) = stream[i][1]
    BY <2>1, ByteAt DEF Of
  <2> QED BY <1>1, <2>2 DEF Longer
<1>4. \A i \in l + 1 .. l + (HDR + n + 1) : stream'[i] = <<s + 1, i - l>>
  <2> SUFFICES ASSUME NEW i \in l + 1 .. l + (HDR + n + 1)
               PROVE  stream'[i] = <<s + 1, i - l>>
    OBVIOUS
  <2>1. i - l \in 1 .. HDR + n + 1 /\ l + (i - l) = i
    BY <1>2
  <2> QED BY <1>1, <2>1 DEF Longer
<1>5. \A m \in 1 .. s : Frame(m)' = Frame(m) /\ Frame(m) \in Nat
  BY <1>1, LongerKeeps, FrameSize DEF StreamInv
<1>6. Frame(s + 1)' = HDR + n + 1
  BY <1>1, LongerKeeps
<1>7. ASSUME NEW i \in 1 .. l
      PROVE  Framed(i)'
  <2>1. Framed(i)
    BY DEF StreamInv
  <2>2. PICK m \in 1 .. s : \E k \in 1 .. Frame(m) : stream[i] = <<m, k>> /\ FrameAt(m, i - k)
    BY <2>1 DEF Framed
  <2>3. PICK k \in 1 .. Frame(m) : stream[i] = <<m, k>> /\ FrameAt(m, i - k)
    BY <2>2
  <2>4. PICK o \in Nat : o = i - k
    BY <2>3 DEF FrameAt
  <2>5. FrameAt(m, o)'
    <3>1. /\ o + Frame(m) <= l /\ \A j \in 1 .. Frame(m) : stream[o + j] = <<m, j>>
          /\ m < s => o + Frame(m) < l /\ stream[o + Frame(m) + 1] = <<m + 1, 1>>
          /\ m = s => o + Frame(m) = l
      BY <2>3, <2>4 DEF FrameAt
    <3>2. o + Frame(m)' <= Len(stream')
      BY <1>2, <1>5, <3>1
    <3>3. \A j \in 1 .. Frame(m)' : stream'[o + j] = <<m, j>>
      <4> SUFFICES ASSUME NEW j \in 1 .. Frame(m)
                   PROVE  stream'[o + j] = <<m, j>>
        BY <1>5
      <4>1. o + j \in 1 .. l
        BY <1>2, <1>5, <3>1
      <4> QED BY <1>3, <3>1, <4>1
    <3>4. m < Len(size') => /\ o + Frame(m)' < Len(stream')
                            /\ stream'[o + Frame(m)' + 1] = <<m + 1, 1>>
      <4>1. CASE m < s
        <5>1. o + Frame(m) + 1 \in 1 .. l
          BY SMTT(30), <1>2, <1>5, <3>1, <4>1
        <5>2. stream'[o + Frame(m) + 1] = <<m + 1, 1>>
          BY <1>3, <3>1, <4>1, <5>1
        <5>3. o + Frame(m) < Len(stream')
          BY <1>2, <1>5, <5>1
        <5> QED BY <1>5, <5>2, <5>3
      <4>2. CASE m = s
        <5>1. l + 1 \in l + 1 .. l + (HDR + n + 1) /\ (l + 1) - l = 1
          BY <1>2
        <5>2. stream'[l + 1] = <<s + 1, 1>>
          BY <1>4, <5>1
        <5>3. o + Frame(m) = l
          BY <3>1, <4>2
        <5>4. stream'[o + Frame(m) + 1] = <<m + 1, 1>> /\ o + Frame(m) < Len(stream')
          <6>1. stream'[o + Frame(m) + 1] = <<m + 1, 1>>
            BY <4>2, <5>2, <5>3, Zenon
          <6>2. o + Frame(m) < Len(stream')
            BY <1>2, <5>3
          <6> QED BY <6>1, <6>2
        <5> QED BY <1>5, <5>4
      <4> QED BY <1>2, <4>1, <4>2
    <3>5. m # Len(size')
      BY <1>2
    <3> QED BY <3>2, <3>3, <3>4, <3>5 DEF FrameAt
  <2>6. stream'[i] = <<m, k>> /\ m \in 1 .. Len(size') /\ k \in 1 .. Frame(m)'
    BY <1>2, <1>3, <1>5, <2>3
  <2> QED BY <2>4, <2>5, <2>6 DEF Framed
<1>8. ASSUME NEW i \in l + 1 .. l + (HDR + n + 1)
      PROVE  Framed(i)'
  <2>1. PICK k \in 1 .. HDR + n + 1 : k = i - l /\ i - k = l
    <3>1. i - l \in 1 .. HDR + n + 1 /\ i - (i - l) = l
      BY <1>2
    <3> QED BY <3>1
  <2>2. \A j \in 1 .. Frame(s + 1)' : stream'[l + j] = <<s + 1, j>>
    BY <1>1, <1>6 DEF Longer
  <2>3. FrameAt(s + 1, l)'
    <3>1. l + Frame(s + 1)' = Len(stream') /\ s + 1 = Len(size')
      BY <1>2, <1>6
    <3>2. l + Frame(s + 1)' <= Len(stream') /\ ~(s + 1 < Len(size'))
      BY <1>2, <3>1
    <3> QED BY <1>2, <2>2, <3>1, <3>2 DEF FrameAt
  <2>4. stream'[i] = <<s + 1, k>> /\ s + 1 \in 1 .. Len(size')
    BY <1>2, <1>4, <2>1
  <2> QED BY <1>6, <2>1, <2>3, <2>4 DEF Framed
<1>9. \A i \in 1 .. Len(stream') : i \in 1 .. l \/ i \in l + 1 .. l + (HDR + n + 1)
  BY <1>2
<1>10. ASSUME NEW i \in 1 .. Len(stream'), NEW j \in 1 .. Len(stream'), i <= j
       PROVE  stream'[i][1] <= stream'[j][1]
  <2>1. CASE i \in 1 .. l /\ j \in 1 .. l
    BY <1>3, <1>10, <2>1 DEF StreamInv
  <2>2. CASE i \in 1 .. l /\ j \in l + 1 .. l + (HDR + n + 1)
    BY <1>2, <1>3, <1>4, <2>2
  <2>3. CASE i \in l + 1 .. l + (HDR + n + 1)
    <3>1. j \in l + 1 .. l + (HDR + n + 1)
      BY <1>2, <1>10, <2>3
    <3> QED BY <1>2, <1>4, <2>3, <3>1
  <2> QED BY <1>9, <2>1, <2>2, <2>3
<1>11. /\ size' \in Seq(Sizes) /\ stream' \in Seq(Nat \X Nat) /\ pos' \in 0 .. Len(stream')
  BY <1>1, <1>2 DEF Longer
<1>12. \A i \in 1 .. Len(stream') : Framed(i)'
  BY <1>7, <1>8, <1>9
<1> QED BY <1>10, <1>11, <1>12 DEF StreamInv

(* What was delivered is still what it was.                                *)
LEMMA GivenKeeps ==
  ASSUME StreamInv, NEW n \in Sizes, Longer(n), UNCHANGED <<delivered, failed>>,
         NEW m \in Nat, m <= Len(size) + 1, Given(m)
  PROVE  Given(m)'
<1>1. Len(size) \in Nat
  BY LenProperties DEF StreamInv
<1>2. \A j \in 1 .. m - 1 : Content(j)' = Content(j)
  <2> SUFFICES ASSUME NEW j \in 1 .. m - 1
               PROVE  Content(j)' = Content(j)
    OBVIOUS
  <2>1. j \in 1 .. Len(size)
    BY <1>1
  <2> QED BY <2>1, LongerKeeps
<1>3. Readed' = Readed /\ \A i : MessageOf(i)' = MessageOf(i)
  BY DEF Readed, MessageOf
<1>4. \A i \in Readed' : MessageOf(i)' < m
  BY <1>3 DEF Given
<1>5. ASSUME failed' = 0, NEW j \in 1 .. m - 1
      PROVE  \E i \in Readed' : delivered'[i] = Content(j)'
  <2>1. PICK i \in Readed : delivered[i] = Content(j)
    BY <1>5 DEF Given
  <2> QED BY <1>2, <1>3, <2>1
<1> QED BY <1>4, <1>5 DEF Given

(* What was delivered before a byte is looked at is not changed by what    *)
(* the peer sends.                                                         *)
LEMMA PlaceKeeps ==
  ASSUME StreamInv, NEW n \in Sizes, Longer(n), UNCHANGED <<delivered, failed>>,
         NEW p \in Nat, p <= Len(stream), Place(p)
  PROVE  Place(p)'
<1> SUFFICES ASSUME NEW l, l = Len(stream), NEW s, s = Len(size)
             PROVE  Place(p)'
  OBVIOUS
<1>1. l \in Nat /\ s \in Nat /\ l < Len(stream') /\ Of(l)' = s + 1 /\ At(l)' = 1
  BY LongerKeeps
<1>2. CASE p = l
  <2>1. Given(s + 1)
    BY <1>2 DEF Place
  <2>2. Given(s + 1)'
    BY <1>1, <2>1, GivenKeeps
  <2>3. Given(Of(p))'
    BY <1>1, <1>2, <2>2 DEF Given
  <2> QED BY <1>1, <1>2, <2>3 DEF Place
<1>3. CASE p < l
  <2>1. PICK m \in 1 .. s : m = Of(p)
    BY <1>3, ByteAt
  <2>2. /\ Of(p)' = m /\ At(p)' = At(p) /\ size'[m] = size[m]
        /\ Frame(Of(p))' = Frame(Of(p))
    BY <1>3, <2>1, LongerKeeps
  <2>3. m \in Nat /\ m + 1 \in Nat /\ m <= s + 1 /\ m + 1 <= s + 1
    BY <1>1
  <2>4. p < Len(stream') /\ p # Len(stream')
    BY <1>1, <1>3
  <2>5. CASE At(p) = 1
    <3>1. Given(m)
      BY <1>3, <2>1, <2>5 DEF Place
    <3>2. Given(m)'
      BY <2>3, <3>1, GivenKeeps
    <3>3. Given(Of(p))'
      BY <2>2, <3>2 DEF Given
    <3> QED BY <2>2, <2>4, <2>5, <3>3 DEF Place
  <2>6. CASE At(p) # 1
    <3>1. Given(m + 1) /\ (failed = 0 => At(p) = Frame(Of(p)))
      BY <1>3, <2>1, <2>6 DEF Place
    <3>2. Given(m + 1)'
      BY <2>3, <3>1, GivenKeeps
    <3>3. Given(Of(p) + 1)'
      BY <2>2, <3>2 DEF Given
    <3>4. failed' = 0 => At(p)' = Frame(Of(p))'
      BY <2>2, <3>1
    <3> QED BY <2>2, <2>4, <2>6, <3>3, <3>4 DEF Place
  <2> QED BY <2>5, <2>6
<1> QED BY <1>1, <1>2, <1>3

(* Neither is what prev holds.                                             *)
LEMMA CarriesKeeps ==
  ASSUME StreamInv, NEW n \in Sizes, Longer(n), UNCHANGED <<delivered, failed, carried>>,
         NEW p \in Nat, Carries(p)
  PROVE  Carries(p)'
<1>1. p < Len(stream)
  BY DEF Carries
<1>2. PICK m \in 1 .. Len(size) : m = Of(p)
  BY <1>1, ByteAt
<1>3. /\ Of(p)' = m /\ stream'[p + 1] = stream[p + 1] /\ size'[m] = size[m]
      /\ Len(stream) < Len(stream') /\ Len(stream) \in Nat /\ Len(size) \in Nat
      /\ Len(stream') \in Nat
  BY <1>1, <1>2, LongerKeeps, LenProperties DEF Longer
<1>4. m \in Nat /\ m <= Len(size) + 1 /\ p < Len(stream')
  BY <1>1, <1>3
<1>5. Given(m)
  BY <1>2 DEF Carries
<1>6. Given(m)'
  BY <1>4, <1>5, GivenKeeps
<1>7. Given(Of(p))'
  BY <1>3, <1>6 DEF Given
<1>8. Kept' = Kept /\ prev_size' = prev_size /\ prev_remain' = prev_remain /\ prev' = prev
  BY DEF Kept, carried
<1>9. Prefix(prev, Of(p), Kept)'
  BY <1>2, <1>3, <1>8 DEF Prefix, Carries
<1> QED BY <1>2, <1>3, <1>4, <1>7, <1>8, <1>9 DEF Carries

(* What was delivered is still whole and in order.                         *)
LEMMA DeliveredKeeps ==
  ASSUME StreamInv, DeliveredInv, PeerSend
  PROVE  DeliveredInv'
<1>1. PICK n \in Sizes : Longer(n)
  BY PeerSends
<1>2. delivered' = delivered /\ failed' = failed
  BY PeerSends
<1>3. Readed' = Readed /\ \A i : MessageOf(i)' = MessageOf(i)
  BY <1>2 DEF Readed, MessageOf
<1>4. \A m \in 1 .. Len(size) : Content(m)' = Content(m)
  BY <1>1, LongerKeeps
<1>5. /\ DOMAIN size = 1 .. Len(size) /\ DOMAIN size' = 1 .. Len(size')
      /\ Len(size') = Len(size) + 1 /\ Len(size) \in Nat
  BY <1>1, LenProperties DEF Longer, StreamInv
<1>6. \A i \in Readed' : \E m \in DOMAIN size' : delivered'[i] = Content(m)'
  <2> SUFFICES ASSUME NEW i \in Readed
               PROVE  \E m \in DOMAIN size' : delivered'[i] = Content(m)'
    BY <1>3
  <2>1. PICK m \in 1 .. Len(size) : delivered[i] = Content(m)
    BY <1>5 DEF DeliveredInv, AsSent
  <2>2. m \in DOMAIN size'
    BY <1>5
  <2> QED BY <1>2, <1>4, <2>1, <2>2
<1>7. \A i, j \in Readed' : i < j => MessageOf(i)' < MessageOf(j)'
  BY <1>3 DEF DeliveredInv, AsSent
<1>8. ASSUME failed' = 0, NEW i \in Readed', NEW m \in 1 .. MessageOf(i)' - 1
      PROVE  \E j \in 1 .. i - 1 : delivered'[j] = Content(m)'
  <2>1. i \in Readed /\ m \in 1 .. MessageOf(i) - 1
    BY <1>3, <1>8
  <2>2. PICK j \in 1 .. i - 1 : delivered[j] = Content(m)
    BY <1>2, <1>8, <2>1 DEF DeliveredInv, AsSent
  <2>3. m \in 1 .. Len(size)
    <3>1. PICK b \in 1 .. Len(size) : delivered[i] = Content(b)
      BY <1>5, <2>1 DEF DeliveredInv, AsSent
    <3>2. MessageOf(i) = b
      <4>1. Content(b)[1] = <<b, HDR + 1>>
        BY ContentOf DEF StreamInv
      <4> QED BY <3>1, <4>1 DEF MessageOf
    <3> QED BY <1>5, <2>1, <3>2
  <2> QED BY <1>2, <1>4, <2>2, <2>3
<1>9. AsSent'
  <2>1. failed' = 0 => \A i \in Readed' : \A m \in 1 .. MessageOf(i)' - 1 :
                         \E j \in 1 .. i - 1 : delivered'[j] = Content(m)'
    BY <1>8
  <2> QED BY <1>6, <1>7, <2>1 DEF AsSent
<1> QED BY <1>2, <1>9 DEF DeliveredInv

(* A buffer of the request.                                                *)
LEMMA BufferAt ==
  ASSUME Buffered, NEW i \in 1 .. Len(iov)
  PROVE  iov[i].len \in 1 .. CHUNK /\ iov[i].data \in [0 .. CHUNK - 1 -> Bytes]
<1> DEFINE B == [len : 1 .. CHUNK, data : [0 .. CHUNK - 1 -> Bytes]]
<1>1. iov \in Seq(B)
  BY DEF Buffered
<1>2. iov[i] \in B
  <2> HIDE DEF B
  <2> QED BY <1>1, ElementOfSeq
<1> QED BY <1>2

(* The bytes that came, and where they are in the stream.                  *)
LEMMA ReadIs ==
  ASSUME StreamInv, Buffered
  PROVE  /\ Room \in Nat \ {0} /\ Base \in Nat /\ pos = Base + Room
         /\ pos \in 1 .. Len(stream) /\ Len(stream) \in Nat /\ Base < Len(stream)
         /\ Len(iov) \in Nat \ {0}
         /\ Len(iov) = 1 => /\ Room = iov[1].len /\ Room <= CHUNK
                            /\ iov[1].data \in [0 .. CHUNK - 1 -> Bytes]
                            /\ \A k \in 0 .. CHUNK - 1 :
                                 iov[1].data[k] = IF k < Room THEN stream[Base + k + 1]
                                                              ELSE Zero
<1>1. Len(iov) \in Nat \ {0} /\ CHUNK \in Nat /\ Len(stream) \in Nat
      /\ pos \in 0 .. Len(stream) /\ Base \in Nat
  BY LenProperties, FramingAssumption DEF Buffered, StreamInv
<1>2. \A i \in 1 .. Len(iov) : iov[i].len \in 1 .. CHUNK
                               /\ iov[i].data \in [0 .. CHUNK - 1 -> Bytes]
  BY BufferAt
<1>3. PICK x \in Nat : x = (Len(iov) - 1) * CHUNK
  <2>1. (Len(iov) - 1) * CHUNK \in Nat
    BY <1>1
  <2> QED BY <2>1
<1>4. PICK y \in 1 .. CHUNK : y = iov[Len(iov)].len
  BY <1>1, <1>2
<1>5. Room = x + y
  BY <1>3, <1>4 DEF Room
<1>6. Base = pos - Room
  BY DEF Base
<1>7. /\ Room \in Nat \ {0} /\ pos = Base + Room /\ pos \in 1 .. Len(stream)
      /\ Base < Len(stream)
  <2>1. Room \in Nat \ {0}
    <3>1. x + y \in Nat \ {0}
      BY <1>1, <1>3, <1>4
    <3> QED BY <1>5, <3>1
  <2> HIDE DEF Room
  <2>2. pos = Base + Room
    BY <1>1, <1>6, <2>1
  <2> QED BY <1>1, <2>1, <2>2
<1>8. ASSUME Len(iov) = 1
      PROVE  /\ Room = iov[1].len /\ Room <= CHUNK
             /\ iov[1].data \in [0 .. CHUNK - 1 -> Bytes]
             /\ \A k \in 0 .. CHUNK - 1 :
                  iov[1].data[k] = IF k < Room THEN stream[Base + k + 1] ELSE Zero
  <2>1. x = 0 /\ Room = y /\ y = iov[1].len
    BY <1>1, <1>3, <1>4, <1>5, <1>8
  <2>2. ASSUME NEW k \in 0 .. CHUNK - 1
        PROVE  iov[1].data[k] = IF k < Room THEN stream[Base + k + 1] ELSE Zero
    <3>1. /\ (1 - 1) * CHUNK + k = k /\ Base + (1 - 1) * CHUNK + k + 1 = Base + k + 1
          /\ 1 \in 1 .. Len(iov)
      BY <1>1, <1>8
    <3>2. iov[1].data[k] = IF (1 - 1) * CHUNK + k < Room
                             THEN stream[Base + (1 - 1) * CHUNK + k + 1] ELSE Zero
      BY <3>1 DEF Buffered
    <3> QED BY <3>1, <3>2
  <2> QED BY <1>2, <1>4, <1>8, <2>1, <2>2
<1> QED BY <1>1, <1>7, <1>8

(* The message in turn is in the read.                                     *)
LEMMA InTurn ==
  ASSUME StreamInv, Buffered, First
  PROVE  /\ Here \in Nat /\ Here < Len(stream) /\ Here < pos /\ Base <= Here
         /\ next_offset \in Nat /\ next_offset < Room /\ Here = Base + next_offset
         /\ pos = Base + Room /\ Room <= CHUNK /\ Room = iov[1].len /\ Room \in Nat
         /\ Of(Here) \in 1 .. Len(size)
<1>1. /\ Room \in Nat \ {0} /\ Base \in Nat /\ pos = Base + Room
      /\ pos \in 1 .. Len(stream) /\ Len(stream) \in Nat
      /\ Room = iov[1].len /\ Room <= CHUNK
  BY ReadIs DEF First
<1>2. next_offset \in 0 .. Room - 1 /\ Here = Base + next_offset
  BY DEF First, Here
<1>3. Here \in Nat /\ Here < Len(stream) /\ Here < pos /\ Base <= Here
  BY <1>1, <1>2
<1>4. Of(Here) \in 1 .. Len(size)
  BY <1>3, ByteAt
<1>5. next_offset \in Nat /\ next_offset < Room
  BY <1>1, <1>2
<1> QED BY <1>1, <1>2, <1>3, <1>4, <1>5

(* The peer sends a message: the stream grows behind what the reader has.  *)
LEMMA PeerSendInv ==
  ASSUME InStep, PeerSend
  PROVE  InStep'
<1>1. StreamInv /\ DeliveredInv
  BY DEF InStep
<1>2. StreamInv' /\ DeliveredInv'
  BY <1>1, StreamGrows, DeliveredKeeps
<1>3. PICK n \in Sizes : Longer(n)
  BY <1>1, PeerSends
<1>4. UNCHANGED <<pos, pc, iov, prev, prev_size, prev_remain, next_iov, next_offset,
                  chunk, delivered, failed, carried>>
  BY <1>1, PeerSends DEF carried, next
<1>5. /\ \A p \in Nat : p <= Len(stream) /\ Place(p) => Place(p)'
      /\ \A p \in Nat : Carries(p) => Carries(p)'
  BY <1>1, <1>3, <1>4, PlaceKeeps, CarriesKeeps
<1>6. /\ \A p \in Nat : p < Len(stream) => /\ stream'[p + 1] = stream[p + 1]
                                           /\ Of(p)' = Of(p) /\ At(p)' = At(p)
                                           /\ size'[Of(p)] = size[Of(p)]
                                           /\ Frame(Of(p))' = Frame(Of(p))
      /\ Len(stream) \in Nat
  BY <1>1, <1>3, LongerKeeps
<1>7. /\ Room' = Room /\ Base' = Base /\ Here' = Here /\ (NoPrev <=> NoPrev')
      /\ (HasPrev <=> HasPrev') /\ Kept' = Kept
      /\ \A k : Buffers(k)' = Buffers(k)
  BY <1>4 DEF Room, Base, Here, NoPrev, HasPrev, Kept, Buffers
<1>8. ReadInv'
  <2> SUFFICES ASSUME pc = "read"
               PROVE  ReadInv'
    BY <1>4 DEF ReadInv
  <2>1. pos \in Nat /\ pos <= Len(stream) /\ pos' = pos
    BY <1>1, <1>4, <1>6 DEF StreamInv
  <2>2. CASE NoPrev /\ iov = Buffers(CHUNK) /\ Place(pos)
    <3>1. PICK p \in Nat : p = pos /\ p' = pos'
      BY <2>1
    <3>2. Place(pos)'
      BY <1>5, <2>1, <2>2, <3>1 DEF Place, Of, At
    <3> QED BY <1>4, <1>7, <2>2, <3>2 DEF ReadInv, InStep
  <2>3. CASE HasPrev /\ iov = Buffers(prev_remain) /\ Carries(pos)
    <3>1. PICK p \in Nat : p = pos
      BY <2>1
    <3>2. Carries(p)'
      BY <1>5, <2>3, <3>1
    <3>3. Carries(pos)'
      BY <2>1, <3>1, <3>2 DEF Carries, Of
    <3> QED BY <1>4, <1>7, <2>3, <3>3 DEF ReadInv, InStep
  <2> QED BY <2>2, <2>3 DEF InStep, ReadInv
<1>9. ASSUME pc \in {"handle", "copy"}
      PROVE  /\ Buffered' /\ next_iov' = 0 /\ (Rest => Rest') /\ (First => First')
             /\ First \/ Rest
  <2>1. Buffered /\ next_iov = 0 /\ (First \/ Rest)
    BY <1>9 DEF InStep, HandleInv
  <2>2. /\ Room \in Nat \ {0} /\ Base \in Nat /\ pos = Base + Room /\ Len(iov) \in Nat \ {0}
        /\ pos \in 1 .. Len(stream) /\ Base < Len(stream)
    BY <1>1, <2>1, ReadIs
  <2>3. Buffered'
    <3>1. ASSUME NEW i \in 1 .. Len(iov), NEW k \in 0 .. CHUNK - 1
          PROVE  iov'[i].data[k] = IF (i - 1) * CHUNK + k < Room'
                                     THEN stream'[Base' + (i - 1) * CHUNK + k + 1] ELSE Zero
      <4>1. iov[i].data[k] = IF (i - 1) * CHUNK + k < Room
                               THEN stream[Base + (i - 1) * CHUNK + k + 1] ELSE Zero
        BY <2>1 DEF Buffered
      <4>2. PICK x \in Nat : x = (i - 1) * CHUNK
        <5>1. (i - 1) * CHUNK \in Nat
          BY <2>2, FramingAssumption
        <5> QED BY <5>1
      <4>3. CASE x + k < Room
        <5>1. Base + x + k \in Nat /\ Base + x + k < Len(stream)
          BY <2>2, <4>2, <4>3, FramingAssumption
        <5>2. stream'[Base + x + k + 1] = stream[Base + x + k + 1]
          BY <1>6, <5>1
        <5> QED BY <1>4, <1>7, <4>1, <4>2, <4>3, <5>2
      <4>4. CASE ~(x + k < Room)
        BY <1>4, <1>7, <4>1, <4>2, <4>4
      <4> QED BY <4>3, <4>4
    <3> QED BY <1>4, <1>7, <2>1, <3>1 DEF Buffered
  <2>4. ASSUME First
        PROVE  First'
    <3>1. /\ Here \in Nat /\ Here < Len(stream)
      BY <1>1, <2>1, <2>4, InTurn
    <3>2. PICK p \in Nat : p = Here /\ p < Len(stream)
      BY <3>1
    <3>3. Place(Here)'
      <4>1. Place(p)'
        BY <1>5, <1>6, <2>4, <3>2 DEF First
      <4> QED BY <1>7, <3>2, <4>1 DEF Place, Of, At
    <3>4. At(Here)' = At(Here) /\ Frame(Of(Here))' = Frame(Of(Here))
      BY <1>6, <1>7, <3>2 DEF At, Of
    <3>5. CutRight'
      <4>1. PICK b \in Nat : b = Base /\ b < Len(stream)
        BY <2>2
      <4>2. Of(Base)' = Of(Base)
        BY <1>6, <1>7, <4>1 DEF Of
      <4>3. PICK q \in Nat : q + 1 = pos /\ q < Len(stream)
        <5>1. pos - 1 \in Nat /\ (pos - 1) + 1 = pos /\ pos - 1 < Len(stream)
          BY <1>6, <2>2
        <5> QED BY <5>1
      <4>4. stream'[pos'] = stream[pos] /\ size'[stream[pos][1]] = size[stream[pos][1]]
        BY <1>4, <1>6, <4>3 DEF Of
      <4> QED BY <1>4, <1>7, <2>4, <4>2, <4>4 DEF CutRight, First
    <3> QED BY <1>4, <1>7, <2>4, <3>3, <3>4, <3>5 DEF First
  <2>5. ASSUME Rest
        PROVE  Rest'
    <3>1. PICK b \in Nat : b = Base
      BY <2>2
    <3>2. Carries(b)'
      BY <1>5, <2>5, <3>1 DEF Rest
    <3>3. Carries(Base)'
      BY <1>7, <3>1, <3>2 DEF Carries, Of
    <3> QED BY <1>4, <1>7, <2>5, <3>3 DEF Rest
  <2> QED BY <1>4, <2>1, <2>3, <2>4, <2>5
<1>10. HandleInv'
  BY <1>4, <1>9 DEF HandleInv
<1>11. ASSUME pc = "copy"
       PROVE  CopyInv'
  <2>1. Buffered /\ pc \in {"handle", "copy"}
    BY <1>11 DEF InStep, HandleInv
  <2>2. chunk \in Chunks /\ chunk.i <= Len(iov)
    BY <1>11 DEF InStep, CopyInv
  <2>3. CASE First /\ CopyFirst
    <3>1. PICK p \in Nat : p = Here /\ p < Len(stream)
      BY <1>1, <2>1, <2>3, InTurn
    <3>2. /\ Of(Here)' = Of(Here) /\ At(Here)' = At(Here) /\ size'[Of(Here)] = size[Of(Here)]
      BY <1>6, <1>7, <3>1 DEF Of, At
    <3>3. Prefix(chunk.dest, Of(Here), chunk.o_s)'
      BY <1>4, <2>3, <3>2 DEF CopyFirst, Prefix
    <3>4. CopyFirst'
      BY <1>4, <1>7, <2>3, <3>2, <3>3 DEF CopyFirst, Smaller
    <3> QED BY <1>4, <1>9, <2>1, <2>2, <2>3, <3>4 DEF CopyInv
  <2>4. CASE First /\ CopyNone
    <3>1. PICK p \in Nat : p = Here /\ p < Len(stream)
      BY <1>1, <2>1, <2>4, InTurn
    <3>2. At(Here)' = At(Here)
      BY <1>6, <1>7, <3>1 DEF At
    <3>3. CopyNone'
      BY <1>4, <2>4, <3>2 DEF CopyNone
    <3> QED BY <1>4, <1>9, <2>1, <2>2, <2>4, <3>3 DEF CopyInv
  <2>5. CASE Rest /\ CopyRest
    <3>1. PICK b \in Nat : b = Base /\ b < Len(stream)
      BY <1>1, <2>1, ReadIs
    <3>2. Of(Base)' = Of(Base) /\ size'[Of(Base)] = size[Of(Base)]
      BY <1>6, <1>7, <3>1 DEF Of
    <3>3. Prefix(chunk.dest, Of(Base), chunk.o_s)'
      BY <1>4, <2>5, <3>2 DEF CopyRest, Prefix
    <3>4. CopyRest'
      BY <1>4, <1>7, <2>5, <3>3 DEF CopyRest
    <3> QED BY <1>4, <1>9, <2>1, <2>2, <2>5, <3>4 DEF CopyInv
  <2> QED BY <1>11, <2>3, <2>4, <2>5 DEF InStep, CopyInv
<1>12. CopyInv'
  BY <1>4, <1>11 DEF CopyInv
<1> QED BY <1>2, <1>4, <1>8, <1>10, <1>12 DEF InStep
-----------------------------------------------------------------------------
(* A read comes.                                                           *)

(* The buffers of a request for s bytes have room for s bytes.             *)
LEMMA BuffersAre ==
  ASSUME NEW s \in Nat \ {0}
  PROVE  \E c \in Nat \ {0}, l \in 1 .. CHUNK :
           /\ Len(Buffers(s)) = c /\ DOMAIN Buffers(s) = 1 .. c
           /\ l = IF s % CHUNK # 0 THEN s % CHUNK ELSE CHUNK
           /\ s = (c - 1) * CHUNK + l
           /\ \A i \in 1 .. c : Buffers(s)[i].len = IF i = c THEN l ELSE CHUNK
<1>1. CHUNK \in Nat \ {0}
  BY FramingAssumption
<1>2. PICK c \in Nat \ {0}, l \in 1 .. CHUNK :
        /\ c = (s + CHUNK - 1) \div CHUNK
        /\ l = IF s % CHUNK # 0 THEN s % CHUNK ELSE CHUNK
        /\ s = (c - 1) * CHUNK + l
  BY <1>1, Shared, Zenon
<1>3. Buffers(s) = [i \in 1 .. c |->
        [len  |-> IF i = c /\ s % CHUNK # 0 THEN s % CHUNK ELSE CHUNK,
         data |-> [k \in 0 .. CHUNK - 1 |-> Zero]]]
  BY <1>2, Zenon DEF Buffers
<1>4. \A i \in 1 .. c :
        (IF i = c /\ s % CHUNK # 0 THEN s % CHUNK ELSE CHUNK) = IF i = c THEN l ELSE CHUNK
  BY <1>2
<1>5. /\ Len(Buffers(s)) = c /\ DOMAIN Buffers(s) = 1 .. c
      /\ \A i \in 1 .. c : Buffers(s)[i].len = IF i = c THEN l ELSE CHUNK
  <2> DEFINE L(i) == IF i = c /\ s % CHUNK # 0 THEN s % CHUNK ELSE CHUNK
             F == [k \in 0 .. CHUNK - 1 |-> Zero]
  <2>1. Buffers(s) = [i \in 1 .. c |-> [len |-> L(i), data |-> F]] /\ c \in Nat
    BY <1>3
  <2> HIDE DEF L, F
  <2>2. /\ Len(Buffers(s)) = c /\ DOMAIN Buffers(s) = 1 .. c
        /\ \A i \in 1 .. c : Buffers(s)[i].len = L(i)
    BY <2>1
  <2> QED BY <1>4, <2>2, Zenon DEF L
<1> QED BY <1>2, <1>5, Zenon

(* n bytes come to buffers for c times CHUNK bytes, the last of which gets *)
(* l.                                                                      *)
Sized(n, c, l) ==
  /\ n = (c - 1) * CHUNK + l /\ l = IF n % CHUNK # 0 THEN n % CHUNK ELSE CHUNK
  /\ Len(iov) = c /\ DOMAIN iov = 1 .. c /\ \A i \in 1 .. c - 1 : iov[i].len = CHUNK

Came(n) ==
  /\ pos' = pos + n /\ stream' = stream
  /\ iov' = [i \in DOMAIN iov |->
       [len  |-> IF i = Len(iov)
                   THEN IF n % CHUNK = 0 THEN CHUNK ELSE n % CHUNK
                   ELSE iov[i].len,
        data |-> [k \in 0 .. CHUNK - 1 |->
                    IF (i - 1) * CHUNK + k < n
                      THEN stream[pos + (i - 1) * CHUNK + k + 1]
                      ELSE Zero]]]

(* The n bytes that came are what the buffers hold.                        *)
LEMMA CameIn ==
  ASSUME StreamInv, NEW n \in Nat \ {0}, pos + n <= Len(stream),
         NEW c \in Nat \ {0}, NEW l \in 1 .. CHUNK, Sized(n, c, l), Came(n)
  PROVE  Buffered' /\ Room' = n /\ Base' = pos /\ Len(iov') = c
<1>1. /\ CHUNK \in Nat \ {0} /\ pos \in Nat /\ Len(stream) \in Nat
      /\ stream \in Seq(Nat \X Nat)
  BY LenProperties, FramingAssumption DEF StreamInv
<1> DEFINE D(i) == [k \in 0 .. CHUNK - 1 |-> IF (i - 1) * CHUNK + k < n
                                               THEN stream[pos + (i - 1) * CHUNK + k + 1]
                                               ELSE Zero]
           L(i) == IF i = c THEN l ELSE CHUNK
<1>2. iov' = [i \in 1 .. c |-> [len |-> L(i), data |-> D(i)]]
  <2>1. ASSUME NEW i \in 1 .. c
        PROVE  [len  |-> IF i = Len(iov) THEN IF n % CHUNK = 0 THEN CHUNK ELSE n % CHUNK
                                         ELSE iov[i].len,
                data |-> D(i)] = [len |-> L(i), data |-> D(i)]
    <3>1. i # c => i \in 1 .. c - 1
      OBVIOUS
    <3>2. (IF i = Len(iov) THEN IF n % CHUNK = 0 THEN CHUNK ELSE n % CHUNK
                           ELSE iov[i].len) = L(i)
      BY <3>1 DEF Sized
    <3> HIDE DEF D, L
    <3> QED BY <3>2
  <2>2. iov' = [i \in 1 .. c |->
          [len  |-> IF i = Len(iov) THEN IF n % CHUNK = 0 THEN CHUNK ELSE n % CHUNK
                                    ELSE iov[i].len,
           data |-> D(i)]]
    BY Zenon DEF Came, Sized
  <2> HIDE DEF L, D
  <2> QED BY <2>1, <2>2, Zenon
<1>3. \A i \in 1 .. c : L(i) \in 1 .. CHUNK
  BY <1>1
<1>4. ASSUME NEW i \in 1 .. c
      PROVE  D(i) \in [0 .. CHUNK - 1 -> Bytes]
  <2>1. PICK x \in Nat : x = (i - 1) * CHUNK
    <3>1. (i - 1) * CHUNK \in Nat
      BY <1>1
    <3> QED BY <3>1
  <2>2. ASSUME NEW k \in 0 .. CHUNK - 1
        PROVE  (IF x + k < n THEN stream[pos + x + k + 1] ELSE Zero) \in Bytes
    <3>1. CASE x + k < n
      <4>1. pos + x + k + 1 \in 1 .. Len(stream)
        <5> HIDE DEF D, L
        <5> QED BY <1>1, <3>1
      <4>2. stream[pos + x + k + 1] \in Nat \X Nat
        BY <1>1, <4>1, ElementOfSeq
      <4> QED BY <3>1, <4>2 DEF Bytes
    <3>2. CASE ~(x + k < n)
      BY <3>2 DEF Bytes
    <3> QED BY <3>1, <3>2
  <2>3. D(i) = [k \in 0 .. CHUNK - 1 |-> IF x + k < n THEN stream[pos + x + k + 1] ELSE Zero]
    BY <2>1
  <2> HIDE DEF D
  <2> QED BY <2>2, <2>3
<1>5. iov' \in Seq([len : 1 .. CHUNK, data : [0 .. CHUNK - 1 -> Bytes]]) /\ Len(iov') = c
  <2> DEFINE B == [len : 1 .. CHUNK, data : [0 .. CHUNK - 1 -> Bytes]]
  <2> HIDE DEF L, D
  <2>1. \A i \in 1 .. c : [len |-> L(i), data |-> D(i)] \in B
    BY <1>3, <1>4
  <2>2. c \in Nat
    OBVIOUS
  <2> HIDE DEF B
  <2>3. iov' \in Seq(B) /\ Len(iov') = c
    <3> DEFINE E(i) == [len |-> L(i), data |-> D(i)]
    <3>1. \A i \in 1 .. c : E(i) \in B
      BY <2>1
    <3>2. iov' = [i \in 1 .. c |-> E(i)]
      BY <1>2
    <3> HIDE DEF E
    <3> QED BY <2>2, <3>1, <3>2
  <2> QED BY <2>3 DEF B
<1>6. \A i \in 1 .. c : iov'[i].len = L(i) /\ iov'[i].data = D(i)
  <2> HIDE DEF L, D
  <2> QED BY <1>2
<1>7. Room' = n
  <2>1. c \in 1 .. c
    OBVIOUS
  <2> HIDE DEF D
  <2>2. iov'[c].len = l
    BY <1>6, <2>1
  <2>3. n = (c - 1) * CHUNK + l
    BY DEF Sized
  <2>4. Room' = (c - 1) * CHUNK + l
    BY <1>5, <2>2, Zenon DEF Room
  <2> QED BY <2>3, <2>4
<1>8. Base' = pos
  <2>1. pos' - n = pos
    BY <1>1 DEF Came
  <2> QED BY <1>7, <2>1, Zenon DEF Base
<1>9. \A i \in 1 .. c - 1 : iov'[i].len = CHUNK
  <2> HIDE DEF D
  <2> QED BY <1>6
<1>10. \A i \in 1 .. c : \A k \in 0 .. CHUNK - 1 :
         iov'[i].data[k] = IF (i - 1) * CHUNK + k < n
                             THEN stream[pos + (i - 1) * CHUNK + k + 1] ELSE Zero
  <2> HIDE DEF L
  <2> QED BY <1>6
<1>11. c > 0 /\ Base' \in Nat /\ stream' = stream
  BY <1>1, <1>8 DEF Came
<1> HIDE DEF D, L
<1> QED BY <1>5, <1>7, <1>8, <1>9, <1>10, <1>11, Zenon DEF Buffered

(* What was delivered stays what it is.                                    *)
LEMMA DeliveredStays ==
  ASSUME DeliveredInv, UNCHANGED <<size, delivered, failed>>
  PROVE  DeliveredInv'
<1>1. /\ Readed' = Readed /\ \A i : MessageOf(i)' = MessageOf(i)
      /\ \A m : Content(m)' = Content(m)
  BY DEF Readed, MessageOf, Content
<1>2. \A i \in Readed' : \E m \in DOMAIN size' : delivered'[i] = Content(m)'
  BY <1>1 DEF DeliveredInv, AsSent
<1>3. \A i, j \in Readed' : i < j => MessageOf(i)' < MessageOf(j)'
  BY <1>1 DEF DeliveredInv, AsSent
<1>4. failed' = 0 => \A i \in Readed' : \A m \in 1 .. MessageOf(i)' - 1 :
                       \E j \in 1 .. i - 1 : delivered'[j] = Content(m)'
  BY <1>1 DEF DeliveredInv, AsSent
<1>5. AsSent'
  BY <1>2, <1>3, <1>4 DEF AsSent
<1> QED BY <1>5 DEF DeliveredInv

(* What is in the last of c buffers when n bytes fill the others.          *)
LEMMA LastHas ==
  ASSUME NEW b \in Nat \ {0}, NEW c \in Nat \ {0}, NEW l \in 1 .. b, NEW n \in Nat,
         n = (c - 1) * b + l
  PROVE  l = IF n % b # 0 THEN n % b ELSE b
<1>1. CASE l = b
  <2>1. (c - 1) * b + b = c * b
    OBVIOUS
  <2>2. n = c * b + 0 /\ 0 \in 0 .. b - 1 /\ c \in Nat
    BY <1>1, <2>1
  <2>3. n % b = 0
    BY <2>2, QuotientIs
  <2> QED BY <1>1, <2>3
<1>2. CASE l # b
  <2>1. l \in 0 .. b - 1 /\ c - 1 \in Nat
    BY <1>2
  <2>2. n % b = l
    BY <2>1, QuotientIs
  <2> QED BY <2>2
<1> QED BY <1>1, <1>2

(* A read comes that read_chunk can follow.                                *)
LEMMA CompletionInv ==
  ASSUME InStep, Completion, ~torn'
  PROVE  InStep'
<1>1. StreamInv /\ DeliveredInv /\ pc = "read" /\ (failed = 0 => pc # "lost")
  BY DEF InStep, Completion
<1>2. next_iov = 0 /\ next_offset = 0
      /\ \/ NoPrev /\ iov = Buffers(CHUNK) /\ Place(pos)
         \/ HasPrev /\ iov = Buffers(prev_remain) /\ Carries(pos)
  BY <1>1 DEF InStep, ReadInv
<1>3. /\ pc' = "handle" /\ UNCHANGED <<size, stream, carried, next, chunk, delivered, failed>>
  BY DEF Completion
<1>4. UNCHANGED <<prev, prev_size, prev_remain, next_iov, next_offset>>
  BY <1>3 DEF carried, next
<1>5. PICK n \in Amounts : Follows(n) /\ Came(n)
  BY <1>3 DEF Completion, Came
<1>6. PICK s \in Nat \ {0} : /\ iov = Buffers(s)
                             /\ \/ NoPrev /\ s = CHUNK /\ Place(pos)
                                \/ HasPrev /\ s = prev_remain /\ Carries(pos)
  <2>1. CASE NoPrev /\ iov = Buffers(CHUNK) /\ Place(pos)
    <3>1. CHUNK \in Nat \ {0}
      BY FramingAssumption
    <3> QED BY <2>1, <3>1
  <2>2. CASE HasPrev /\ iov = Buffers(prev_remain) /\ Carries(pos)
    <3>1. prev_remain \in Nat \ {0}
      BY <2>2 DEF HasPrev, Carries
    <3> QED BY <2>2, <3>1
  <2> QED BY <1>2, <2>1, <2>2
<1>7. PICK c \in Nat \ {0}, l \in 1 .. CHUNK :
        /\ Len(iov) = c /\ DOMAIN iov = 1 .. c
        /\ l = IF s % CHUNK # 0 THEN s % CHUNK ELSE CHUNK
        /\ s = (c - 1) * CHUNK + l
        /\ \A i \in 1 .. c : iov[i].len = IF i = c THEN l ELSE CHUNK
  <2>1. iov = Buffers(s)
    BY <1>6
  <2>2. PICK c \in Nat \ {0}, l \in 1 .. CHUNK :
          /\ Len(Buffers(s)) = c /\ DOMAIN Buffers(s) = 1 .. c
          /\ l = IF s % CHUNK # 0 THEN s % CHUNK ELSE CHUNK
          /\ s = (c - 1) * CHUNK + l
          /\ \A i \in 1 .. c : Buffers(s)[i].len = IF i = c THEN l ELSE CHUNK
    BY BuffersAre, Zenon
  <2>3. /\ Len(iov) = c /\ DOMAIN iov = 1 .. c
        /\ \A i \in 1 .. c : iov[i].len = IF i = c THEN l ELSE CHUNK
    BY <2>1, <2>2
  <2> QED BY <2>2, <2>3, Zenon
<1>8. Room = s
  <2>1. c \in 1 .. c
    BY <1>7
  <2>2. iov[Len(iov)].len = l
    BY <1>7, <2>1
  <2> QED BY <1>7, <2>2 DEF Room
<1>9. /\ pos \in Nat /\ Len(stream) \in Nat /\ pos <= Len(stream)
      /\ n \in Nat \ {0} /\ n <= s /\ pos + n <= Len(stream)
  <2>1. pos \in Nat /\ Len(stream) \in Nat /\ pos <= Len(stream)
    BY <1>1, LenProperties DEF StreamInv
  <2>2. PICK a \in Nat : a = Smaller(Room, Available) /\ a <= s /\ pos + a <= Len(stream)
    <3>1. PICK left \in Nat : left = Available /\ pos + left = Len(stream)
      BY <2>1 DEF Available
    <3>2. Smaller(Room, Available) = IF s < left THEN s ELSE left
      BY <1>8, <3>1 DEF Smaller
    <3>3. CASE s < left
      BY <2>1, <3>1, <3>2, <3>3
    <3>4. CASE ~(s < left)
      BY <2>1, <3>1, <3>2, <3>4
    <3> QED BY <3>3, <3>4
  <2>3. n \in 1 .. a
    BY <1>5, <2>2 DEF Amounts
  <2> QED BY <2>1, <2>2, <2>3
<1>10. IF prev # NULL THEN n > (c - 1) * CHUNK
       ELSE \/ n = 1 /\ At(pos) = Frame(Of(pos))
            \/ /\ At(pos) = 1
               /\ \/ stream[pos + n][2] >= HDR + size[stream[pos + n][1]]
                  \/ /\ stream[pos + n][1] = Of(pos)
                     /\ HDR <= n /\ n < size[Of(pos)]
  <2>1. IF prev # NULL THEN n > (Len(iov) - 1) * CHUNK
        ELSE \/ n = 1 /\ At(pos) = Frame(Of(pos))
             \/ /\ At(pos) = 1
                /\ \/ stream[pos + n][2] >= HDR + size[stream[pos + n][1]]
                   \/ /\ stream[pos + n][1] = Of(pos)
                      /\ HDR <= n /\ n < size[Of(pos)]
    <3>1. Follows(n)
      BY <1>5
    <3> QED BY <3>1 DEF Follows, Of, At
  <2> QED BY <1>7, <2>1, Zenon
<1>11. /\ pos' = pos + n /\ stream' = stream
       /\ \A i \in 1 .. c - 1 : iov[i].len = CHUNK
  <2>1. \A i \in 1 .. c - 1 : i \in 1 .. c /\ i # c
    BY <1>7
  <2>2. \A i \in 1 .. c - 1 : iov[i].len = CHUNK
    BY <1>7, <2>1, Zenon
  <2> QED BY <1>5, <2>2 DEF Came
<1>12. StreamInv'
  <2>1. pos' \in 0 .. Len(stream')
    BY <1>3, <1>5, <1>9 DEF Came
  <2>2. \A i : Framed(i)' = Framed(i)
    BY <1>3 DEF Framed, FrameAt, Frame
  <2> QED BY <1>1, <1>3, <2>1, <2>2 DEF StreamInv
<1>13. DeliveredInv'
  BY <1>1, <1>3, DeliveredStays
<1>14. \A p \in Nat : /\ Place(p)' = Place(p) /\ Carries(p)' = Carries(p)
                      /\ Of(p)' = Of(p) /\ At(p)' = At(p)
  BY <1>3, <1>4 DEF Place, Given, Readed, MessageOf, Content, Of, At, Frame, Carries,
                    Prefix, Kept
<1>15. /\ NoPrev <=> NoPrev'
       /\ HasPrev <=> HasPrev'
  BY <1>4 DEF NoPrev, HasPrev
<1>16. CASE NoPrev /\ s = CHUNK /\ Place(pos)
  <2>1. CHUNK \in Nat \ {0}
    BY FramingAssumption
  <2>2. c = 1
    <3>1. ~(1 < c)
      <4> SUFFICES ASSUME 1 < c
                   PROVE  FALSE
        OBVIOUS
      <4>1. 0 * CHUNK + CHUNK <= (c - 1) * CHUNK
        BY <2>1, Multiples
      <4>2. PICK x \in Int : x = (c - 1) * CHUNK
        <5>1. (c - 1) * CHUNK \in Int
          BY <2>1
        <5> QED BY <5>1
      <4>3. s = x + l /\ s = CHUNK
        BY <1>7, <1>16, <4>2, Zenon
      <4>4. CHUNK <= x
        <5>1. 0 * CHUNK + CHUNK = CHUNK
          BY <2>1
        <5>2. 0 * CHUNK + CHUNK <= x
          BY <4>1, <4>2, Zenon
        <5> QED BY <5>1, <5>2, Zenon
      <4> QED BY <2>1, <4>3, <4>4
    <3> QED BY <3>1
  <2>3. n \in 1 .. CHUNK /\ Sized(n, c, n)
    <3>1. n \in 1 .. CHUNK /\ n = (c - 1) * CHUNK + n
      BY <1>9, <1>16, <2>1, <2>2
    <3>2. n = IF n % CHUNK # 0 THEN n % CHUNK ELSE CHUNK
      BY <1>9, <2>1, <3>1, LastHas
    <3>3. Len(iov) = c /\ DOMAIN iov = 1 .. c /\ \A i \in 1 .. c - 1 : iov[i].len = CHUNK
      BY <1>7, <1>11
    <3> QED BY <3>1, <3>2, <3>3 DEF Sized
  <2>4. Buffered' /\ Room' = n /\ Base' = pos /\ Len(iov') = 1
    BY <1>1, <1>5, <1>9, <2>2, <2>3, CameIn
  <2>5. Here' = pos /\ next_offset' = 0 /\ next_iov' = 0
    BY <1>2, <1>4, <1>9, <2>4 DEF Here
  <2>6. Place(Here)'
    <3>1. PICK p \in Nat : p = pos
      BY <1>9
    <3>2. Place(p)'
      BY <1>14, <1>16, <3>1
    <3> QED BY <2>5, <3>1, <3>2 DEF Place, Of, At
  <2>7. PICK p \in Nat : p = pos /\ p < Len(stream)
    BY <1>9
  <2>8. /\ At(Here)' = At(p) /\ Of(Here)' = Of(p) /\ Of(Base)' = Of(p)
        /\ Frame(Of(Here))' = Frame(Of(p)) /\ stream' = stream /\ size' = size
        /\ Frame(Of(p)) = HDR + size[Of(p)] + 1 /\ size[Of(p)] \in Nat /\ HDR \in Nat
        /\ stream[p + 1] = <<Of(p), At(p)>>
    BY <1>1, <1>3, <2>4, <2>5, <2>7, ByteAt, FramingAssumption DEF At, Of, Frame
  <2>9. prev = NULL
    BY <1>16 DEF NoPrev
  <2>10. CutRight' /\ (At(Here)' # 1 => Room' = 1 /\ At(Here)' = Frame(Of(Here))')
    <3>1. CASE n = 1 /\ At(p) = Frame(Of(p))
      <4>1. stream'[pos'] = <<Of(p), At(p)>>
        BY <1>11, <2>7, <2>8, <3>1
      <4>2. At(p) >= HDR + size[Of(p)]
        BY <2>8, <3>1
      <4>3. CutRight'
        BY <2>8, <4>1, <4>2 DEF CutRight
      <4> QED BY <2>4, <2>8, <3>1, <4>3
    <3>2. CASE At(p) = 1 /\ stream[p + n][2] >= HDR + size[stream[p + n][1]]
      BY <1>11, <2>7, <2>8, <3>2 DEF CutRight
    <3>3. CASE /\ At(p) = 1 /\ stream[p + n][1] = Of(p)
               /\ HDR <= n /\ n < size[Of(p)]
      BY <1>11, <2>4, <2>5, <2>7, <2>8, <3>3 DEF CutRight
    <3> QED BY <1>10, <2>7, <2>9, <3>1, <3>2, <3>3
  <2>11. First'
    <3>1. next_offset' \in 0 .. Room' - 1
      BY <1>9, <2>4, <2>5
    <3> QED BY <1>15, <1>16, <2>4, <2>6, <2>10, <3>1 DEF First
  <2> QED BY <1>1, <1>3, <1>12, <1>13, <2>4, <2>5, <2>11
          DEF InStep, ReadInv, HandleInv, CopyInv
<1>17. CASE HasPrev /\ s = prev_remain /\ Carries(pos)
  <2>1. CHUNK \in Nat \ {0} /\ prev # NULL
    BY <1>17, FramingAssumption DEF HasPrev
  <2>2. Buffered' /\ Room' = n /\ Base' = pos /\ Len(iov') = c
    <3>1. PICK x \in Nat : x = (c - 1) * CHUNK
      <4>1. (c - 1) * CHUNK \in Nat
        BY <2>1
      <4> QED BY <4>1
    <3>2. PICK k \in 1 .. CHUNK : n = x + k
      <4>1. n > x /\ n <= s /\ s = x + l
        BY <1>7, <1>9, <1>10, <2>1, <3>1
      <4>2. n - x \in 1 .. CHUNK /\ n = x + (n - x)
        BY <1>9, <2>1, <4>1
      <4> QED BY <4>2
    <3>3. n = (c - 1) * CHUNK + k
      BY <3>1, <3>2
    <3>4. k = IF n % CHUNK # 0 THEN n % CHUNK ELSE CHUNK
      <4>1. n \in Nat
        BY <1>9
      <4> QED BY <2>1, <3>3, <4>1, LastHas
    <3>5. Sized(n, c, k)
      BY <1>7, <1>11, <3>3, <3>4 DEF Sized
    <3> QED BY <1>1, <1>5, <1>9, <3>5, CameIn
  <2>3. Carries(Base)'
    <3>1. PICK p \in Nat : p = pos
      BY <1>9
    <3>2. Carries(p)'
      BY <1>14, <1>17, <3>1
    <3> QED BY <2>2, <3>1, <3>2 DEF Carries, Of
  <2>4. Rest'
    BY <1>2, <1>4, <1>9, <1>15, <1>17, <2>2, <2>3 DEF Rest
  <2> QED BY <1>1, <1>2, <1>3, <1>4, <1>12, <1>13, <2>2, <2>4
          DEF InStep, ReadInv, HandleInv, CopyInv
<1> QED BY <1>6, <1>16, <1>17


-----------------------------------------------------------------------------
(* The loop of handle_read.                                                *)

(* The body of a message that starts in the read is in it, or its size is  *)
(* more than all that came.                                                *)
LEMMA WholeOrLong ==
  ASSUME StreamInv, Buffered, First, At(Here) = 1, NEW m, m = Of(Here)
  PROVE  /\ Frame(m) = HDR + size[m] + 1 /\ size[m] \in Nat \ {0}
         /\ HDR \in Nat \ {0} /\ CHUNK \in Nat /\ CHUNK > HDR + 1
         /\ \/ next_offset + HDR + size[m] <= Room
            \/ next_offset = 0 /\ HDR <= Room /\ Room < size[m]
<1>1. /\ Here \in Nat /\ Here < Len(stream) /\ Here < pos /\ next_offset \in Nat
      /\ Here = Base + next_offset /\ pos = Base + Room /\ Room \in Nat /\ Base \in Nat
      /\ Room <= CHUNK /\ pos \in Nat
  BY InTurn, ReadIs
<1>2. /\ m \in 1 .. Len(size) /\ Frame(m) = HDR + size[m] + 1
      /\ size[m] \in Nat \ {0} /\ size[m] \in Sizes
      /\ HDR \in Nat \ {0} /\ CHUNK \in Nat /\ CHUNK > HDR + 1
  BY <1>1, ByteAt, FramingAssumption
<1>3. CASE stream[pos][2] >= HDR + size[stream[pos][1]]
  <2> SUFFICES ASSUME Room < next_offset + HDR + size[m]
               PROVE  FALSE
    BY <1>1, <1>2
  <2>1. PICK d \in Nat : pos = Here + d + 1 /\ d + 1 < HDR + size[m]
    <3>1. pos - Here - 1 \in Nat /\ pos = Here + (pos - Here - 1) + 1
      BY <1>1
    <3>2. (pos - Here - 1) + 1 < HDR + size[m]
      BY <1>1, <1>2
    <3> QED BY <3>1, <3>2
  <2>2. At(Here) + d <= Frame(Of(Here)) /\ At(Here) + d = d + 1
    BY <1>2, <2>1
  <2>3. stream[pos] = <<m, d + 1>>
    <3>1. stream[Here + d + 1] = <<m, At(Here) + d>>
      BY <1>1, <2>1, <2>2, BytesFollow
    <3> QED BY <2>1, <2>2, <3>1
  <2> QED BY <1>2, <1>3, <2>1, <2>3
<1>4. CASE /\ next_offset = 0 /\ stream[pos][1] = Of(Base)
           /\ HDR <= Room /\ Room < size[stream[pos][1]]
  <2>1. Base = Here
    BY <1>1, <1>4
  <2> QED BY <1>2, <1>4, <2>1
<1> QED BY <1>2, <1>3, <1>4 DEF First, CutRight

(* The bytes of the only buffer.                                           *)
LEMMA InBuffer ==
  ASSUME StreamInv, Buffered, First, NEW k \in Nat, k < CHUNK
  PROVE  iov[1].data[k] = IF k < Room THEN stream[Base + k + 1] ELSE Zero
<1>1. k \in 0 .. CHUNK - 1
  BY FramingAssumption
<1> QED BY <1>1, ReadIs DEF First

(* The size read is that of the message, or zero from its terminator.      *)
LEMMA HeaderIs ==
  ASSUME StreamInv, Buffered, First, next_iov = 0
  PROVE  /\ At(Here) = 1 => Header = size[Of(Here)]
         /\ At(Here) # 1 => Header = 0 /\ Room = 1 /\ next_offset = 0
<1> DEFINE m == Of(Here)
           h == HeaderAt
<1>1. /\ Here \in Nat /\ Here < Len(stream) /\ Here < pos /\ next_offset \in Nat
      /\ Here = Base + next_offset /\ pos = Base + Room /\ Room \in Nat \ {0}
      /\ Base \in Nat /\ Room <= CHUNK /\ pos \in 1 .. Len(stream) /\ Len(stream) \in Nat
  BY InTurn, ReadIs
<1>2. /\ m \in 1 .. Len(size) /\ Frame(m) = HDR + size[m] + 1 /\ At(Here) \in 1 .. Frame(m)
      /\ size[m] \in Nat \ {0} /\ stream[Here + 1] = <<m, At(Here)>> /\ Len(size) \in Nat
      /\ HDR \in Nat \ {0} /\ CHUNK \in Nat /\ CHUNK > HDR + 1
      /\ Zero # Raw /\ Zero \notin Nat \X Nat /\ Raw \notin Nat \X Nat
  BY <1>1, ByteAt, FramingAssumption
<1> HIDE DEF m
<1>3. h = [k \in 1 .. HDR |-> IF next_offset + k - 1 < CHUNK
                                THEN iov[1].data[next_offset + k - 1] ELSE Raw]
  BY DEF HeaderAt
<1> HIDE DEF h
<1>4. \A k \in 1 .. HDR :
        h[k] = IF next_offset + k - 1 < Room THEN stream[Here + k]
               ELSE IF next_offset + k - 1 < CHUNK THEN Zero ELSE Raw
  <2> SUFFICES ASSUME NEW k \in 1 .. HDR
               PROVE  h[k] = IF next_offset + k - 1 < Room THEN stream[Here + k]
                             ELSE IF next_offset + k - 1 < CHUNK THEN Zero ELSE Raw
    OBVIOUS
  <2>1. PICK j \in Nat : j = next_offset + k - 1
    <3>1. next_offset + k - 1 \in Nat
      BY <1>1, <1>2
    <3> QED BY <3>1
  <2>2. h[k] = IF j < CHUNK THEN iov[1].data[j] ELSE Raw
    BY <1>3, <2>1
  <2>3. j < CHUNK => iov[1].data[j] = IF j < Room THEN stream[Base + j + 1] ELSE Zero
    BY <2>1, InBuffer
  <2>4. Base + j + 1 = Here + k
    BY <1>1, <1>2, <2>1
  <2>5. j < Room => j < CHUNK
    BY <1>1, <1>2, <2>1
  <2> QED BY <2>1, <2>2, <2>3, <2>4, <2>5
<1>5. 1 \in 1 .. HDR /\ h[1] = <<m, At(Here)>>
  <2>1. 1 \in 1 .. HDR /\ next_offset + 1 - 1 < Room
    BY <1>1, <1>2 DEF First
  <2> QED BY <1>2, <1>4, <2>1
<1>6. h[1][1] = m /\ h[1][2] = At(Here) /\ h[1] \notin {Zero, Raw}
  BY <1>2, <1>5
<1>7. IsZero(h[1]) <=> At(Here) = Frame(m)
  BY <1>6 DEF IsZero
<1>8. Header = IF \A k \in 1 .. HDR : IsZero(h[k]) THEN 0
               ELSE IF h[1] \notin {Zero, Raw} /\ h = [k \in 1 .. HDR |-> <<h[1][1], k>>]
               THEN size[h[1][1]]
               ELSE -1
  BY DEF Header, h
<1>9. ASSUME At(Here) = 1
      PROVE  Header = size[m]
  <2>1. next_offset + HDR <= Room /\ HDR <= Frame(m)
    BY SMTT(30), <1>1, <1>2, <1>9, WholeOrLong DEF m
  <2>2. ASSUME NEW k \in 1 .. HDR
        PROVE  h[k] = <<m, k>>
    <3>1. PICK d \in Nat : d = k - 1 /\ Here + d + 1 = Here + k /\ At(Here) + d = k
      <4>1. k - 1 \in Nat /\ Here + (k - 1) + 1 = Here + k /\ At(Here) + (k - 1) = k
        BY <1>1, <1>2, <1>9
      <4> QED BY <4>1
    <3>2. At(Here) + d <= Frame(Of(Here))
      BY <1>2, <2>1, <3>1 DEF m
    <3>3. stream[Here + k] = <<m, k>>
      BY <1>1, <3>1, <3>2, BytesFollow DEF m
    <3>4. next_offset + k - 1 < Room
      BY <1>1, <1>2, <2>1
    <3> QED BY <1>4, <3>3, <3>4
  <2>3. h = [k \in 1 .. HDR |-> <<m, k>>]
    BY <1>3, <2>2
  <2>4. ~IsZero(h[1])
    BY <1>2, <1>7, <1>9
  <2> QED BY <1>5, <1>6, <1>8, <2>3, <2>4
<1>10. ASSUME At(Here) # 1
       PROVE  Header = 0 /\ Room = 1 /\ next_offset = 0
  <2>1. Room = 1 /\ next_offset = 0 /\ At(Here) = Frame(m)
    BY <1>1, <1>10 DEF First, m
  <2>2. ASSUME NEW k \in 1 .. HDR
        PROVE  IsZero(h[k])
    <3>1. CASE k = 1
      BY <1>7, <2>1, <3>1
    <3>2. CASE k # 1
      <4>1. ~(next_offset + k - 1 < Room) /\ next_offset + k - 1 < CHUNK
        BY <1>2, <2>1, <3>2
      <4>2. h[k] = Zero
        BY <1>4, <4>1
      <4> QED BY <4>2 DEF IsZero
    <3> QED BY <3>1, <3>2
  <2> QED BY <1>8, <2>1, <2>2
<1> QED BY <1>9, <1>10 DEF m

(* What does not depend on where handle_read is.                           *)
LEMMA StreamStays ==
  ASSUME StreamInv, UNCHANGED <<size, stream, pos>>
  PROVE  StreamInv'
<1>1. \A i : Framed(i)' = Framed(i)
  BY DEF Framed, FrameAt, Frame
<1> QED BY <1>1 DEF StreamInv

(* The invariant is about variables that read_chunk leaves alone until its *)
(* end, its own apart.                                                     *)
LEMMA HandleStays ==
  ASSUME UNCHANGED <<size, stream, pos, iov, carried, next, delivered, failed>>
  PROVE  /\ Buffered' = Buffered /\ First' = First /\ Rest' = Rest
         /\ Room' = Room /\ Base' = Base /\ Here' = Here /\ Kept' = Kept
         /\ Of(Here)' = Of(Here) /\ At(Here)' = At(Here) /\ Of(Base)' = Of(Base)
         /\ UNCHANGED <<prev, prev_size, prev_remain, next_iov, next_offset>>
<1>1. UNCHANGED <<prev, prev_size, prev_remain, next_iov, next_offset>>
  BY DEF carried, next
<1>2. Room' = Room /\ Base' = Base /\ Here' = Here /\ Kept' = Kept
  BY <1>1 DEF Room, Base, Here, Kept
<1>3. Of(Here)' = Of(Here) /\ At(Here)' = At(Here) /\ Of(Base)' = Of(Base)
  BY <1>2 DEF Of, At
<1>4. Buffered' = Buffered
  BY <1>2, Zenon DEF Buffered
<1>5. Place(Here)' = Place(Here)
  BY <1>2, <1>3 DEF Place, Given, Readed, MessageOf, Content, Frame
<1>6. CutRight' = CutRight
  <2>1. stream'[pos'] = stream[pos] /\ size' = size /\ next_offset' = next_offset
    BY <1>1
  <2> HIDE DEF Room, Of, Base
  <2> QED BY <1>2, <1>3, <2>1, Zenon DEF CutRight
<1>7. First' = First
  <2>1. NoPrev' = NoPrev /\ iov' = iov /\ Frame(Of(Here))' = Frame(Of(Here))
    BY <1>1, <1>3 DEF NoPrev, Frame
  <2> QED BY <1>1, <1>2, <1>3, <1>5, <1>6, <2>1, Zenon DEF First
<1>8. Carries(Base)' = Carries(Base)
  BY <1>1, <1>2, <1>3 DEF Carries, Prefix, Given, Readed, MessageOf, Content
<1>9. Rest' = Rest
  BY <1>1, <1>2, <1>8 DEF Rest, HasPrev
<1> QED BY <1>1, <1>2, <1>3, <1>4, <1>7, <1>9

(* The block of read_chunk is a sequence of bytes.                         *)
LEMMA BlockIs ==
  ASSUME NEW n \in Nat, NEW d \in [1 .. n -> Bytes]
  PROVE  d \in Seq(Bytes)
BY SeqDef

(* read_chunk finds the message that is carried over, or the next one.     *)
LEMMA ReadChunkInv ==
  ASSUME InStep, ReadChunk
  PROVE  InStep'
<1>1. StreamInv /\ DeliveredInv /\ pc = "handle" /\ (failed = 0 => pc # "lost")
      /\ Buffered /\ next_iov = 0 /\ (First \/ Rest)
  BY DEF InStep, ReadChunk, HandleInv
<1>2. UNCHANGED <<size, stream, pos, iov, carried, next, delivered, failed>>
      /\ IF HasPrev \/ Header >= 0 THEN pc' = "copy" /\ chunk' = Target
                                   ELSE pc' = "lost" /\ UNCHANGED chunk
  BY DEF ReadChunk
<1>3. StreamInv' /\ DeliveredInv'
  BY <1>1, <1>2, StreamStays, DeliveredStays
<1>4. /\ Buffered' = Buffered /\ First' = First /\ Rest' = Rest
      /\ Room' = Room /\ Base' = Base /\ Here' = Here /\ Kept' = Kept
      /\ Of(Here)' = Of(Here) /\ At(Here)' = At(Here) /\ Of(Base)' = Of(Base)
      /\ UNCHANGED <<prev, prev_size, prev_remain, next_iov, next_offset>>
  BY <1>2, HandleStays
<1>5. HandleInv' /\ (pc' # "read" => ReadInv') /\ (pc' # "copy" => CopyInv')
  BY <1>1, <1>4 DEF HandleInv, ReadInv, CopyInv
<1>6. /\ Len(iov) \in Nat \ {0} /\ Base \in Nat /\ Base < Len(stream) /\ Room \in Nat
  BY <1>1, ReadIs
<1>7. CASE Rest
  <2> DEFINE m == Of(Base)
  <2>1. /\ HasPrev /\ next_offset = 0
        /\ prev_size = size[m] /\ prev_remain \in Nat /\ Kept \in 0 .. prev_size - 1
        /\ Kept = prev_size - prev_remain /\ Prefix(prev, m, Kept)
    BY <1>7 DEF Rest, Carries, Kept
  <2>2. size[m] \in Nat
    BY <1>1, <1>6, ByteAt
  <2> HIDE DEF m
  <2>3. pc' = "copy"
        /\ chunk' = [msg_size |-> prev_size, o_s |-> Kept, o_iov |-> 0, dest |-> prev,
                     keep |-> TRUE, i |-> 0, curr_len |-> 0, readed |-> 0]
    BY <1>1, <1>2, <2>1 DEF Target, Locals
  <2>4. prev \in Seq(Bytes)
    BY <2>1, <2>2, BlockIs DEF Prefix
  <2>5. chunk' \in Chunks /\ chunk'.i <= Len(iov')
    BY <1>2, <1>6, <2>1, <2>2, <2>3, <2>4 DEF Chunks
  <2>6. Prefix(chunk.dest, Of(Base), chunk.o_s)'
    BY <1>2, <1>4, <2>1, <2>3 DEF Prefix, m
  <2>7. CopyRest'
    <3>1. /\ chunk'.keep /\ chunk'.msg_size = prev_size' /\ chunk'.o_iov = 0
          /\ chunk'.readed \in Nat /\ chunk'.i = 0
      BY <1>4, <2>3
    <3>2. chunk'.o_s = Kept' + (IF chunk'.i = Len(iov') THEN Room' ELSE chunk'.i * CHUNK)
      BY <1>2, <1>4, <1>6, <2>1, <2>2, <2>3, FramingAssumption
    <3> QED BY <2>6, <3>1, <3>2 DEF CopyRest
  <2> QED BY <1>1, <1>2, <1>3, <1>4, <1>5, <1>7, <2>3, <2>5, <2>7
          DEF InStep, CopyInv
<1>8. CASE First
  <2> DEFINE m == Of(Here)
  <2>1. /\ Here \in Nat /\ Here < Len(stream) /\ next_offset \in Nat /\ next_offset < Room
        /\ Room = iov[1].len /\ Len(iov) = 1 /\ m \in 1 .. Len(size) /\ size[m] \in Nat
        /\ HDR \in Nat
    BY <1>1, <1>8, InTurn, ByteAt, FramingAssumption DEF First
  <2>2. ~HasPrev /\ (HasNext <=> next_offset > 0)
    BY <1>1, <1>8 DEF First, NoPrev, HasPrev, HasNext
  <2>3. /\ At(Here) = 1 => Header = size[m]
        /\ At(Here) # 1 => Header = 0 /\ Room = 1 /\ next_offset = 0
    BY <1>1, <1>8, HeaderIs
  <2> HIDE DEF m
  <2>4. Header \in Nat
    BY <2>1, <2>3
  <2>5. CASE Header \in Nat
    <3> DEFINE d == [k \in 1 .. Header |-> Raw]
    <3>1. pc' = "copy"
          /\ chunk' = [msg_size |-> Header, o_s |-> 0, o_iov |-> next_offset + HDR,
                       dest |-> d, keep |-> ~HasNext /\ Header > Room, i |-> 0,
                       curr_len |-> 0, readed |-> 0]
      BY <1>1, <1>2, <2>1, <2>2, <2>5 DEF Target, Locals
    <3>2. d \in [1 .. Header -> Bytes]
      BY DEF Bytes
    <3>3. d \in Seq(Bytes)
      BY <2>5, <3>2, BlockIs
    <3> HIDE DEF d
    <3>4. next_offset + HDR \in Nat /\ (~HasNext /\ Header > Room) \in BOOLEAN
      BY <2>1
    <3>5. chunk' \in Chunks /\ chunk'.i <= Len(iov')
      BY <1>2, <2>1, <2>5, <3>1, <3>3, <3>4 DEF Chunks
    <3>6. CASE At(Here) = 1
      <4>1. Header = size[m]
        BY <2>3, <3>6
      <4>2. chunk'.keep <=> next_offset' = 0 /\ size'[m] > Room'
        <5>1. chunk'.keep = (~HasNext /\ Header > Room)
          BY <3>1
        <5>2. size'[m] = Header /\ Room' = Room /\ next_offset' = next_offset
          BY <1>2, <1>4, <4>1
        <5>3. (~HasNext /\ Header > Room) <=> (next_offset' = 0 /\ size'[m] > Room')
          BY <2>1, <2>2, <5>2
        <5> QED BY <5>1, <5>3, Zenon
      <4>3. Prefix(chunk.dest, Of(Here), chunk.o_s)'
        BY <1>2, <1>4, <3>1, <3>2, <4>1 DEF Prefix, m
      <4>4. /\ chunk'.i = 0 /\ chunk'.o_s = 0 /\ chunk'.readed = 0
            /\ chunk'.o_iov = next_offset' + HDR /\ chunk'.msg_size = size'[Of(Here)']
            /\ At(Here)' = 1
        BY <1>2, <1>4, <3>1, <3>6, <4>1 DEF m
      <4>5. CopyFirst'
        BY <1>2, <1>4, <4>2, <4>3, <4>4 DEF CopyFirst, m
      <4> QED BY <1>1, <1>2, <1>3, <1>4, <1>5, <1>8, <3>1, <3>5, <4>5
              DEF InStep, CopyInv
    <3>7. CASE At(Here) # 1
      <4>1. Header = 0 /\ Room = 1 /\ next_offset = 0
        BY <2>3, <2>5, <3>7
      <4>3. chunk'.dest = <<>> /\ ~chunk'.keep
        <5>1. d = <<>>
          BY <4>1 DEF d
        <5>2. chunk'.keep = (~HasNext /\ Header > Room)
          BY <3>1
        <5>3. ~(Header > Room)
          BY <4>1
        <5>4. ~chunk'.keep
          BY <5>2, <5>3, Zenon
        <5> QED BY <3>1, <5>1, <5>4
      <4>4. CopyNone'
        BY <1>2, <1>4, <3>1, <3>7, <4>1, <4>3 DEF CopyNone
      <4> QED BY <1>1, <1>2, <1>3, <1>4, <1>5, <1>8, <3>1, <3>5, <4>4
              DEF InStep, CopyInv
    <3> QED BY <3>6, <3>7
  <2> QED BY <2>4, <2>5
<1> QED BY <1>1, <1>7, <1>8

(* From place e on, buffer b has n bytes of message m, behind its first o. *)
Holds(b, e, n, m, o) ==
  /\ b.data \in [0 .. CHUNK - 1 -> Bytes]
  /\ \A j \in 0 .. n - 1 : e + j < CHUNK /\ b.data[e + j] = <<m, HDR + o + j + 1>>

(* What a turn of the copy adds to a block.                                *)
LEMMA CopiedIs ==
  ASSUME NEW m, NEW s \in Nat, s = size[m], NEW o \in Nat, NEW n \in Nat, NEW e \in Nat,
         chunk.msg_size = s, chunk.o_s = o, chunk.o_iov = e,
         Prefix(chunk.dest, m, o), o + n <= s, NEW b, Holds(b, e, n, m, o)
  PROVE  Prefix(Copied(b, n), m, o + n) /\ Copied(b, n) \in [1 .. s -> Bytes]
<1> DEFINE C(k) == IF o < k /\ k <= o + n
                     THEN IF e + k - o - 1 < CHUNK THEN b.data[e + k - o - 1] ELSE Raw
                     ELSE chunk.dest[k]
<1>1. Copied(b, n) = [k \in 1 .. s |-> C(k)]
  BY DEF Copied
<1> HIDE DEF C
<1>2. CHUNK \in Nat /\ HDR \in Nat
  BY FramingAssumption
<1>3. ASSUME NEW k \in 1 .. o + n
      PROVE  C(k) = <<m, HDR + k>>
  <2>1. CASE o < k
    <3>1. PICK j \in 0 .. n - 1 : j = k - o - 1
      <4>1. k - o - 1 \in 0 .. n - 1
        BY <2>1
      <4> QED BY <4>1
    <3>2. e + k - o - 1 = e + j /\ HDR + o + j + 1 = HDR + k
      BY <1>2, <3>1
    <3>3. e + j < CHUNK /\ b.data[e + j] = <<m, HDR + o + j + 1>>
      BY DEF Holds
    <3>4. o < k /\ k <= o + n
      BY <2>1
    <3> QED BY <3>2, <3>3, <3>4 DEF C
  <2>2. CASE ~(o < k)
    <3>1. k \in 1 .. o
      BY <2>2
    <3> QED BY <2>2, <3>1 DEF C, Prefix
  <2> QED BY <2>1, <2>2
<1>4. ASSUME NEW k \in 1 .. s
      PROVE  C(k) \in Bytes
  <2>1. CASE o < k /\ k <= o + n
    <3>1. PICK j \in Nat : j = e + k - o - 1
      <4>1. e + k - o - 1 \in Nat
        BY <2>1
      <4> QED BY <4>1
    <3>2. C(k) = IF j < CHUNK THEN b.data[j] ELSE Raw
      BY <2>1, <3>1 DEF C
    <3>3. j < CHUNK => j \in 0 .. CHUNK - 1
      BY <1>2
    <3> QED BY <3>2, <3>3 DEF Holds, Bytes
  <2>2. CASE ~(o < k /\ k <= o + n)
    <3>1. C(k) = chunk.dest[k]
      BY <2>2 DEF C
    <3> QED BY <3>1 DEF Prefix
  <2> QED BY <2>1, <2>2
<1>5. Copied(b, n) \in [1 .. s -> Bytes]
  BY <1>1, <1>4
<1>6. \A k \in 1 .. o + n : Copied(b, n)[k] = <<m, HDR + k>>
  <2>1. \A k \in 1 .. o + n : k \in 1 .. s
    OBVIOUS
  <2> QED BY <1>1, <1>3, <2>1
<1> QED BY <1>5, <1>6 DEF Prefix

(* The variables of read_chunk after a turn.                               *)
LEMMA TurnIs ==
  ASSUME chunk \in Chunks, CopyTurn, NEW b, b = iov[chunk.i + 1],
         NEW n \in Nat, n = CurrLen(b), Copied(b, n) \in Seq(Bytes), HDR \in Nat
  PROVE  /\ chunk' \in Chunks
         /\ chunk'.msg_size = chunk.msg_size /\ chunk'.keep = chunk.keep
         /\ chunk'.dest = Copied(b, n) /\ chunk'.readed = chunk.readed + n + HDR + 1
         /\ chunk'.o_s = chunk.o_s + n /\ chunk'.o_iov = 0 /\ chunk'.curr_len = n
         /\ chunk'.i = chunk.i + 1
<1> DEFINE c == Copied(b, n)
<1>1. chunk' = [chunk EXCEPT !.dest = c, !.readed = @ + n + HDR + 1, !.o_s = @ + n,
                             !.o_iov = 0, !.curr_len = n, !.i = @ + 1]
  BY DEF CopyTurn
<1> HIDE DEF c
<1>2. chunk \in [msg_size : Nat, o_s : Nat, o_iov : Nat, dest : Seq(Bytes), keep : BOOLEAN,
                 i : Nat, curr_len : Int, readed : Int]
      /\ c \in Seq(Bytes)
  BY DEF Chunks, c
<1>3. /\ chunk'.msg_size = chunk.msg_size /\ chunk'.keep = chunk.keep
      /\ chunk'.dest = c /\ chunk'.readed = chunk.readed + n + HDR + 1
      /\ chunk'.o_s = chunk.o_s + n /\ chunk'.o_iov = 0 /\ chunk'.curr_len = n
      /\ chunk'.i = chunk.i + 1
  BY <1>1, <1>2
<1>4. chunk' \in Chunks
  <2>1. /\ chunk.readed + n + HDR + 1 \in Int /\ chunk.o_s + n \in Nat /\ 0 \in Nat
        /\ n \in Int /\ chunk.i + 1 \in Nat
    BY SMTT(30), <1>2
  <2> QED BY <1>1, <1>2, <2>1 DEF Chunks
<1> QED BY <1>3, <1>4 DEF c

(* A turn of the copy takes all that is left of the message or the buffer. *)
LEMMA CopyTurnInv ==
  ASSUME InStep, CopyTurn
  PROVE  InStep'
<1>1. StreamInv /\ DeliveredInv /\ pc = "copy" /\ (failed = 0 => pc # "lost")
      /\ Buffered /\ next_iov = 0 /\ chunk \in Chunks
      /\ ((First /\ (CopyFirst \/ CopyNone)) \/ (Rest /\ CopyRest))
  BY DEF InStep, CopyTurn, HandleInv, CopyInv
<1>2. UNCHANGED <<size, stream, pos, pc, iov, carried, next, delivered, failed>>
      /\ chunk.i < Len(iov)
  BY DEF CopyTurn
<1>3. StreamInv' /\ DeliveredInv'
  BY <1>1, <1>2, StreamStays, DeliveredStays
<1>4. /\ Buffered' = Buffered /\ First' = First /\ Rest' = Rest
      /\ Room' = Room /\ Base' = Base /\ Here' = Here /\ Kept' = Kept
      /\ Of(Here)' = Of(Here) /\ At(Here)' = At(Here) /\ Of(Base)' = Of(Base)
      /\ UNCHANGED <<prev, prev_size, prev_remain, next_iov, next_offset>>
  BY <1>2, HandleStays
<1>5. HandleInv' /\ ReadInv'
  BY <1>1, <1>2, <1>4 DEF HandleInv, ReadInv
<1>6. /\ Len(iov) \in Nat \ {0} /\ Base \in Nat /\ Base < Len(stream) /\ Room \in Nat
      /\ pos = Base + Room /\ pos <= Len(stream) /\ Len(stream) \in Nat
      /\ CHUNK \in Nat \ {0} /\ HDR \in Nat \ {0} /\ chunk.i \in Nat /\ chunk.o_s \in Nat
      /\ chunk.o_iov \in Nat /\ chunk.readed \in Int
  BY <1>1, ReadIs, FramingAssumption DEF Chunks
<1>7. PICK b : b = iov[chunk.i + 1]
  OBVIOUS
<1>8. CASE First /\ CopyFirst
  <2> DEFINE m == Of(Here)
  <2>1. /\ Here \in Nat /\ Here < Len(stream) /\ next_offset \in Nat /\ next_offset < Room
        /\ Room = iov[1].len /\ Len(iov) = 1 /\ m \in 1 .. Len(size) /\ size[m] \in Nat
        /\ Room <= CHUNK /\ Here = Base + next_offset /\ At(Here) = 1
        /\ Frame(m) = HDR + size[m] + 1
    BY <1>1, <1>8, InTurn, ByteAt DEF First, CopyFirst
  <2>2. next_offset + HDR <= Room
    <3>1. \/ next_offset + HDR + size[m] <= Room
          \/ next_offset = 0 /\ HDR <= Room
      BY <1>1, <1>8, <2>1, WholeOrLong
    <3>2. PICK f \in Nat, h \in Nat, r \in Nat, z \in Nat :
            f = next_offset /\ h = HDR /\ r = Room /\ z = size[m]
      BY <1>6, <2>1
    <3>3. f + h + z <= r \/ (f = 0 /\ h <= r)
      BY <3>1, <3>2
    <3>4. f + h <= r
      BY <3>3
    <3> QED BY <3>2, <3>4
  <2>3. chunk.i = 0 /\ chunk.o_s = 0 /\ chunk.readed = 0 /\ chunk.o_iov = next_offset + HDR
        /\ chunk.msg_size = size[m] /\ Prefix(chunk.dest, m, 0)
    <3>1. chunk.i = 0
      BY SMTT(30), <1>2, <1>6, <2>1
    <3> QED BY <1>8, <3>1 DEF CopyFirst
  <2> HIDE DEF m
  <2>4. b.len = Room /\ b.data \in [0 .. CHUNK - 1 -> Bytes]
    <3>1. b = iov[1]
      BY <1>7, <2>3
    <3> QED BY <1>1, <2>1, <3>1, ReadIs
  <2>5. PICK r \in Nat, f \in Nat, z \in Nat, c \in Nat :
          /\ r = Room /\ f = next_offset + HDR /\ z = size[m] /\ f <= r /\ c = CHUNK /\ r <= c
    <3>1. next_offset \in Nat /\ HDR \in Nat /\ Room \in Nat /\ CHUNK \in Nat
      BY <1>6, <2>1
    <3>2. next_offset + HDR \in Nat
      BY <3>1
    <3> QED BY <2>1, <2>2, <3>1, <3>2
  <2>6. PICK n \in Nat : n = CurrLen(b) /\ n = Smaller(z, r - f) /\ n <= z /\ f + n <= r
    <3>1. CurrLen(b) = Smaller(z, r - f)
      BY <2>3, <2>4, <2>5 DEF CurrLen
    <3>2. Smaller(z, r - f) \in Nat /\ Smaller(z, r - f) <= z /\ Smaller(z, r - f) <= r - f
      BY <2>5 DEF Smaller
    <3>3. f + Smaller(z, r - f) <= r
      BY <2>5, <3>2
    <3> QED BY <3>1, <3>2, <3>3
  <2>7. Holds(b, f, n, m, 0)
    <3>1. ASSUME NEW j \in 0 .. n - 1
          PROVE  f + j < CHUNK /\ b.data[f + j] = <<m, HDR + 0 + j + 1>>
      <4>1. PICK h \in Nat, d \in Nat : h = HDR /\ d = h + j
        BY <1>6
      <4>2. 1 + d <= h + z + 1 /\ Frame(Of(Here)) = h + z + 1
        BY SMTT(30), <2>1, <2>5, <2>6, <4>1 DEF m
      <4>3. stream[Here + d + 1] = <<m, At(Here) + d>>
        BY <1>1, <2>1, <4>2, BytesFollow DEF m
      <4>4. PICK k \in Nat : k = f + j /\ k < Room /\ k < CHUNK
        <5>1. f + j \in Nat /\ f + j < r /\ f + j < c
          BY <2>5, <2>6
        <5> QED BY <2>5, <5>1
      <4>5. Base + k + 1 = Here + d + 1 /\ At(Here) + d = HDR + 0 + j + 1
        <5>1. /\ Base \in Nat /\ next_offset \in Nat /\ Here = Base + next_offset
              /\ At(Here) = 1
          BY <1>6, <2>1
        <5>2. k = next_offset + h + j
          BY <2>5, <4>1, <4>4
        <5>3. d = h + j /\ h = HDR
          BY <4>1
        <5>4. Base + k + 1 = Here + d + 1
          BY <4>1, <5>1, <5>2, <5>3
        <5>5. At(Here) + d = HDR + 0 + j + 1
          BY <4>1, <5>1, <5>3
        <5> QED BY <5>4, <5>5
      <4>6. b.data[k] = stream[Base + k + 1]
        <5>1. b = iov[1]
          BY <1>7, <2>3
        <5> QED BY <1>1, <1>8, <4>4, <5>1, InBuffer
      <4> QED BY <4>3, <4>4, <4>5, <4>6
    <3> QED BY <2>4, <3>1 DEF Holds
  <2>8. Prefix(Copied(b, n), m, n) /\ Copied(b, n) \in [1 .. size[m] -> Bytes]
    <3>1. PICK o \in Nat : o = 0 /\ o + n = n /\ o + n <= z
      BY <2>6
    <3>2. Prefix(chunk.dest, m, o) /\ chunk.o_s = o /\ Holds(b, f, n, m, o)
      BY <2>3, <2>7, <3>1
    <3>3. Prefix(Copied(b, n), m, o + n) /\ Copied(b, n) \in [1 .. z -> Bytes]
      BY <2>3, <2>5, <3>1, <3>2, CopiedIs
    <3> QED BY <2>5, <3>1, <3>3
  <2>9. /\ chunk' \in Chunks
        /\ chunk'.msg_size = chunk.msg_size /\ chunk'.keep = chunk.keep
        /\ chunk'.dest = Copied(b, n) /\ chunk'.readed = chunk.readed + n + HDR + 1
        /\ chunk'.o_s = chunk.o_s + n /\ chunk'.o_iov = 0 /\ chunk'.curr_len = n
        /\ chunk'.i = chunk.i + 1
    <3>1. Copied(b, n) \in Seq(Bytes)
      BY <2>1, <2>8, BlockIs
    <3> QED BY <1>1, <1>6, <1>7, <2>6, <3>1, TurnIs
  <2>10. chunk'.o_s = n /\ chunk'.readed = n + HDR + 1 /\ chunk'.i = 1
    BY <1>6, <2>3, <2>9
  <2>11. Prefix(chunk.dest, Of(Here), chunk.o_s)'
    BY <1>2, <1>4, <2>9, <2>10, <2>8 DEF Prefix, m
  <2>12. CopyFirst'
    <3>1. chunk'.curr_len = chunk'.o_s /\ chunk'.readed = chunk'.o_s + HDR + 1
      BY <2>9, <2>10
    <3>2. /\ At(Here)' = 1 /\ Of(Here)' = m /\ chunk'.msg_size = size'[m]
          /\ size'[m] = z /\ Room' = r /\ next_offset' = next_offset
      BY <1>2, <1>4, <2>1, <2>3, <2>5, <2>9 DEF m
    <3>3. chunk'.keep <=> next_offset' = 0 /\ size'[m] > Room'
      BY <1>8, <2>5, <2>9, <3>2 DEF CopyFirst, m
    <3>4. chunk'.o_s = Smaller(size[Of(Here)], Room - next_offset - HDR)'
      <4>1. Room' - next_offset' - HDR = r - f
        BY <1>6, <2>1, <2>5, <3>2
      <4> QED BY <2>6, <2>10, <3>2, <4>1 DEF Smaller
    <3> QED BY <2>10, <2>11, <3>1, <3>2, <3>3, <3>4 DEF CopyFirst
  <2> QED BY <1>1, <1>2, <1>3, <1>4, <1>5, <1>8, <2>1, <2>9, <2>10, <2>12
          DEF InStep, CopyInv
<1>9. CASE First /\ CopyNone
  <2>1. /\ Len(iov) = 1 /\ Room = iov[1].len /\ Room = 1
        /\ chunk.msg_size = 0 /\ chunk.o_s = 0 /\ chunk.dest = <<>> /\ ~chunk.keep
    BY <1>1, <1>9, InTurn DEF First, CopyNone
  <2>2. chunk.i = 0 /\ chunk.readed = 0
    <3>1. chunk.i = 0
      BY <1>2, <1>6, <2>1
    <3> QED BY <1>9, <3>1 DEF CopyNone
  <2>3. b = iov[1] /\ b.len = 1
    <3>1. chunk.i + 1 = 1
      BY <2>2
    <3> QED BY <1>7, <2>1, <3>1
  <2>4. CurrLen(b) = 0
    <3>1. PICK o \in Nat : o = chunk.o_iov
      BY <1>6
    <3> QED BY <2>1, <2>3, <3>1 DEF CurrLen, Smaller
  <2>5. Copied(b, 0) = <<>>
    BY <2>1 DEF Copied
  <2>6. /\ chunk' \in Chunks
        /\ chunk'.msg_size = chunk.msg_size /\ chunk'.keep = chunk.keep
        /\ chunk'.dest = Copied(b, 0) /\ chunk'.readed = chunk.readed + 0 + HDR + 1
        /\ chunk'.o_s = chunk.o_s + 0 /\ chunk'.o_iov = 0 /\ chunk'.curr_len = 0
        /\ chunk'.i = chunk.i + 1
    <3>1. Copied(b, 0) \in Seq(Bytes)
      BY <2>5, EmptySeq
    <3>2. 0 \in Nat
      OBVIOUS
    <3> QED BY <1>1, <1>6, <1>7, <2>4, <3>1, <3>2, TurnIs
  <2>7. CopyNone' /\ chunk'.i = 1
    <3>1. /\ chunk'.i = 1 /\ chunk'.msg_size = 0 /\ chunk'.o_s = 0 /\ chunk'.dest = <<>>
          /\ ~chunk'.keep /\ chunk'.readed = HDR + 1
      BY <1>6, <2>1, <2>2, <2>5, <2>6
    <3>2. At(Here)' # 1
      BY <1>4, <1>9 DEF CopyNone
    <3> QED BY <3>1, <3>2 DEF CopyNone
  <2> QED BY <1>1, <1>2, <1>3, <1>4, <1>5, <1>9, <2>1, <2>6, <2>7
          DEF InStep, CopyInv
<1>10. CASE Rest /\ CopyRest
  <2> DEFINE m == Of(Base)
             i == chunk.i
  <2>1. /\ Room <= prev_remain /\ prev_remain \in Nat /\ Kept \in 0 .. prev_size - 1
        /\ prev_size = size[m] /\ Kept = prev_size - prev_remain
        /\ stream[Base + 1] = <<m, HDR + Kept + 1>> /\ next_offset = 0
    BY <1>10 DEF Rest, Carries, Kept
  <2>2. /\ m \in 1 .. Len(size) /\ size[m] \in Nat /\ Frame(m) = HDR + size[m] + 1
    BY <1>1, <1>6, ByteAt
  <2>3. /\ chunk.keep /\ chunk.msg_size = prev_size /\ chunk.o_iov = 0
        /\ chunk.o_s = Kept + i * CHUNK
        /\ Prefix(chunk.dest, m, chunk.o_s) /\ chunk.readed \in Nat
        /\ At(Base) = HDR + Kept + 1
    <3>1. chunk.i # Len(iov)
      BY <1>2, <1>6
    <3>2. At(Base) = HDR + Kept + 1
      BY <2>1 DEF At
    <3> QED BY <1>10, <3>1, <3>2 DEF CopyRest
  <2> HIDE DEF m, i
  <2>4. PICK r \in Nat, k \in Nat, z \in Nat, h \in Nat, c \in Nat \ {0} :
          /\ r = Room /\ k = Kept /\ z = prev_size /\ h = HDR /\ c = CHUNK
          /\ z = size[m] /\ r <= z - k /\ k <= z
    <3>1. Kept \in Nat /\ prev_size \in Nat /\ Kept <= prev_size
      BY <2>1, <2>2
    <3>2. prev_remain = prev_size - Kept
      BY <2>1, <3>1
    <3> QED BY <1>6, <2>1, <3>1, <3>2
  <2>5. PICK q \in Nat, e \in Nat \ {0} : q = i /\ e = Len(iov) /\ q < e
    BY <1>2, <1>6 DEF i
  <2>6. q + 1 \in 1 .. Len(iov) /\ (q + 1) - 1 = q /\ b = iov[q + 1]
    BY <1>7, <2>5 DEF i
  <2>7. PICK x \in Nat, y \in Nat, l \in 1 .. c :
          /\ x = q * CHUNK /\ y = (e - 1) * CHUNK /\ l = iov[e].len /\ r = y + l
    <3>1. q * CHUNK \in Nat /\ (e - 1) * CHUNK \in Nat
      BY <1>6
    <3>2. iov[e].len \in 1 .. CHUNK
      BY <1>1, <2>5, BufferAt
    <3>3. r = (e - 1) * CHUNK + iov[e].len
      BY <2>4, <2>5, Zenon DEF Room
    <3> QED BY <2>4, <3>1, <3>2, <3>3
  <2>8. PICK n \in 1 .. c :
          /\ n = b.len /\ x + n <= r
          /\ q + 1 = e => x + n = r
          /\ q + 1 # e => n = c
    <3>1. CASE q + 1 = e
      <4>1. q = e - 1
        BY <3>1
      <4>2. x = y
        BY <2>7, <4>1, Zenon
      <4>3. b.len = l
        BY <2>6, <2>7, <3>1
      <4> QED BY <2>7, <3>1, <4>2, <4>3
    <3>2. CASE q + 1 # e
      <4>1. q + 1 \in 1 .. e - 1 /\ q < e - 1
        BY <2>5, <3>2
      <4>2. b.len = c
        BY <1>1, <2>4, <2>5, <2>6, <4>1 DEF Buffered
      <4>3. q * CHUNK + CHUNK <= (e - 1) * CHUNK
        BY <1>6, <4>1, Multiples
      <4>4. x + c <= y
        BY <2>4, <2>7, <4>3, Zenon
      <4>5. x + c <= r
        <5>1. x \in Nat /\ y \in Nat /\ l \in Nat /\ r = y + l
          BY <2>7
        <5> QED BY <4>4, <5>1
      <4> QED BY <3>2, <4>2, <4>5
    <3> QED BY <3>1, <3>2
  <2>9. PICK o \in Nat : o = chunk.o_s /\ o = k + x /\ o + n <= z /\ z - o >= n
    <3>1. chunk.o_s = k + x
      BY <2>3, <2>4, <2>5, <2>7, Zenon
    <3>2. k + x \in Nat /\ k + x + n <= z /\ z - (k + x) >= n
      BY <2>4, <2>8
    <3> QED BY <3>1, <3>2
  <2>10. n = CurrLen(b)
    <3>1. chunk.msg_size - chunk.o_s = z - o
      BY <2>3, <2>4, <2>9
    <3>2. chunk.o_iov <= b.len /\ b.len - chunk.o_iov = n
      BY <2>3, <2>8
    <3>3. Smaller(z - o, n) = n
      BY <2>9 DEF Smaller
    <3> QED BY <3>1, <3>2, <3>3, Zenon DEF CurrLen
  <2>11. Holds(b, 0, n, m, o)
    <3>1. ASSUME NEW j \in 0 .. n - 1
          PROVE  0 + j < CHUNK /\ b.data[0 + j] = <<m, HDR + o + j + 1>>
      <4>1. PICK d \in Nat : d = x + j
        OBVIOUS
      <4>2. /\ d < r /\ h + k + 1 + d = h + o + j + 1 /\ h + k + 1 + d <= h + z + 1
            /\ j \in 0 .. c - 1 /\ 0 + j = j /\ j < c
        BY <2>4, <2>8, <2>9, <4>1
      <4>3. At(Base) = h + k + 1 /\ Frame(m) = h + z + 1
        BY <2>2, <2>3, <2>4
      <4>4. stream[Base + d + 1] = <<m, h + k + 1 + d>>
        BY SMTT(30), <1>1, <1>6, <4>2, <4>3, BytesFollow DEF m
      <4>5. b.data[j] = IF ((q + 1) - 1) * CHUNK + j < Room
                          THEN stream[Base + ((q + 1) - 1) * CHUNK + j + 1] ELSE Zero
        <5>1. j \in 0 .. CHUNK - 1
          BY <2>4, <4>2
        <5>2. \A k_1 \in 0 .. CHUNK - 1 :
                iov[q + 1].data[k_1] = IF ((q + 1) - 1) * CHUNK + k_1 < Room
                  THEN stream[Base + ((q + 1) - 1) * CHUNK + k_1 + 1] ELSE Zero
          BY <1>1, <2>6, Zenon DEF Buffered
        <5> QED BY <2>6, <5>1, <5>2, Zenon
      <4>6. ((q + 1) - 1) * CHUNK = x
        BY <2>6, <2>7, Zenon
      <4>7. Base + x + j + 1 = Base + d + 1
        BY <1>6, <4>1
      <4>8. b.data[j] = stream[Base + d + 1]
        <5>1. x + j < Room
          BY <2>4, <4>1, <4>2
        <5> QED BY <4>5, <4>6, <4>7, <5>1, Zenon
      <4> QED BY <2>4, <4>2, <4>4, <4>8
    <3>2. b.data \in [0 .. CHUNK - 1 -> Bytes]
      BY <1>1, <2>6, BufferAt
    <3> QED BY <3>1, <3>2 DEF Holds
  <2>12. Prefix(Copied(b, n), m, o + n) /\ Copied(b, n) \in [1 .. size[m] -> Bytes]
    <3>1. PICK w \in Nat : w = 0
      OBVIOUS
    <3>2. n \in Nat /\ Holds(b, w, n, m, o) /\ Prefix(chunk.dest, m, o)
          /\ chunk.msg_size = z /\ chunk.o_s = o /\ chunk.o_iov = w
      BY <2>3, <2>4, <2>9, <2>11, <3>1
    <3>3. Prefix(Copied(b, n), m, o + n) /\ Copied(b, n) \in [1 .. z -> Bytes]
      BY <2>4, <2>9, <3>2, CopiedIs
    <3> QED BY <2>4, <3>3
  <2>13. /\ chunk' \in Chunks
         /\ chunk'.msg_size = chunk.msg_size /\ chunk'.keep = chunk.keep
         /\ chunk'.dest = Copied(b, n) /\ chunk'.readed = chunk.readed + n + HDR + 1
         /\ chunk'.o_s = chunk.o_s + n /\ chunk'.o_iov = 0 /\ chunk'.curr_len = n
         /\ chunk'.i = chunk.i + 1
    <3>1. Copied(b, n) \in Seq(Bytes)
      BY <2>2, <2>12, BlockIs
    <3>2. n \in Nat
      OBVIOUS
    <3> QED BY <1>1, <1>6, <1>7, <2>10, <3>1, <3>2, TurnIs
  <2>14. Prefix(chunk.dest, Of(Base), chunk.o_s)'
    BY <1>2, <1>4, <2>9, <2>13, <2>12 DEF Prefix, m
  <2>15. CopyRest'
    <3>1. /\ chunk'.keep /\ chunk'.msg_size = prev_size' /\ chunk'.o_iov = 0
          /\ chunk'.i = q + 1
      BY <1>4, <2>3, <2>5, <2>13 DEF i
    <3>2. chunk'.readed \in Nat /\ chunk'.readed >= n
      <4>1. chunk'.readed = chunk.readed + n + h + 1
        BY <2>4, <2>13
      <4>2. PICK w \in Nat : w = chunk.readed
        BY <2>3
      <4> QED BY <4>1, <4>2
    <3>3. chunk'.o_s = Kept' + (IF chunk'.i = Len(iov') THEN Room' ELSE chunk'.i * CHUNK)
      <4>1. chunk'.o_s = o + n /\ o + n = k + (x + n)
        <5>1. chunk'.o_s = o + n
          BY <2>9, <2>13
        <5>2. n \in Nat /\ o = k + x
          BY <2>9
        <5> QED BY <5>1, <5>2
      <4>2. CASE q + 1 = e
        <5>1. chunk'.o_s = k + r
          BY <2>8, <4>1, <4>2
        <5> QED BY <1>2, <1>4, <2>4, <2>5, <3>1, <4>2, <5>1
      <4>3. CASE q + 1 # e
        <5>1. (q + 1) * CHUNK = q * CHUNK + CHUNK
          BY <1>6
        <5>2. (q + 1) * CHUNK = x + n
          BY <2>4, <2>7, <2>8, <4>3, <5>1, Zenon
        <5> QED BY <1>2, <1>4, <2>4, <2>5, <3>1, <4>1, <4>3, <5>2
      <4> QED BY <4>2, <4>3
    <3>4. iov'[chunk'.i].len = n
      BY <1>2, <2>6, <2>8, <3>1
    <3> QED BY <1>2, <1>4, <2>14, <3>1, <3>2, <3>3, <3>4 DEF CopyRest
  <2>16. chunk'.i <= Len(iov')
    BY <1>2, <1>6, <2>13
  <2> QED BY <1>1, <1>2, <1>3, <1>4, <1>5, <1>10, <2>13, <2>15, <2>16
          DEF InStep, CopyInv
<1> QED BY <1>1, <1>8, <1>9, <1>10

(* What is delivered is next in the order of the messages.                 *)
LEMMA DeliverMore ==
  ASSUME StreamInv, DeliveredInv, NEW m \in 1 .. Len(size), Given(m),
         Deliver(Content(m)), UNCHANGED <<size, failed>>
  PROVE  DeliveredInv' /\ Given(m + 1)'
<1>1. PICK n \in Nat : n = Len(delivered)
  BY LenProperties DEF DeliveredInv
<1>2. /\ Content(m) \in Seq(Nat \X Nat) /\ Content(m) # <<>> /\ Content(m)[1] = <<m, HDR + 1>>
      /\ m \in Nat /\ Len(size) \in Nat /\ size \in Seq(Sizes)
  BY ContentOf, LenProperties DEF StreamInv
<1>3. /\ delivered' \in Seq(Seq(Nat \X Nat)) /\ Len(delivered') = n + 1
      /\ delivered'[n + 1] = Content(m)
      /\ \A i \in 1 .. n : delivered'[i] = delivered[i]
  <2>1. delivered \in Seq(Seq(Nat \X Nat)) /\ delivered' = Append(delivered, Content(m))
    BY DEF DeliveredInv, Deliver
  <2> QED BY <1>1, <1>2, <2>1, AppendProperties
<1>4. DOMAIN delivered = 1 .. n /\ DOMAIN delivered' = 1 .. n + 1
  <2>1. DOMAIN delivered = 1 .. n
    BY <1>1, LenProperties DEF DeliveredInv
  <2>2. DOMAIN delivered' = 1 .. n + 1
    <3>1. PICK d : d = delivered'
      OBVIOUS
    <3>2. d \in Seq(Seq(Nat \X Nat)) /\ Len(d) = n + 1
      BY <1>3, <3>1
    <3>3. DOMAIN d = 1 .. n + 1
      BY <3>2, LenProperties
    <3> QED BY <3>1, <3>3
  <2> QED BY <2>1, <2>2
<1>5. Readed' = Readed \cup {n + 1} /\ Readed \subseteq 1 .. n
  <2>1. Readed \subseteq 1 .. n
    BY <1>4 DEF Readed
  <2>2. ASSUME NEW i \in 1 .. n
        PROVE  i \in Readed' <=> i \in Readed
    BY <1>3, <1>4 DEF Readed
  <2>3. n + 1 \in Readed'
    BY <1>2, <1>3, <1>4 DEF Readed
  <2>4. \A i \in Readed' : i \in 1 .. n \/ i = n + 1
    BY <1>4 DEF Readed
  <2> QED BY <2>1, <2>2, <2>3, <2>4
<1>6. /\ MessageOf(n + 1)' = m
      /\ \A i \in Readed : MessageOf(i)' = MessageOf(i)
      /\ \A j : Content(j)' = Content(j)
  BY SMTT(30), <1>2, <1>3, <1>5 DEF MessageOf, Content
<1>7. \A i \in Readed : MessageOf(i) \in 1 .. Len(size) /\ MessageOf(i) < m
  <2> SUFFICES ASSUME NEW i \in Readed
               PROVE  MessageOf(i) \in 1 .. Len(size) /\ MessageOf(i) < m
    OBVIOUS
  <2> QED BY ReadedIs DEF Given
<1>8. \A i \in Readed' : \E j \in DOMAIN size' : delivered'[i] = Content(j)'
  <2> SUFFICES ASSUME NEW i \in Readed'
               PROVE  \E j \in DOMAIN size : delivered'[i] = Content(j)
    BY <1>6
  <2>1. CASE i \in Readed
    BY <1>3, <1>5, <2>1 DEF DeliveredInv, AsSent
  <2>2. CASE i = n + 1
    <3>1. m \in DOMAIN size
      BY <1>2, LenProperties
    <3> QED BY <1>3, <2>2, <3>1
  <2> QED BY <1>5, <2>1, <2>2
<1>9. \A i, j \in Readed' : i < j => MessageOf(i)' < MessageOf(j)'
  <2> SUFFICES ASSUME NEW i \in Readed', NEW j \in Readed', i < j
               PROVE  MessageOf(i)' < MessageOf(j)'
    OBVIOUS
  <2>1. i \in Readed
    BY <1>5
  <2>2. CASE j \in Readed
    BY <1>6, <2>1, <2>2 DEF DeliveredInv, AsSent
  <2>3. CASE j = n + 1
    BY <1>6, <1>7, <2>1, <2>3
  <2> QED BY <1>5, <2>2, <2>3
<1>10. ASSUME failed' = 0, NEW j \in 1 .. m
       PROVE  \E i \in Readed' : delivered'[i] = Content(j)'
  <2>1. CASE j = m
    BY <1>3, <1>5, <1>6, <2>1
  <2>2. CASE j # m
    <3>1. j \in 1 .. m - 1
      BY <1>2, <2>2
    <3>2. PICK i \in Readed : delivered[i] = Content(j)
      BY <1>10, <3>1 DEF Given
    <3> QED BY <1>3, <1>5, <1>6, <3>2
  <2> QED BY <2>1, <2>2
<1>11. ASSUME failed' = 0, NEW i \in Readed', NEW k \in 1 .. MessageOf(i)' - 1
       PROVE  \E j \in 1 .. i - 1 : delivered'[j] = Content(k)'
  <2>1. CASE i \in Readed
    <3>1. k \in 1 .. MessageOf(i) - 1
      BY <1>6, <2>1
    <3>2. PICK j \in 1 .. i - 1 : delivered[j] = Content(k)
      BY <1>11, <2>1, <3>1 DEF DeliveredInv, AsSent
    <3>3. j \in 1 .. n
      BY <1>5, <2>1
    <3> QED BY <1>3, <1>6, <3>2, <3>3
  <2>2. CASE i = n + 1
    <3>1. k \in 1 .. m - 1
      BY <1>6, <2>2
    <3>2. PICK j \in Readed : delivered[j] = Content(k)
      BY <1>11, <3>1 DEF Given
    <3>3. j \in 1 .. n /\ j \in 1 .. i - 1
      BY <1>5, <2>2
    <3> QED BY <1>3, <1>6, <3>2, <3>3
  <2> QED BY <1>5, <2>1, <2>2
<1>12. AsSent'
  BY <1>8, <1>9, <1>11 DEF AsSent
<1>13. Given(m + 1)'
  <2>1. \A i \in Readed' : MessageOf(i)' < m + 1
    BY <1>2, <1>5, <1>6, <1>7
  <2>2. (m + 1) - 1 = m
    BY <1>2
  <2> QED BY <1>10, <2>1, <2>2 DEF Given
<1> QED BY <1>3, <1>12, <1>13 DEF DeliveredInv

(* A message of no bytes changes nothing.                                  *)
LEMMA DeliverNone ==
  ASSUME DeliveredInv, NEW m, Given(m), Deliver(<<>>), UNCHANGED <<size, failed>>
  PROVE  DeliveredInv' /\ Given(m)'
<1>1. PICK n \in Nat : n = Len(delivered)
  BY LenProperties DEF DeliveredInv
<1>2. /\ delivered' \in Seq(Seq(Nat \X Nat)) /\ Len(delivered') = n + 1
      /\ delivered'[n + 1] = <<>>
      /\ \A i \in 1 .. n : delivered'[i] = delivered[i]
  <2>1. /\ delivered \in Seq(Seq(Nat \X Nat)) /\ delivered' = Append(delivered, <<>>)
        /\ <<>> \in Seq(Nat \X Nat)
    BY EmptySeq DEF DeliveredInv, Deliver
  <2> QED BY <1>1, <2>1, AppendProperties
<1>3. DOMAIN delivered = 1 .. n /\ DOMAIN delivered' = 1 .. n + 1
  BY <1>1, <1>2, LenProperties DEF DeliveredInv
<1>4. Readed' = Readed /\ Readed \subseteq 1 .. n
  BY SMTT(30), <1>2, <1>3 DEF Readed
<1>5. /\ \A i \in Readed : MessageOf(i)' = MessageOf(i)
      /\ \A j : Content(j)' = Content(j)
  BY <1>2, <1>4 DEF MessageOf, Content
<1>6. \A i \in Readed' : \E j \in DOMAIN size' : delivered'[i] = Content(j)'
  BY <1>2, <1>4, <1>5 DEF DeliveredInv, AsSent
<1>7. \A i, j \in Readed' : i < j => MessageOf(i)' < MessageOf(j)'
  BY <1>4, <1>5 DEF DeliveredInv, AsSent
<1>8. ASSUME failed' = 0, NEW i \in Readed', NEW k \in 1 .. MessageOf(i)' - 1
      PROVE  \E j \in 1 .. i - 1 : delivered'[j] = Content(k)'
  <2>1. i \in Readed /\ k \in 1 .. MessageOf(i) - 1
    BY <1>4, <1>5
  <2>2. PICK j \in 1 .. i - 1 : delivered[j] = Content(k)
    BY <1>8, <2>1 DEF DeliveredInv, AsSent
  <2>3. j \in 1 .. n
    BY <1>4, <2>1
  <2> QED BY <1>2, <1>5, <2>2, <2>3
<1>9. AsSent'
  BY <1>6, <1>7, <1>8 DEF AsSent
<1>10. Given(m)'
  <2>1. \A i \in Readed' : MessageOf(i)' < m
    BY <1>4, <1>5 DEF Given
  <2>2. ASSUME failed' = 0, NEW j \in 1 .. m - 1
        PROVE  \E i \in Readed' : delivered'[i] = Content(j)'
    <3>1. PICK i \in Readed : delivered[i] = Content(j)
      BY <2>2 DEF Given
    <3> QED BY <1>2, <1>4, <1>5, <3>1
  <2> QED BY <2>1, <2>2 DEF Given
<1> QED BY <1>2, <1>9, <1>10 DEF DeliveredInv

(* Behind the end of a message that was the last delivered.                *)
LEMMA NextPlace ==
  ASSUME StreamInv, UNCHANGED <<size, stream>>, NEW q \in Nat, q < Len(stream),
         At(q) = Frame(Of(q)), NEW m, m = Of(q), Given(m + 1)'
  PROVE  Place(q + 1)'
<1>1. /\ q + 1 < Len(stream) => Of(q + 1) = m + 1 /\ At(q + 1) = 1
      /\ q + 1 = Len(stream) => m = Len(size)
  BY FrameEnds
<1>2. Of(q + 1)' = Of(q + 1) /\ At(q + 1)' = At(q + 1)
  BY DEF Of, At
<1>3. CASE q + 1 < Len(stream)
  <2>1. Given(Of(q + 1))'
    BY <1>1, <1>2, <1>3 DEF Given
  <2>2. q + 1 # Len(stream)
    BY <1>3, ByteAt
  <2> QED BY <1>1, <1>2, <1>3, <2>1, <2>2 DEF Place
<1>4. CASE ~(q + 1 < Len(stream))
  <2>1. (q + 1 = Len(stream)) => Given(Len(size) + 1)'
    BY <1>1 DEF Given
  <2> QED BY <1>4, <2>1 DEF Place
<1> QED BY <1>3, <1>4

(* The connection is read again, for a message of its own.                 *)
LEMMA ReadAgain ==
  ASSUME HandleRead, StreamInv', DeliveredInv', Place(pos)', ~MoreFollows,
         ~(chunk.keep /\ chunk.o_s < chunk.msg_size), failed = 0 => pc # "lost"
  PROVE  InStep'
<1>1. /\ pc' = "read" /\ iov' = Buffers(CHUNK) /\ next_iov' = 0 /\ next_offset' = 0
      /\ prev' = NULL /\ prev_size' = 0 /\ prev_remain' = 0 /\ failed' = failed
  BY DEF HandleRead, Complete, SubmitRead
<1>2. NoPrev' /\ (Buffers(CHUNK))' = Buffers(CHUNK)
  BY <1>1 DEF NoPrev, Buffers
<1>3. ReadInv'
  BY <1>1, <1>2 DEF ReadInv
<1> QED BY <1>1, <1>3 DEF InStep, HandleInv, CopyInv

(* A message of which not all came is kept, and the rest is asked for.      *)
LEMMA KeepsRest ==
  ASSUME Continue, next_iov' = 0, next_offset' = 0, UNCHANGED <<size, stream, pos, failed>>,
         StreamInv', DeliveredInv, failed = 0 => pc # "lost",
         NEW m, size[m] \in Nat, chunk.msg_size = size[m], chunk.o_s \in Nat,
         chunk.o_s < size[m], Prefix(chunk.dest, m, chunk.o_s), Given(m),
         pos < Len(stream), stream[pos + 1] = <<m, HDR + chunk.o_s + 1>>
  PROVE  InStep'
<1>1. PICK z \in Nat, o \in Nat : z = size[m] /\ o = chunk.o_s /\ o < z
  OBVIOUS
<1>2. /\ pc' = "read" /\ iov' = Buffers(z - o) /\ delivered' = delivered
      /\ prev' = chunk.dest /\ prev_size' = z /\ prev_remain' = z - o
  BY <1>1 DEF Continue, SubmitRead
<1>3. DeliveredInv'
  BY <1>2, DeliveredStays
<1>4. Kept' = o /\ z - o \in Nat \ {0} /\ o \in 0 .. z - 1 /\ z > 0
  BY <1>1, <1>2 DEF Kept
<1>5. HasPrev'
  <2>1. chunk.dest \in [1 .. z -> Bytes]
    BY <1>1 DEF Prefix
  <2>2. chunk.dest # NULL
    <3>1. chunk.dest \in Seq(Bytes) /\ Len(chunk.dest) = z
      BY <2>1, BlockIs
    <3> QED BY <1>4, <3>1, EmptySeq DEF NULL
  <2> QED BY <1>2, <1>4, <2>2 DEF HasPrev
<1>6. Carries(pos)'
  <2>1. /\ pos' < Len(stream') /\ stream'[pos' + 1] = <<m, HDR + Kept' + 1>>
        /\ Of(pos)' = m
    BY <1>1, <1>4 DEF Of
  <2>2. prev_size' = size'[m] /\ prev_remain' \in Nat /\ Kept' \in 0 .. prev_size' - 1
    BY <1>1, <1>2, <1>4
  <2>3. Prefix(prev, Of(pos), Kept)'
    BY <1>1, <1>2, <1>4, <2>1 DEF Prefix
  <2>4. Given(Of(pos))'
    BY <1>2, <2>1 DEF Given, Readed, MessageOf, Content
  <2> QED BY <2>1, <2>2, <2>3, <2>4 DEF Carries
<1>7. ReadInv'
  <2>1. iov' = Buffers(prev_remain)'
    BY <1>2 DEF Buffers
  <2> QED BY <1>5, <1>6, <2>1 DEF ReadInv
<1> QED BY <1>2, <1>3, <1>7 DEF InStep, HandleInv, CopyInv

(* The end of read_chunk: a message is delivered, or kept for the next read*)
LEMMA HandleReadInv ==
  ASSUME InStep, HandleRead
  PROVE  InStep'
<1>1. StreamInv /\ DeliveredInv /\ pc = "copy" /\ (failed = 0 => pc # "lost")
      /\ Buffered /\ next_iov = 0 /\ chunk \in Chunks
      /\ ((First /\ (CopyFirst \/ CopyNone)) \/ (Rest /\ CopyRest))
  BY DEF InStep, HandleRead, HandleInv, CopyInv
<1>2. UNCHANGED <<size, stream, pos, failed>> /\ chunk.i = Len(iov)
  BY DEF HandleRead
<1>3. StreamInv' /\ size \in Seq(Sizes)
  <2>1. size \in Seq(Sizes)
    BY <1>1 DEF StreamInv
  <2> QED BY <1>1, <1>2, <2>1, StreamStays
<1>4. /\ Len(iov) \in Nat \ {0} /\ Base \in Nat /\ Base < Len(stream) /\ Room \in Nat \ {0}
      /\ pos = Base + Room /\ pos <= Len(stream) /\ Len(stream) \in Nat /\ pos \in Nat
      /\ CHUNK \in Nat \ {0} /\ HDR \in Nat \ {0}
  BY <1>1, ReadIs, FramingAssumption
<1>5. \A p : Of(p)' = Of(p) /\ At(p)' = At(p)
  BY <1>2 DEF Of, At
<1>6. CASE First /\ CopyFirst
  <2>1. PICK m : m = Of(Here)
    OBVIOUS
  <2>2. /\ Here \in Nat /\ Here < Len(stream) /\ next_offset \in Nat /\ next_offset < Room
        /\ Room = iov[1].len /\ Len(iov) = 1 /\ m \in 1 .. Len(size) /\ size[m] \in Nat \ {0}
        /\ Room <= CHUNK /\ Here = Base + next_offset /\ At(Here) = 1
        /\ Frame(m) = HDR + size[m] + 1 /\ m \in Nat
    BY <1>1, <1>6, <2>1, InTurn, ByteAt DEF First, CopyFirst
  <2>3. PICK p \in Nat, r \in Nat, f \in Nat, z \in Nat \ {0}, h \in Nat \ {0}, c \in Nat :
          /\ p = Here /\ r = Room /\ f = next_offset /\ z = size[m] /\ h = HDR /\ c = CHUNK
          /\ p < Len(stream) /\ f < r /\ r <= c /\ pos = p + (r - f) /\ Frame(m) = h + z + 1
          /\ Of(p) = m /\ At(p) = 1
    <3>1. pos = Here + (Room - next_offset)
      BY <1>4, <2>2
    <3> QED BY <1>4, <2>2, <2>1, <3>1
  <2>4. f + h + z <= r \/ (f = 0 /\ h <= r /\ r < z)
    BY <1>1, <1>6, <2>2, <2>3, <2>1, WholeOrLong
  <2>5. /\ chunk.msg_size = z /\ (chunk.keep <=> f = 0 /\ z > r)
        /\ Prefix(chunk.dest, m, chunk.o_s) /\ chunk.o_s = Smaller(z, r - f - h)
        /\ chunk.readed = chunk.o_s + h + 1 /\ chunk.curr_len = chunk.o_s
    <3>1. chunk.i = 1
      BY <1>2, <2>2
    <3> QED BY <1>6, <2>3, <2>1, <3>1 DEF CopyFirst
  <2>6. Given(m)
    BY <1>6, <2>2, <2>1 DEF First, Place
  <2>7. MoreFollows <=> f + chunk.readed < r
    BY <2>2, <2>3 DEF MoreFollows
  <2>8. \A d \in Nat : d + 1 <= h + z + 1 =>
          /\ p + d < Len(stream) /\ stream[p + d + 1] = <<m, d + 1>>
          /\ Of(p + d) = m /\ At(p + d) = d + 1
    <3> SUFFICES ASSUME NEW d \in Nat, d + 1 <= h + z + 1
                 PROVE  /\ p + d < Len(stream) /\ stream[p + d + 1] = <<m, d + 1>>
                        /\ Of(p + d) = m /\ At(p + d) = d + 1
      OBVIOUS
    <3>1. 1 + d = d + 1
      OBVIOUS
    <3>2. At(p) + d = d + 1 /\ At(p) + d <= Frame(Of(p)) /\ m = Of(p)
      BY <2>3, <3>1
    <3>3. /\ p + d < Len(stream) /\ stream[p + d + 1] = <<Of(p), At(p) + d>>
          /\ Of(p + d) = Of(p) /\ At(p + d) = At(p) + d
      BY <1>1, <2>3, <3>2, BytesFollow
    <3> QED BY <3>2, <3>3, Zenon
  <2>9. CASE f + h + z <= r
    <3>1. chunk.o_s = z
      BY <2>3, <2>5, <2>9 DEF Smaller
    <3>2. chunk.dest = Content(m) /\ ~(chunk.keep /\ chunk.o_s < chunk.msg_size)
      <4>1. chunk.dest = Content(m)
        BY <1>3, <2>2, <2>3, <2>5, <3>1, WholeBlock
      <4> QED BY <2>5, <3>1, <4>1
    <3>3. Complete /\ Deliver(Content(m))
      BY <3>2 DEF HandleRead, Complete
    <3>4. DeliveredInv' /\ Given(m + 1)'
      BY <1>1, <1>2, <2>2, <2>6, <3>3, DeliverMore
    <3>5. PICK q \in Nat : q = p + (h + z)
      OBVIOUS
    <3>6. q < Len(stream) /\ Of(q) = m /\ At(q) = Frame(Of(q))
      <4>1. h + z \in Nat /\ (h + z) + 1 <= h + z + 1 /\ (h + z) + 1 = h + z + 1
        OBVIOUS
      <4> QED BY <2>3, <2>8, <3>5, <4>1
    <3>7. Place(q + 1)'
      BY <1>1, <1>2, <3>4, <3>6, NextPlace
    <3>8. CASE ~MoreFollows
      <4>1. pos = q + 1 \/ pos = q
        <5>1. ~(f + (z + h + 1) < r)
          BY <2>5, <2>7, <3>1, <3>8
        <5>2. f + (h + z + 1) = r \/ f + (h + z) = r
          BY <2>9, <5>1
        <5>3. (r - f = h + z + 1 \/ r - f = h + z) /\ p + (h + z + 1) = q + 1
          BY <3>5, <5>2
        <5>4. PICK d \in Nat : d = r - f /\ pos = p + d
          BY <2>3
        <5> QED BY <3>5, <5>3, <5>4
      <4>2. Place(pos)'
        <5>1. CASE pos = q + 1
          BY <1>2, <3>7, <5>1 DEF Place, Of, At
        <5>2. CASE pos = q
          <6>1. At(q) # 1
            <7>1. At(q) = h + z + 1 /\ h + z + 1 # 1
              BY SMTT(30), <2>3, <3>6
            <7> QED BY <7>1
          <6>2. pos' # Len(stream') /\ Of(pos)' = m /\ At(pos)' = At(q)
            BY <1>2, <1>4, <3>6, <5>2 DEF Of, At
          <6>3. Given(Of(pos) + 1)'
            BY <3>4, <6>2 DEF Given
          <6>4. At(pos)' = Frame(Of(pos))'
            BY <1>2, <3>6, <5>2, <6>2 DEF Of, At, Frame
          <6> QED BY <6>1, <6>2, <6>3, <6>4 DEF Place
        <5> QED BY <4>1, <5>1, <5>2
      <4> QED BY <1>1, <1>3, <3>2, <3>4, <3>8, <4>2, ReadAgain
    <3>9. CASE MoreFollows
      <4>1. /\ pc' = "handle" /\ iov' = iov /\ next_iov' = 0
            /\ next_offset' = f + (h + z + 1)
            /\ prev' = NULL /\ prev_size' = 0 /\ prev_remain' = 0
        <5>1. next_iov' = Len(iov) - 1 /\ next_offset' = next_offset + chunk.curr_len + HDR + 1
          BY <3>9 DEF HandleRead
        <5>2. pc' = "handle" /\ iov' = iov /\ prev' = NULL /\ prev_size' = 0 /\ prev_remain' = 0
          BY <3>3, <3>9 DEF Complete
        <5>3. next_offset' = f + z + h + 1
          BY <2>3, <2>5, <3>1, <5>1
        <5>4. Len(iov) - 1 = 0
          BY <2>2
        <5> QED BY <5>1, <5>2, <5>3, <5>4
      <4>2. Room' = r /\ Base' = Base /\ Buffered'
        <5>1. Room' = Room
          BY <4>1 DEF Room
        <5>2. Base' = Base
          BY <1>2, <5>1 DEF Base
        <5>3. Buffered' = Buffered
          BY <1>2, <4>1, <5>1, <5>2, Zenon DEF Buffered
        <5> QED BY <1>1, <2>3, <5>1, <5>2, <5>3
      <4>3. Here' = q + 1
        <5>1. PICK s \in Nat : s = Base /\ p = s + f
          BY <1>4, <2>2, <2>3
        <5>2. s + (f + (h + z + 1)) = q + 1
          BY <3>5, <5>1
        <5> QED BY <4>1, <4>2, <5>1, <5>2, Zenon DEF Here
      <4>4. f + (h + z + 1) < r
        BY <2>5, <2>7, <3>1, <3>9
      <4>5. q + 1 < pos /\ q + 1 < Len(stream) /\ q + 1 \in Nat
        <5>1. PICK s \in Nat : s = pos /\ s = p + (r - f)
          BY <1>4, <2>3
        <5>2. q + 1 < s
          BY <3>5, <4>4, <5>1
        <5>3. PICK l \in Nat : l = Len(stream) /\ s <= l
          BY <1>4, <5>1
        <5> QED BY <5>1, <5>2, <5>3
      <4>6. Of(q + 1) = m + 1 /\ At(q + 1) = 1
        BY <1>1, <3>6, <4>5, FrameEnds
      <4>7. Place(Here)'
        BY <3>7, <4>3 DEF Place, Of, At
      <4>8. CutRight'
        <5>1. ~(next_offset = 0 /\ stream[pos][1] = Of(Base) /\ Room < size[stream[pos][1]])
          <6> SUFFICES ASSUME next_offset = 0, stream[pos][1] = Of(Base),
                              Room < size[stream[pos][1]]
                       PROVE  FALSE
            OBVIOUS
          <6>1. Base = Here
            BY <1>4, <2>2
          <6>2. Of(Base) = m
            BY <2>1, <6>1
          <6> QED BY <2>3, <4>4, <6>2
        <5>2. stream[pos][2] >= HDR + size[stream[pos][1]]
          BY <1>6, <5>1 DEF First, CutRight
        <5>3. stream'[pos'] = stream[pos] /\ size' = size
          BY <1>2
        <5> QED BY <5>2, <5>3 DEF CutRight
      <4>9. First'
        <5>1. next_offset' \in 0 .. Room' - 1
          BY <4>1, <4>2, <4>4
        <5>2. At(Here)' = 1
          BY <1>2, <4>3, <4>6 DEF At
        <5>3. NoPrev' /\ Len(iov') = 1
          BY <2>2, <4>1 DEF NoPrev
        <5> QED BY <4>7, <4>8, <5>1, <5>2, <5>3 DEF First
      <4> QED BY <1>1, <1>2, <1>3, <3>4, <4>1, <4>2, <4>9
              DEF InStep, ReadInv, HandleInv, CopyInv
    <3> QED BY <3>8, <3>9
  <2>10. CASE f = 0 /\ h <= r /\ r < z
    <3>1. PICK o \in Nat : o = chunk.o_s /\ o = r - h /\ o < z /\ pos = p + h + o
      <4>1. Smaller(z, r - f - h) = r - h
        BY <2>10 DEF Smaller
      <4>2. r - h \in Nat /\ r - h < z /\ pos = p + h + (r - h)
        BY <2>3, <2>10
      <4> QED BY <2>5, <4>1, <4>2
    <3>2. ~MoreFollows
      BY <2>5, <2>7, <2>10, <3>1
    <3>3. pos < Len(stream) /\ stream[pos + 1] = <<m, h + o + 1>>
      <4>1. h + o \in Nat /\ (h + o) + 1 <= h + z + 1 /\ p + (h + o) = pos
            /\ (h + o) + 1 = h + o + 1
        BY <2>3, <3>1
      <4> QED BY <2>8, <4>1
    <3>4. Continue /\ next_iov' = 0 /\ next_offset' = 0
      <4>1. chunk.keep /\ chunk.o_s < chunk.msg_size
        BY <2>5, <2>10, <3>1
      <4> QED BY <3>2, <4>1 DEF HandleRead
    <3> QED BY <1>1, <1>2, <1>3, <2>3, <2>5, <2>6, <3>1, <3>3, <3>4, KeepsRest
  <2> QED BY <2>4, <2>9, <2>10
<1>7. CASE First /\ CopyNone
  <2>1. /\ Here \in Nat /\ Here < Len(stream) /\ next_offset = 0
        /\ Room = iov[1].len /\ Len(iov) = 1 /\ Room = 1 /\ pos = Here + 1
        /\ At(Here) # 1 /\ At(Here) = Frame(Of(Here))
        /\ chunk.msg_size = 0 /\ chunk.dest = <<>> /\ ~chunk.keep
    <3>1. At(Here) # 1 /\ chunk.msg_size = 0 /\ chunk.dest = <<>> /\ ~chunk.keep
      BY <1>7 DEF CopyNone
    <3>2. Room = 1 /\ At(Here) = Frame(Of(Here)) /\ Len(iov) = 1
      BY <1>7, <3>1 DEF First
    <3>3. /\ Here \in Nat /\ Here < Len(stream) /\ next_offset \in Nat /\ next_offset < Room
          /\ Here = Base + next_offset /\ pos = Base + Room /\ Room = iov[1].len
      BY <1>1, <1>7, InTurn
    <3>4. next_offset = 0
      BY <3>2, <3>3
    <3>5. pos = Here + 1
      BY <1>4, <3>2, <3>3, <3>4
    <3> QED BY <3>1, <3>2, <3>3, <3>4, <3>5
  <2>2. chunk.readed = HDR + 1
    <3>1. chunk.i = 1
      BY <1>2, <2>1
    <3> QED BY <1>7, <3>1 DEF CopyNone
  <2>3. ~MoreFollows
    BY <1>4, <2>1, <2>2 DEF MoreFollows
  <2>4. Deliver(<<>>)
    BY <2>1 DEF HandleRead, Complete
  <2>5. PICK m, l : m = Of(Here) /\ l = m + 1
    OBVIOUS
  <2>6. Given(l)
    BY <1>7, <2>1, <2>5 DEF First, Place
  <2>7. DeliveredInv' /\ Given(l)'
    BY <1>1, <1>2, <2>4, <2>6, DeliverNone
  <2>8. Place(pos)'
    <3>1. PICK q \in Nat : q = Here /\ pos = q + 1
      BY <2>1
    <3>2. Place(q + 1)'
      BY <1>1, <1>2, <2>1, <2>5, <2>7, <3>1, NextPlace
    <3> QED BY <1>2, <3>1, <3>2 DEF Place, Of, At
  <2> QED BY <1>1, <1>3, <2>1, <2>3, <2>7, <2>8, ReadAgain
<1>8. CASE Rest /\ CopyRest
  <2>1. PICK m : m = Of(Base)
    OBVIOUS
  <2>2. /\ Room <= prev_remain /\ prev_remain \in Nat /\ Kept \in 0 .. prev_size - 1
        /\ prev_size = size[m] /\ Kept = prev_size - prev_remain
        /\ stream[Base + 1] = <<m, HDR + Kept + 1>> /\ next_offset = 0
        /\ Given(m)
    BY <1>8, <2>1 DEF Rest, Carries, Kept
  <2>3. /\ m \in 1 .. Len(size) /\ size[m] \in Nat /\ Frame(m) = HDR + size[m] + 1
    BY <1>1, <1>4, <2>1, ByteAt
  <2>4. /\ chunk.keep /\ chunk.msg_size = prev_size /\ chunk.o_s = Kept + Room
        /\ Prefix(chunk.dest, m, chunk.o_s) /\ chunk.readed \in Nat
        /\ chunk.readed >= iov[Len(iov)].len
        /\ At(Base) = HDR + Kept + 1
    <3>1. chunk.i = Len(iov) /\ chunk.i > 0
      BY <1>2, <1>4
    <3>2. At(Base) = HDR + Kept + 1
      BY <2>2 DEF At
    <3> QED BY <1>8, <2>1, <3>1, <3>2 DEF CopyRest
  <2>5. PICK p \in Nat, r \in Nat \ {0}, k \in Nat, z \in Nat, h \in Nat \ {0} :
          /\ p = Base /\ r = Room /\ k = Kept /\ z = prev_size /\ h = HDR
          /\ z = size[m] /\ r <= z - k /\ k < z /\ pos = p + r
    <3>1. Kept \in Nat /\ prev_size \in Nat /\ Kept < prev_size
      BY <2>2, <2>3
    <3>2. prev_remain = prev_size - Kept
      BY <2>2, <3>1
    <3> QED BY <1>4, <2>2, <3>1, <3>2
  <2>6. ~MoreFollows
    <3>1. PICK l \in Nat, w \in Nat : l = iov[Len(iov)].len /\ w = chunk.readed
      <4>1. iov[Len(iov)].len \in 1 .. CHUNK
        BY <1>1, <1>4, BufferAt
      <4>2. iov[Len(iov)].len \in Nat
        BY <1>4, <4>1
      <4> QED BY <2>4, <4>2
    <3> QED BY <2>2, <2>4, <3>1 DEF MoreFollows
  <2>7. PICK o \in Nat \ {0} : o = chunk.o_s /\ o = k + r /\ o <= z
    BY <2>4, <2>5
  <2>8. /\ pos < Len(stream) /\ stream[pos + 1] = <<m, h + o + 1>>
        /\ Of(pos) = m /\ At(pos) = h + o + 1
    <3>1. At(p) + r = h + o + 1 /\ h + o + 1 <= h + z + 1 /\ Frame(Of(p)) = h + z + 1
      BY <2>1, <2>3, <2>4, <2>5, <2>7
    <3>2. At(p) + r <= Frame(Of(p)) /\ p < Len(stream)
      BY <1>4, <2>5, <3>1
    <3> QED BY <1>1, <2>1, <2>5, <3>1, <3>2, BytesFollow
  <2>9. CASE o = z
    <3>1. chunk.dest = Content(m) /\ ~(chunk.keep /\ chunk.o_s < chunk.msg_size)
      <4>1. chunk.dest = Content(m)
        BY <1>3, <2>3, <2>4, <2>5, <2>7, <2>9, WholeBlock
      <4> QED BY <2>4, <2>5, <2>7, <2>9, <4>1
    <3>2. Deliver(Content(m))
      BY <3>1 DEF HandleRead, Complete
    <3>3. DeliveredInv' /\ Given(m + 1)'
      BY <1>1, <1>2, <2>2, <2>3, <3>2, DeliverMore
    <3>4. Place(pos)'
      <4>1. h + z + 1 # 1
        BY SMTT(30), <2>5
      <4>2. Of(pos)' = m /\ At(pos)' = h + z + 1 /\ pos' # Len(stream')
        BY <1>2, <1>4, <2>8, <2>9 DEF Of, At
      <4>3. Given(Of(pos) + 1)'
        BY <3>3, <4>2 DEF Given
      <4>4. At(pos)' = Frame(Of(pos))'
        BY <1>2, <2>5, <4>2 DEF Frame
      <4> QED BY <4>1, <4>2, <4>3, <4>4 DEF Place
    <3> QED BY <1>1, <1>3, <2>6, <3>1, <3>3, <3>4, ReadAgain
  <2>10. CASE o # z
    <3>1. Continue /\ next_iov' = 0 /\ next_offset' = 0
      <4>1. chunk.keep /\ chunk.o_s < chunk.msg_size
        BY <2>4, <2>5, <2>7, <2>10
      <4> QED BY <2>6, <4>1 DEF HandleRead
    <3>2. chunk.msg_size = size[m] /\ size[m] = z /\ chunk.o_s = o /\ HDR = h
      BY <2>4, <2>5, <2>7
    <3>3. o < z
      BY <2>7, <2>10
    <3>4. /\ chunk.msg_size = size[m] /\ chunk.o_s \in Nat /\ chunk.o_s < size[m]
          /\ stream[pos + 1] = <<m, HDR + chunk.o_s + 1>>
      BY <2>8, <3>2, <3>3
    <3> QED BY <1>1, <1>2, <1>3, <2>2, <2>3, <2>4, <2>8, <3>1, <3>4, KeepsRest
  <2> QED BY <2>9, <2>10
<1> QED BY <1>1, <1>6, <1>7, <1>8

(* Without memory what was read is dropped, and the next read starts where *)
(* it ended: behind a message, or in a long one.                           *)
LEMMA HandleReadFailsInv ==
  ASSUME InStep, HandleReadFails
  PROVE  InStep'
<1>1. StreamInv /\ DeliveredInv /\ Buffered /\ next_iov = 0 /\ next_offset = 0 /\ First
      /\ failed \in Nat
  <2>1. StreamInv /\ DeliveredInv /\ Buffered /\ next_iov = 0 /\ First
        /\ failed \in Nat
    BY DEF InStep, HandleReadFails, HandleInv, Rest, DeliveredInv
  <2>2. next_offset \in Nat
    BY <2>1, InTurn
  <2> QED BY <2>1, <2>2 DEF HandleReadFails, HasNext
<1>2. /\ pc' = "read" /\ iov' = Buffers(CHUNK) /\ failed' = failed + 1
      /\ UNCHANGED <<size, stream, pos, prev, prev_size, prev_remain, next_iov,
                     next_offset, delivered>>
  BY DEF HandleReadFails, SubmitRead, carried, next
<1>3. /\ Here = Base /\ Here \in Nat /\ Here < Len(stream) /\ pos = Base + Room
      /\ pos <= Len(stream) /\ Len(stream) \in Nat /\ Room \in Nat \ {0} /\ failed' # 0
  BY <1>1, <1>2, InTurn, ReadIs
<1>4. PICK m \in Nat, p \in Nat : m = Of(Here) /\ p = Here
  BY <1>1, <1>3, InTurn
<1>5. PICK q \in Nat : q = pos - 1 /\ q + 1 = pos /\ p <= q /\ q < Len(stream)
  <2>1. pos - 1 \in Nat /\ (pos - 1) + 1 = pos /\ Here <= pos - 1 /\ pos - 1 < Len(stream)
    BY <1>3
  <2> QED BY <1>4, <2>1
<1>6. PICK w \in Nat : w = Of(q) /\ m <= w
  <2>1. p + 1 \in 1 .. Len(stream) /\ q + 1 \in 1 .. Len(stream) /\ p + 1 <= q + 1
    BY <1>3, <1>5
  <2>2. stream[p + 1][1] <= stream[q + 1][1]
    BY <1>1, <2>1 DEF StreamInv
  <2>3. Of(q) \in 1 .. Len(size)
    BY <1>1, <1>5, ByteAt
  <2> QED BY <1>4, <2>2, <2>3 DEF Of
<1>7. Readed' = Readed /\ \A i : MessageOf(i)' = MessageOf(i)
  BY <1>2 DEF Readed, MessageOf
<1>8. \A i \in Readed : MessageOf(i) < w + 1
  <2> SUFFICES ASSUME NEW i \in Readed
               PROVE  MessageOf(i) < w + 1
    OBVIOUS
  <2>1. MessageOf(i) < m \/ MessageOf(i) < m + 1
    <3>1. Given(m) \/ Given(m + 1)
      BY <1>1, <1>3, <1>4 DEF First, Place
    <3> QED BY <3>1 DEF Given
  <2>2. MessageOf(i) \in Nat
    BY <1>1, ReadedIs
  <2> QED BY <1>6, <2>1, <2>2
<1>9. Given(w + 1)'
  BY <1>3, <1>7, <1>8 DEF Given
<1>10. StreamInv'
  BY <1>1, <1>2, StreamStays
<1>11. DeliveredInv'
  <2>1. \A m_1 : Content(m_1)' = Content(m_1)
    BY <1>2 DEF Content
  <2>2. \A i \in Readed' : \E m_1 \in DOMAIN size' : delivered'[i] = Content(m_1)'
    BY <1>1, <1>2, <1>7, <2>1 DEF DeliveredInv, AsSent
  <2>3. \A i, j \in Readed' : i < j => MessageOf(i)' < MessageOf(j)'
    BY <1>1, <1>7 DEF DeliveredInv, AsSent
  <2>4. AsSent'
    BY <1>3, <2>2, <2>3 DEF AsSent
  <2>5. failed' \in Nat
    BY <1>1, <1>2
  <2> QED BY <1>1, <1>2, <2>4, <2>5 DEF DeliveredInv
<1>12. Place(pos)'
  <2>1. CASE At(q) = Frame(w)
    <3>1. Place(q + 1)'
      BY <1>1, <1>2, <1>5, <1>6, <1>9, <2>1, NextPlace
    <3> QED BY <1>2, <1>5, <3>1 DEF Place, Of, At
  <2>2. CASE At(q) # Frame(w)
    <3>1. PICK a \in Nat : a = At(q) /\ a # 0 /\ At(q) + 1 = a + 1 /\ a + 1 <= Frame(Of(q))
      <4>1. At(q) \in 1 .. Frame(w) /\ Frame(w) = HDR + size[w] + 1 /\ size[w] \in Nat
            /\ HDR \in Nat
        BY <1>1, <1>5, <1>6, ByteAt, FramingAssumption
      <4>2. PICK a \in Nat, f \in Nat : a = At(q) /\ f = Frame(w) /\ a \in 1 .. f
        BY <4>1
      <4>3. a # f
        BY <2>2, <4>2
      <4> QED BY <1>6, <4>2, <4>3
    <3>2. q + 1 < Len(stream) /\ Of(q + 1) = w /\ At(q + 1) = a + 1
      BY <1>1, <1>5, <1>6, <3>1, BytesFollow
    <3>3. Of(pos)' = w /\ At(pos)' = a + 1 /\ pos' < Len(stream') /\ a + 1 # 1
      BY SMTT(30), <1>2, <1>5, <3>1, <3>2 DEF Of, At
    <3>4. pos' # Len(stream')
      BY <1>2, <1>3, <3>3
    <3>5. Given(Of(pos) + 1)'
      BY <1>9, <3>3 DEF Given
    <3> QED BY <1>3, <3>3, <3>4, <3>5 DEF Place
  <2> QED BY <2>1, <2>2
<1>13. ReadInv'
  <2>1. NoPrev' /\ (Buffers(CHUNK))' = Buffers(CHUNK)
    BY <1>1, <1>2 DEF First, NoPrev, Buffers
  <2> QED BY <1>1, <1>2, <1>12, <2>1 DEF ReadInv
<1> QED BY <1>2, <1>10, <1>11, <1>13 DEF InStep, HandleInv, CopyInv

-----------------------------------------------------------------------------
(* The theorems.                                                           *)

(* Nothing was sent, and the connection is read for the first time.        *)
LEMMA InitInv ==
  ASSUME Init
  PROVE  InStep
<1>1. /\ size = <<>> /\ stream = <<>> /\ pos = 0 /\ pc = "read" /\ iov = Buffers(CHUNK)
      /\ prev = NULL /\ prev_size = 0 /\ prev_remain = 0
      /\ next_iov = 0 /\ next_offset = 0 /\ delivered = <<>> /\ failed = 0
  BY DEF Init
<1>2. /\ size \in Seq(Sizes) /\ stream \in Seq(Nat \X Nat) /\ delivered \in Seq(Seq(Nat \X Nat))
      /\ Len(size) = 0 /\ Len(stream) = 0
  BY <1>1, EmptySeq
<1>3. Readed = {}
  BY <1>1 DEF Readed
<1>4. StreamInv
  BY <1>1, <1>2 DEF StreamInv
<1>5. DeliveredInv
  BY <1>1, <1>2, <1>3 DEF DeliveredInv, AsSent
<1>6. Place(pos)
  <2>1. Given(Len(size) + 1)
    BY <1>2, <1>3 DEF Given
  <2> QED BY <1>1, <1>2, <2>1 DEF Place
<1>7. ReadInv
  BY <1>1, <1>6 DEF ReadInv, NoPrev
<1> QED BY <1>1, <1>4, <1>5, <1>7 DEF InStep, HandleInv, CopyInv

(* A step that changes nothing changes nothing of the invariant.           *)
LEMMA StutterInv ==
  ASSUME InStep, UNCHANGED vars
  PROVE  InStep'
<1>1. UNCHANGED <<size, stream, pos, pc, iov, carried, next, chunk, delivered, failed>>
  BY DEF vars
<1>2. StreamInv' /\ DeliveredInv'
  BY <1>1, StreamStays, DeliveredStays DEF InStep
<1>3. /\ Buffered' = Buffered /\ First' = First /\ Rest' = Rest
      /\ Room' = Room /\ Base' = Base /\ Here' = Here /\ Kept' = Kept
      /\ Of(Here)' = Of(Here) /\ At(Here)' = At(Here) /\ Of(Base)' = Of(Base)
      /\ UNCHANGED <<prev, prev_size, prev_remain, next_iov, next_offset>>
  BY <1>1, HandleStays
<1>4. HandleInv'
  BY <1>1, <1>3 DEF InStep, HandleInv
<1>5. ReadInv'
  <2>1. Place(pos)' = Place(pos)
    BY <1>1 DEF Place, Given, Readed, MessageOf, Content, Of, At, Frame
  <2>2. Carries(pos)' = Carries(pos)
    BY <1>1, <1>3 DEF Carries, Prefix, Given, Readed, MessageOf, Content, Of
  <2>3. NoPrev' = NoPrev /\ HasPrev' = HasPrev /\ (Buffers(CHUNK))' = Buffers(CHUNK)
        /\ (Buffers(prev_remain))' = Buffers(prev_remain)
    BY <1>3 DEF NoPrev, HasPrev, Buffers
  <2> QED BY <1>1, <1>3, <2>1, <2>2, <2>3 DEF InStep, ReadInv
<1>6. CopyInv'
  <2>1. CopyFirst' = CopyFirst
    BY <1>1, <1>3 DEF CopyFirst, Prefix, Smaller
  <2>2. CopyNone' = CopyNone
    BY <1>1, <1>3 DEF CopyNone
  <2>3. CopyRest' = CopyRest
    BY <1>1, <1>3 DEF CopyRest, Prefix
  <2> QED BY <1>1, <1>3, <2>1, <2>2, <2>3 DEF InStep, CopyInv
<1> QED BY <1>1, <1>2, <1>4, <1>5, <1>6 DEF InStep

(* As long as no read was torn, handle_read and read_chunk know at each    *)
(* point where in the stream they are and what of it they have.            *)
THEOREM FramingInvariant == Spec => []FramingInv
<1>1. Init => FramingInv
  BY InitInv DEF FramingInv
<1>2. FramingInv /\ [Next]_vars => FramingInv'
  <2> SUFFICES ASSUME FramingInv, [Next]_vars, ~torn'
               PROVE  InStep'
    BY DEF FramingInv
  <2>1. ~torn
    BY DEF Next, PeerSend, Completion, ReadChunk, CopyTurn, HandleRead, HandleReadFails,
           vars
  <2>2. InStep
    BY <2>1 DEF FramingInv
  <2>3. CASE PeerSend
    BY <2>2, <2>3, PeerSendInv
  <2>4. CASE Completion
    BY <2>2, <2>4, CompletionInv
  <2>5. CASE ReadChunk
    BY <2>2, <2>5, ReadChunkInv
  <2>6. CASE CopyTurn
    BY <2>2, <2>6, CopyTurnInv
  <2>7. CASE HandleRead
    BY <2>2, <2>7, HandleReadInv
  <2>8. CASE HandleReadFails
    BY <2>2, <2>8, HandleReadFailsInv
  <2>9. CASE UNCHANGED vars
    BY <2>2, <2>9, StutterInv
  <2> QED BY <2>3, <2>4, <2>5, <2>6, <2>7, <2>8, <2>9 DEF Next
<1> QED BY <1>1, <1>2, PTL DEF Spec

(* A message of any size, several to a read or carried over by as many     *)
(* requests as it takes, is given to on_readed once, whole and in order,   *)
(* wherever it falls in the buffers and wherever a read of it ends, until  *)
(* a read is torn (handle_read, read_chunk).  Without memory messages may  *)
(* be missing, and the others still are whole.                             *)
THEOREM MessagesIntact == Spec => []Intact
<1>1. FramingInv => Intact
  BY DEF FramingInv, InStep, DeliveredInv, Intact
<1> QED BY <1>1, FramingInvariant, PTL

(* When nothing is left to read every message was delivered, and no size   *)
(* is read from bytes that are none, as long as no read was torn and there *)
(* was memory (handle_read, add_read, add_read_continue).                  *)
THEOREM NoMessageSkipped == Spec => []NothingSkipped
<1>1. FramingInv => NothingSkipped
  <2> SUFFICES ASSUME InStep, failed = 0, Idle
               PROVE  \A m \in DOMAIN size : \E i \in Readed : delivered[i] = Content(m)
    BY DEF FramingInv, InStep, NothingSkipped
  <2>1. StreamInv /\ ReadInv
    BY DEF InStep
  <2>2. pos \in Nat /\ Len(stream) \in Nat /\ Len(size) \in Nat /\ DOMAIN size = 1 .. Len(size)
    BY <2>1, LenProperties DEF StreamInv
  <2>3. pc = "read" /\ pos = Len(stream) /\ ~HasPrev
    BY <2>2 DEF Idle, Available, HasPrev
  <2>4. Given(Len(size) + 1)
    BY <2>1, <2>3 DEF ReadInv, Place
  <2>5. (Len(size) + 1) - 1 = Len(size)
    BY <2>2
  <2> QED BY <2>2, <2>4, <2>5 DEF Given
<1> QED BY <1>1, FramingInvariant, PTL
=============================================================================
