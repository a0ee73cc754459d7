---------------------------- MODULE ReadFraming -----------------------------
(***************************************************************************)
(* How the bytes of a connection are cut into messages: the read requests  *)
(* of add_read and add_read_continue, handle_read and read_chunk of        *)
(* low_saurion.c.                                                          *)
(*                                                                         *)
(* A peer sends each message as a header of HDR bytes that holds its size, *)
(* the bytes of the message, and one terminator.  Byte k of that frame of  *)
(* message m is named <<m, k>>.  Bytes of a message are not zero; Zero is  *)
(* what the buffers of a read request are filled with, Raw is memory that  *)
(* malloc returned and nothing wrote.                                      *)
(*                                                                         *)
(* TCP cuts the stream anywhere, and the peer sends without waiting.  That *)
(* a read is cut where read_chunk cannot follow is recorded in torn.       *)
(***************************************************************************)
EXTENDS Integers, SequencesExt

CONSTANTS
  CHUNK,     (* CHUNK_SZ, the size of a buffer                             *)
  HDR,       (* 8, the bytes of a size_t                                   *)
  Sizes,     (* the sizes of messages                                      *)
  MaxMsgs,   (* the messages a peer sends at most                          *)
  ShortReads, (* a read may bring less than it has room for                *)
  MaxFails,  (* the calls of malloc in read_chunk that fail at most        *)
  Zero, Raw

ASSUME FramingAssumption ==
  /\ HDR \in Nat \ {0} /\ CHUNK \in Nat /\ CHUNK > HDR + 1
  /\ Sizes \subseteq Nat \ {0}
  /\ MaxMsgs \in Nat /\ MaxFails \in Nat
  /\ ShortReads \in BOOLEAN
  /\ Zero # Raw /\ Zero \notin Nat \X Nat /\ Raw \notin Nat \X Nat

NULL == <<>>

VARIABLES
  size,      (* the sizes of the messages sent                             *)
  stream,    (* the bytes sent                                             *)
  pos,       (* the bytes of the stream that were read                     *)
  pc,        (* "read": a request is submitted; "handle": handle_read is   *)
             (* about to call read_chunk; "copy": the loop of read_chunk;  *)
             (* "lost": a size was read from bytes that are no header      *)
  iov,       (* the buffers of the request: iov_len, content               *)
  prev, prev_size, prev_remain,   (* the message carried over              *)
  next_iov, next_offset,          (* where the next message of a read is   *)
  chunk,     (* the variables of read_chunk                                *)
  delivered, (* the content given to on_readed, call by call               *)
  failed,    (* the calls of malloc that failed                            *)
  torn       (* history: a read came that read_chunk cannot follow         *)

carried == <<prev, prev_size, prev_remain>>
next    == <<next_iov, next_offset>>
vars    == <<size, stream, pos, pc, iov, carried, next, chunk, delivered, failed,
             torn>>

Frame(m)  == HDR + size[m] + 1
Available == Len(stream) - pos

Smaller(a, b) == IF a < b THEN a ELSE b

(* set_request without a message: buffers full of zeros for s bytes.       *)
Buffers(s) ==
  LET amount == (s + CHUNK - 1) \div CHUNK
  IN  [i \in 1 .. amount |->
         [len  |-> IF i = amount /\ s % CHUNK # 0 THEN s % CHUNK ELSE CHUNK,
          data |-> [k \in 0 .. CHUNK - 1 |-> Zero]]]

(* What readv has room for: all buffers but the last are of CHUNK bytes.   *)
Room == (Len(iov) - 1) * CHUNK + iov[Len(iov)].len

(* The variables of read_chunk before its loop, for a message of n bytes   *)
(* of which o were copied, that goes to d; outside of read_chunk there are *)
(* none.                                                                   *)
Locals(n, o, from, d, keep) ==
  [msg_size |-> n, o_s |-> o, o_iov |-> from, dest |-> d, keep |-> keep,
   i |-> next_iov, curr_len |-> 0, readed |-> 0]

NoChunk == [msg_size |-> 0, o_s |-> 0, o_iov |-> 0, dest |-> NULL, keep |-> FALSE,
            i |-> 0, curr_len |-> 0, readed |-> 0]

Init ==
  /\ size = <<>> /\ stream = <<>> /\ pos = 0 /\ pc = "read"
  /\ iov = Buffers(CHUNK)
  /\ prev = NULL /\ prev_size = 0 /\ prev_remain = 0
  /\ next_iov = 0 /\ next_offset = 0 /\ chunk = NoChunk
  /\ delivered = <<>> /\ failed = 0 /\ torn = FALSE

-----------------------------------------------------------------------------
PeerSend ==
  /\ Len(size) < MaxMsgs
  /\ \E n \in Sizes :
       /\ size' = Append(size, n)
       /\ stream' = stream \o [k \in 1 .. HDR + n + 1 |-> <<Len(size) + 1, k>>]
  /\ UNCHANGED <<pos, pc, iov, carried, next, chunk, delivered, failed, torn>>

(* The reads that read_chunk can follow.  The rest of a message reaches    *)
(* into the last buffer.  Without a rest to come a read is the terminator  *)
(* of a message whose body filled the one before, alone; or it starts with *)
(* a header and ends behind the body of a message, or within the first one *)
(* if the size of that one is more than all that came.                     *)
Follows(n) ==
  LET first == stream[pos + 1]
      last  == stream[pos + n]
  IN  IF prev # NULL THEN n > (Len(iov) - 1) * CHUNK
      ELSE \/ n = 1 /\ first[2] = Frame(first[1])
           \/ /\ first[2] = 1
              /\ \/ last[2] >= HDR + size[last[1]]
                 \/ last[1] = first[1] /\ HDR <= n /\ n < size[first[1]]

(* What a read may bring.                                                  *)
Amounts ==
  LET most == Smaller(Room, Available)
  IN  IF ShortReads THEN 1 .. most ELSE {most} \ {0}

(* The completion of the read, and the first lines of handle_read, which   *)
(* set the length of the last buffer from the bytes read.                  *)
Completion ==
  /\ pc = "read"
  /\ \E n \in Amounts :
       /\ torn' = (torn \/ ~Follows(n))
       /\ pos' = pos + n
       /\ iov' = [i \in DOMAIN iov |->
            [len  |-> IF i = Len(iov)
                        THEN IF n % CHUNK = 0 THEN CHUNK ELSE n % CHUNK
                        ELSE iov[i].len,
             data |-> [k \in 0 .. CHUNK - 1 |->
                         IF (i - 1) * CHUNK + k < n
                           THEN stream[pos + (i - 1) * CHUNK + k + 1]
                           ELSE Zero]]]
  /\ pc' = "handle"
  /\ UNCHANGED <<size, stream, carried, next, chunk, delivered, failed>>

-----------------------------------------------------------------------------
(* read_chunk.                                                             *)

HasPrev == prev # NULL /\ prev_size > 0 /\ prev_remain > 0
HasNext == next_iov > 0 \/ next_offset > 0

(* The bytes of the size_t read, those past the end of the buffer apart.   *)
HeaderAt == LET b == iov[next_iov + 1].data
            IN  [k \in 1 .. HDR |-> IF next_offset + k - 1 < CHUNK
                                      THEN b[next_offset + k - 1] ELSE Raw]

IsZero(b) == b = Zero \/ (b # Raw /\ b[2] = Frame(b[1]))

(* The sizes the header can be read as: that of a message, zero, or one    *)
(* that has nothing to do with a message.                                  *)
Header ==
  LET h == HeaderAt
  IN  IF \A k \in 1 .. HDR : IsZero(h[k]) THEN 0
      ELSE IF h[1] \notin {Zero, Raw} /\ h = [k \in 1 .. HDR |-> <<h[1][1], k>>]
      THEN size[h[1][1]]
      ELSE -1

(* Mutant: a message behind another can be carried over too.               *)
Target_AnyCarried ==
  IF HasPrev
    THEN Locals(prev_size, prev_size - prev_remain, next_offset, prev, TRUE)
    ELSE Locals(Header, 0, next_offset + HDR, [k \in 1 .. Header |-> Raw],
                Header > iov[1].len)

(* The message a call of read_chunk is about: its size, what was copied    *)
(* of it, where the copy starts in the buffer, and the block it goes to.   *)
(* Only the first message of a read can be carried over.                   *)
Target ==
  IF HasPrev
    THEN Locals(prev_size, prev_size - prev_remain, next_offset, prev, TRUE)
    ELSE Locals(Header, 0, next_offset + HDR, [k \in 1 .. Header |-> Raw],
                ~HasNext /\ Header > iov[1].len)

(* A size read from bytes that are no header is whatever they make: the    *)
(* connection never gets back in step, and we do not follow it.            *)
ReadChunk ==
  /\ pc = "handle"
  /\ IF HasPrev \/ Header >= 0
       THEN pc' = "copy" /\ chunk' = Target
       ELSE pc' = "lost" /\ UNCHANGED chunk
  /\ UNCHANGED <<size, stream, pos, iov, carried, next, delivered, failed, torn>>

(* One turn of the copy: what is left of the message or of the buffer,     *)
(* where the difference of two size_t wraps when the header ended past the *)
(* bytes read.                                                             *)
CurrLen(b) ==
  LET left == chunk.msg_size - chunk.o_s
  IN  IF chunk.o_iov <= b.len THEN Smaller(left, b.len - chunk.o_iov) ELSE left

Copied(b, n) ==
  [k \in 1 .. chunk.msg_size |->
     IF chunk.o_s < k /\ k <= chunk.o_s + n
       THEN IF chunk.o_iov + k - chunk.o_s - 1 < CHUNK
              THEN b.data[chunk.o_iov + k - chunk.o_s - 1] ELSE Raw
       ELSE chunk.dest[k]]

CopyTurn ==
  /\ pc = "copy" /\ chunk.i < Len(iov)
  /\ LET b == iov[chunk.i + 1]
         n == CurrLen(b)
     IN  chunk' = [chunk EXCEPT !.dest = Copied(b, n), !.readed = @ + n + HDR + 1,
                                !.o_s = @ + n, !.o_iov = 0, !.curr_len = n,
                                !.i = @ + 1]
  /\ UNCHANGED <<size, stream, pos, pc, iov, carried, next, delivered, failed, torn>>

(* Mutant: the bytes left are compared with an off-by-one.                 *)
MoreFollows_OffByOne == next_offset + chunk.readed <= iov[Len(iov)].len

MoreFollows == next_offset + chunk.readed < iov[Len(iov)].len

(* The end of read_chunk and what handle_read does then.  A message is     *)
(* delivered, or kept in prev and the rest is asked for                    *)
(* (add_read_continue); when no message follows in the buffers, the        *)
(* connection is read again (add_read).                                    *)
SubmitRead(n) == pc' = "read" /\ iov' = Buffers(n)

Deliver(content) == delivered' = Append(delivered, content)

(* Mutant: the header is counted as a part of what was copied.             *)
Continue_CountsHeader ==
  /\ prev' = chunk.dest /\ prev_size' = chunk.msg_size
  /\ prev_remain' = chunk.msg_size - chunk.o_s - HDR
  /\ SubmitRead(chunk.msg_size - chunk.o_s - HDR)
  /\ UNCHANGED delivered

Continue ==
  /\ prev' = chunk.dest /\ prev_size' = chunk.msg_size
  /\ prev_remain' = chunk.msg_size - chunk.o_s
  /\ SubmitRead(chunk.msg_size - chunk.o_s)
  /\ UNCHANGED delivered

Complete ==
  /\ Deliver(chunk.dest)
  /\ prev' = NULL /\ prev_size' = 0 /\ prev_remain' = 0
  /\ IF MoreFollows THEN pc' = "handle" /\ UNCHANGED iov ELSE SubmitRead(CHUNK)

HandleRead ==
  /\ pc = "copy" /\ chunk.i = Len(iov)
  /\ IF MoreFollows
       THEN /\ next_iov' = Len(iov) - 1
            /\ next_offset' = next_offset + chunk.curr_len + HDR + 1
       ELSE next_iov' = 0 /\ next_offset' = 0
  /\ IF chunk.keep /\ chunk.o_s < chunk.msg_size /\ ~MoreFollows
       THEN Continue
       ELSE Complete
  /\ chunk' = NoChunk
  /\ UNCHANGED <<size, stream, pos, failed, torn>>

(* No memory for the first message of a read: read_chunk returns, and      *)
(* handle_read takes it that a message was completed and reads again: all  *)
(* that came is dropped.  For a later message it calls read_chunk again,   *)
(* until there is memory, which changes nothing.                           *)
HandleReadFails ==
  /\ pc = "handle" /\ ~HasPrev /\ ~HasNext /\ Header >= 0
  /\ failed < MaxFails
  /\ failed' = failed + 1
  /\ SubmitRead(CHUNK)
  /\ UNCHANGED <<size, stream, pos, carried, next, chunk, delivered, torn>>

Next ==
  PeerSend \/ Completion \/ ReadChunk \/ CopyTurn \/ HandleRead \/ HandleReadFails
Spec == Init /\ [][Next]_vars

-----------------------------------------------------------------------------
Content(m) == [k \in 1 .. size[m] |-> <<m, HDR + k>>]

Idle == pc = "read" /\ Available = 0 /\ prev = NULL

(* The calls of on_readed, the empty ones apart, and the message that the  *)
(* first byte of a call is from.                                           *)
Readed == {i \in DOMAIN delivered : delivered[i] # <<>>}
MessageOf(i) == delivered[i][1][1]

(* What was given to on_readed is whole messages, each once and in order.  *)
AsSent ==
  /\ \A i \in Readed : \E m \in DOMAIN size : delivered[i] = Content(m)
  /\ \A i, j \in Readed : i < j => MessageOf(i) < MessageOf(j)
  /\ failed = 0 => \A i \in Readed : \A m \in 1 .. MessageOf(i) - 1 :
                     \E j \in 1 .. i - 1 : delivered[j] = Content(m)

(* A message of any size, several to a read or carried over by as many     *)
(* requests as it takes, is given to on_readed once, whole and in order,   *)
(* wherever it falls in the buffers and wherever a read of it ends, until  *)
(* a read is torn (handle_read, read_chunk).  Without memory messages may  *)
(* be missing, and the others still are whole.                             *)
Intact == ~torn => AsSent

(* No message that was read is forgotten: when there is nothing to read    *)
(* every message was delivered, and the reader is in step with the stream, *)
(* as long as no read was torn and there was memory.                       *)
NothingSkipped ==
  failed = 0 /\ ~torn =>
    /\ pc # "lost"
    /\ Idle => \A m \in DOMAIN size : \E i \in Readed : delivered[i] = Content(m)

(* The two above ask for no more than they need: after a read that was     *)
(* torn, however much comes later, handle_read cannot make it up; when     *)
(* there is nothing to read, a call got what is no message, or a message   *)
(* is missing.                                                             *)
TornIsSeen ==
  torn /\ failed = 0 /\ Idle =>
    ~AsSent \/ \E m \in DOMAIN size : \A i \in Readed : delivered[i] # Content(m)

(* docs/README.md:110 says that a message of which less than its size has  *)
(* come waits for the next read: no call of on_readed gets part of one.    *)
NeverCut ==
  \A d \in ToSet(delivered) : \A k \in DOMAIN d : d[k] \notin {Raw, Zero}
=============================================================================
