---------------------------- MODULE WriteFraming ----------------------------
(***************************************************************************)
(* How saurion_send lays a message out in the buffers of a write request:  *)
(* set_request, allocate_iovec and initialize_iovec of low_saurion.c, with *)
(* h = 1.  The message of strlen bytes goes after a header of HDR bytes    *)
(* and before one terminator, in buffers of CHUNK bytes; writev sends the  *)
(* iov_len bytes of each.                                                  *)
(*                                                                         *)
(* A byte is named after where it comes from: i for byte i of the message, *)
(* 0 for a zero, Raw for memory malloc returned and nothing wrote.         *)
(***************************************************************************)
EXTENDS Integers, Sequences

CONSTANTS
  CHUNK,    (* CHUNK_SZ, the size of a buffer                              *)
  HDR,      (* 8, the bytes of a size_t                                    *)
  Lengths,  (* the values of strlen(str)                                   *)
  Raw

ASSUME WriteAssumption ==
  /\ HDR \in Nat \ {0} /\ CHUNK \in Nat /\ CHUNK > HDR + 1
  /\ Lengths \subseteq Nat
  /\ Raw \notin Nat

VARIABLES
  len,      (* strlen(str)                                                 *)
  iov,      (* the buffers filled so far: iov_len and content              *)
  wpc       (* "fill", "submitted", or "smashed" by a memset out of bounds *)

vars == <<len, iov, wpc>>

Total == len + HDR + 1
Amount == (Total + CHUNK - 1) \div CHUNK

(* allocate_iovec.                                                         *)
IovLen(pos) ==
  IF pos = Amount - 1 /\ Total % CHUNK # 0 THEN Total % CHUNK ELSE CHUNK

(* Where the part of the message that buffer pos carries starts, in the    *)
(* message and in the buffer, and where it ends.                           *)
(* Mutant: the room of the header is not deducted from the offset.         *)
OffsetS_NoHeader(pos) == pos * CHUNK

OffsetS(pos) == pos * CHUNK - (IF pos > 0 THEN HDR ELSE 0)
OffsetIov(pos) == IF pos = 0 THEN HDR ELSE 0
End(pos) == IovLen(pos) - (IF pos = Amount - 1 THEN 1 ELSE 0)

(* The byte of str at offset i, the NUL included.                          *)
Str(i) == IF i < len THEN i + 1 ELSE 0

(* The memset starts at dest + len, dest being OffsetIov after the base of *)
(* the buffer; its size is a size_t and wraps when it is negative.         *)
(* Mutants: no memset, what the comment at low_saurion.c:80 asks about;    *)
(* one for a full buffer too.                                              *)
Cleared_Never(pos) == 0

Cleared_OffByOne(pos) ==
  IF End(pos) <= CHUNK THEN CHUNK - (End(pos) + OffsetIov(pos)) ELSE 0

Cleared(pos) == IF End(pos) < CHUNK THEN CHUNK - (End(pos) + OffsetIov(pos))
                                    ELSE 0

Content(pos) ==
  [k \in 0 .. CHUNK - 1 |->
     IF OffsetIov(pos) <= k /\ k < End(pos)
       THEN Str(OffsetS(pos) + k - OffsetIov(pos))
     ELSE IF OffsetIov(pos) + End(pos) <= k /\ Cleared(pos) > 0
       THEN 0
     ELSE Raw]

Init == len \in Lengths /\ iov = <<>> /\ wpc = "fill"

(* One turn of the loop of set_request.                                    *)
Fill ==
  /\ wpc = "fill" /\ Len(iov) < Amount
  /\ LET pos == Len(iov)
     IN  IF Cleared(pos) < 0
           THEN wpc' = "smashed" /\ UNCHANGED iov
           ELSE /\ iov' = Append(iov, [len |-> IovLen(pos),
                                       data |-> Content(pos)])
                /\ UNCHANGED wpc
  /\ UNCHANGED len

Submit ==
  /\ wpc = "fill" /\ Len(iov) = Amount
  /\ wpc' = "submitted"
  /\ UNCHANGED <<len, iov>>

Next == Fill \/ Submit
Spec == Init /\ [][Next]_vars

-----------------------------------------------------------------------------
(* The byte at offset i of what writev sends: every buffer but the last is *)
(* sent whole.                                                             *)
Wire(i) == iov[i \div CHUNK + 1].data[i % CHUNK]

(* However the length of the message falls on the boundaries of the        *)
(* buffers, what is sent has the room of a header and a terminator, and    *)
(* between them each byte of the message once, in order.                   *)
BodyWhole ==
  wpc = "submitted" =>
    /\ \A p \in 1 .. Len(iov) - 1 : iov[p].len = CHUNK
    /\ (Len(iov) - 1) * CHUNK + iov[Len(iov)].len = HDR + len + 1
    /\ \A i \in 1 .. len : Wire(HDR + i - 1) = i

(* What is sent around the message: nobody writes the header, which        *)
(* saurion/scripts/client.sh:52 takes for the length, and the memset,      *)
(* which is what writes the terminator, reaches it in a message of several *)
(* buffers only, as it starts HDR bytes too far in the first one           *)
(* (initialize_iovec).                                                     *)
LongTerminated ==
  wpc = "submitted" =>
    /\ \A i \in 0 .. HDR - 1 : Wire(i) = Raw
    /\ Wire(HDR + len) = IF Len(iov) > 1 THEN 0 ELSE Raw

(* The size of the memset wraps, past the end of the buffer, for a message *)
(* whose frame fits one buffer with fewer than HDR bytes to spare, and for *)
(* no other length (initialize_iovec).                                     *)
WithinBuffers ==
  wpc = "smashed" => CHUNK - 2 * HDR < len /\ len + HDR + 1 <= CHUNK
=============================================================================
