----------------------------- MODULE DeliveryProofs -----------------------------
(***************************************************************************)
(* Theorems of Reactor about the messages received, as long as the kernel  *)
(* writes over no result that a handler still reads (ResultKept): what     *)
(* on_readed was called with for a connection, and what was read since, is *)
(* what the peer sent, until the server loses its place in the connection; *)
(* the callbacks follow the protocol of Sessions; the memory of a message  *)
(* carried over has one owner.                                             *)
(***************************************************************************)
EXTENDS DescriptorProofs

(* A connection is the file of one descriptor at most, and one that waits  *)
(* in the backlog, or did not connect, of none.  What was not accepted was *)
(* not read.                                                               *)
Opened == {file[f] : f \in Fds} \ {None}

ConnInv ==
  /\ \A f, g \in Fds : file[f] = file[g] => f = g \/ file[f] = None
  /\ \A c \in Opened : peer[c] # "away" /\ c \notin backlog
  /\ \A c \in backlog : peer[c] # "away"
  /\ \A c \in Conns : c \in backlog \/ peer[c] = "away" =>
       /\ taken[c] = 0 /\ got[c] = <<>>
       /\ c \notin ended /\ c \notin prevs /\ c \notin torn

(* What on_readed was called with is a prefix of what the peer sent, and   *)
(* whole messages.  A connection is torn by a message of three segments or *)
(* more only.                                                              *)
GotInv ==
  /\ torn \subseteq Conns /\ (torn # {} => Parts > 2)
  /\ got \in [Conns \cup {None} -> Seq(Conns \X Nat)]
  /\ \A c \in Conns : \A i \in DOMAIN got[c] : got[c][i] = <<c, i>>
  /\ \A c \in Conns : \E k \in Nat : Len(got[c]) = Parts * k

(* A read of descriptor f has the prev of the connection behind it, and    *)
(* holds what was taken from it and not delivered, in order, as long as    *)
(* the server has its place there.                                         *)
Continues(q, c) ==
  /\ Len(got[c]) + Len(heap[q].data) = taken[c]
  /\ \A i \in DOMAIN heap[q].data : heap[q].data[i] = <<c, Len(got[c]) + i>>

Follows(q, c) ==
  /\ heap[q].conn = c
  /\ heap[q].prev <=> c \in prevs
  /\ c \notin torn => Continues(q, c)

Short(q) == Len(heap[q].data) < Parts

(* The end of file comes after everything the peer sent.                   *)
Over(q, c) ==
  /\ peer[c] = "gone" /\ sent[c] = taken[c]
  /\ c \notin torn => Short(q)

(* Nothing was taken that was not delivered, and nothing was torn.         *)
UpToDate(c)  == (c \notin torn => Len(got[c]) = taken[c]) /\ c \notin prevs
Untouched(c) == UpToDate(c) /\ c \notin torn

(* The segments of a read when it is submitted and when it is completed    *)
(* with x: a continuation begins with one.                                 *)
Before(q) == IF heap[q].prev THEN 1 ELSE 0

Begun(q) == Short(q) /\ Len(heap[q].data) = Before(q)

Fits(q, x) ==
  /\ Len(heap[q].data) <= Parts
  /\ ~heap[q].prev => Len(heap[q].data) <= 1
  /\ x > 0 => Len(heap[q].data) > Before(q)

(* The read of f with the kernel, in the queue of a worker that runs, or   *)
(* in the hands of a worker; a descriptor that has no read yet.            *)
Holding == {"read", "closing", "closed", "data"}

ReadOf(q, f) == Follows(q, file[f]) /\ (file[f] \notin torn => Begun(q))

AnswerOf(q, x, f) ==
  /\ Follows(q, file[f])
  /\ file[f] \notin torn => Fits(q, x)
  /\ x = 0 => Over(q, file[f])

Asking(f) == \A q \in Waits(f) : ReadOf(q, f)

Answered(f) ==
  \A u \in Entries(f, "read") : Alive(u[1]) =>
    AnswerOf(cq[u[1]][u[2]].req, cq[u[1]][u[2]].res, f)

InHands(f) ==
  /\ \A w \in Hands(f, Holding) : AnswerOf(cur[w], cqres[w], f)
  /\ \A w \in Hands(f, {"read_again"}) :
       UpToDate(file[f]) /\ ~heap[cur[w]].prev

Unread(f) ==
  Entries(f, "accept") # {} \/ Hands(f, AcceptPlaces) # {} =>
    Untouched(file[f]) /\ file[f] \notin ended

TransferOf(f) ==
  /\ Asking(f) /\ Answered(f) /\ InHands(f) /\ Unread(f)
  /\ file[f] \in ended <=> Hands(f, {"closed"}) # {}

TransferInv == \A f \in Fds : TransferOf(f)

(* Only the reads of connections point to memory that was carried over,    *)
(* and as long as no worker died it is there for as long as it is needed.  *)
PrevInv ==
  /\ prevs \subseteq Conns
  /\ \A q \in DOMAIN heap : heap[q].prev => q[1] = "read" /\ q[2] \in Fds
  /\ AllAlive => \A c \in prevs \ ended :
                   opc # "freed" => c \in Carrying

DeliveryInv == ConnInv /\ GotInv /\ TransferInv /\ PrevInv
-----------------------------------------------------------------------------
(* What is known of a read, before and after a step.                       *)

(* A step that does nothing to a connection, and nothing to a request.     *)
ConnKeeps(c) ==
  /\ got'[c] = got[c] /\ taken'[c] = taken[c]
  /\ c \in prevs' <=> c \in prevs
  /\ c \in torn' <=> c \in torn
  /\ c \in ended' <=> c \in ended
  /\ peer[c] = "gone" => peer'[c] = "gone" /\ sent'[c] = sent[c]

ReqKeeps(q) ==
  /\ heap'[q].conn = heap[q].conn /\ heap'[q].data = heap[q].data
  /\ heap'[q].prev = heap[q].prev

(* Then what was known of the read is still true.                          *)
LEMMA ReadKeeps ==
  ASSUME NEW q, NEW f, file'[f] = file[f], ConnKeeps(file[f]), ReqKeeps(q)
  PROVE  /\ ReadOf(q, f) => ReadOf(q, f)'
         /\ \A x : AnswerOf(q, x, f) => AnswerOf(q, x, f)'
<1>1. PICK c : c = file[f]
  OBVIOUS
<1>2. Follows(q, c) => Follows(q, c)'
  <2>1. Continues(q, c) => Continues(q, c)'
    BY <1>1 DEF Continues, ConnKeeps, ReqKeeps
  <2> QED BY <1>1, <2>1 DEF Follows, ConnKeeps, ReqKeeps
<1>3. /\ Short(q) => Short(q)'
      /\ Begun(q) => Begun(q)'
      /\ \A x : Fits(q, x) => Fits(q, x)'
  BY DEF Short, Begun, Fits, Before, ReqKeeps
<1>4. Over(q, c) => Over(q, c)'
  BY <1>1, <1>3 DEF Over, ConnKeeps
<1>5. file'[f] \notin torn' => file[f] \notin torn
  BY DEF ConnKeeps
<1>6. /\ Follows(q, file[f]) => Follows(q, file[f])'
      /\ Over(q, file[f]) => Over(q, file[f])'
  <2>1. Follows(q, c)' <=> Follows(q, file[f])'
    BY <1>1 DEF Follows, Continues
  <2>2. Over(q, c)' <=> Over(q, file[f])'
    BY <1>1 DEF Over
  <2> QED BY <1>1, <1>2, <1>4, <2>1, <2>2
<1>7. ReadOf(q, f) => ReadOf(q, f)'
  BY <1>3, <1>5, <1>6 DEF ReadOf
<1>8. ASSUME NEW x
      PROVE  AnswerOf(q, x, f) => AnswerOf(q, x, f)'
  BY <1>3, <1>5, <1>6 DEF AnswerOf
<1> QED BY <1>7, <1>8

(* A worker has nothing to do with a descriptor, or goes on having what it *)
(* has of it.                                                              *)
Stays(w, f) ==
  /\ wpc'[w] \in Busy /\ Working(w)' = f =>
       /\ wpc[w] = wpc'[w] /\ cur'[w] = cur[w] /\ cqres'[w] = cqres[w]
       /\ wpc[w] \in ReadPlaces => ReqKeeps(cur[w])
  /\ wpc[w] = "closed" /\ Working(w) = f =>
       wpc'[w] = "closed" /\ Working(w)' = f

(* What a queue has to say of a descriptor, it said before.                *)
Said(f) ==
  \A k \in {"accept", "read"} : \A u \in Entries(f, k)' :
    \E v \in Entries(f, k) :
      /\ cq'[u[1]][u[2]] = cq[v[1]][v[2]]
      /\ Alive(u[1])' => Alive(v[1]) /\ (k = "read" => ReqKeeps(cq[v[1]][v[2]].req))

(* Nobody has anything to do with a descriptor that is free.               *)
LEMMA AtNone ==
  ASSUME NEW f \in Fds, BatonOf(f)', RestInv', file'[f] = None
  PROVE  TransferOf(f)'
<1>1. file'[f] \notin ended'
  BY ReactorAssumption DEF RestInv
<1>2. Waits(f)' = {} /\ Posted(f)' = {} /\ Handled(f)' = {}
  BY DEF BatonOf
<1>3. Entries(f, "read")' = {} /\ Entries(f, "accept")' = {}
  BY <1>2 DEF Posted
<1>4. \A P : P \subseteq Busy => Hands(f, P)' = {}
  <2>1. \A w \in Rings : ~(wpc'[w] \in Busy /\ Working(w)' = f)
    BY <1>2 DEF Handled, Hands, Busy, Fresh, Known
  <2> QED BY <2>1 DEF Hands
<1>5. /\ Hands(f, Holding)' = {} /\ Hands(f, {"read_again"})' = {}
      /\ Hands(f, AcceptPlaces)' = {} /\ Hands(f, {"closed"})' = {}
  BY <1>4 DEF Holding, Busy, AcceptPlaces, ReadPlaces
<1> QED BY <1>1, <1>2, <1>3, <1>5 DEF TransferOf, Asking, Answered, InHands, Unread

(* A step that passes the baton of descriptor f on to nobody.              *)
LEMMA TransferKeep ==
  ASSUME NEW f \in Fds, TransferOf(f), BatonOf(f)', OutsideInv, RestInv', file'[f] = file[f],
         file[f] \in Conns => ConnKeeps(file[f]),
         \A q \in Waits(f)' : q \in Waits(f) /\ ReqKeeps(q),
         Said(f), \A w \in Rings : Stays(w, f)
  PROVE  TransferOf(f)'
<1>1. CASE file[f] \notin Conns
  BY <1>1, AtNone DEF OutsideInv
<1>2. CASE file[f] \in Conns
  <2>1. ConnKeeps(file[f])
    BY <1>2
  <2>2. /\ \A q : ReqKeeps(q) => (ReadOf(q, f) => ReadOf(q, f)')
        /\ \A q : ReqKeeps(q) => \A x : AnswerOf(q, x, f) => AnswerOf(q, x, f)'
    BY <2>1, ReadKeeps
  <2>3. Asking(f)'
    BY <2>2 DEF TransferOf, Asking
  <2>4. Answered(f)'
    <3> SUFFICES ASSUME NEW u \in Entries(f, "read")', Alive(u[1])'
                 PROVE  AnswerOf(cq[u[1]][u[2]].req, cq[u[1]][u[2]].res, f)'
      BY DEF Answered
    <3>1. PICK v \in Entries(f, "read") :
            /\ cq'[u[1]][u[2]] = cq[v[1]][v[2]]
            /\ Alive(v[1]) /\ ReqKeeps(cq[v[1]][v[2]].req)
      BY DEF Said
    <3>2. PICK e : e = cq[v[1]][v[2]]
      OBVIOUS
    <3>3. AnswerOf(e.req, e.res, f) /\ ReqKeeps(e.req)
      BY <3>1, <3>2 DEF TransferOf, Answered
    <3>4. AnswerOf(e.req, e.res, f)'
      BY <2>2, <3>3
    <3> QED BY <3>1, <3>2, <3>4 DEF AnswerOf, Follows, Continues, Fits, Before, Over, Short
  <2>5. InHands(f)'
    <3>1. ASSUME NEW w \in Hands(f, Holding)'
          PROVE  AnswerOf(cur[w], cqres[w], f)'
      <4>1. w \in Rings /\ wpc'[w] \in Holding /\ Working(w)' = f
        BY <3>1 DEF Hands
      <4>2. /\ wpc[w] = wpc'[w] /\ cur'[w] = cur[w] /\ cqres'[w] = cqres[w]
            /\ ReqKeeps(cur[w])
        BY <4>1 DEF Stays, Holding, Busy, ReadPlaces
      <4>3. Working(w) = f
        BY <4>1, <4>2 DEF Working
      <4>4. AnswerOf(cur[w], cqres[w], f)
        BY <4>1, <4>2, <4>3 DEF TransferOf, InHands, Hands
      <4>5. PICK q, x : q = cur[w] /\ x = cqres[w]
        OBVIOUS
      <4>6. AnswerOf(q, x, f)'
        BY <2>2, <4>2, <4>4, <4>5
      <4> QED BY <4>2, <4>5, <4>6 DEF AnswerOf, Follows, Continues, Fits, Before, Over, Short
    <3>2. ASSUME NEW w \in Hands(f, {"read_again"})'
          PROVE  (UpToDate(file[f]) /\ ~heap[cur[w]].prev)'
      <4>1. w \in Rings /\ wpc'[w] = "read_again" /\ Working(w)' = f
        BY <3>2 DEF Hands
      <4>2. wpc[w] = wpc'[w] /\ cur'[w] = cur[w] /\ cqres'[w] = cqres[w] /\ ReqKeeps(cur[w])
        BY <4>1 DEF Stays, Busy, ReadPlaces
      <4>3. Working(w) = f
        BY <4>1, <4>2 DEF Working
      <4>4. UpToDate(file[f]) /\ ~heap[cur[w]].prev
        BY <4>1, <4>2, <4>3 DEF TransferOf, InHands, Hands
      <4>5. UpToDate(file[f])'
        BY <2>1, <4>4 DEF UpToDate, ConnKeeps
      <4> QED BY <4>2, <4>4, <4>5 DEF ReqKeeps
    <3> QED BY <3>1, <3>2 DEF InHands
  <2>6. Unread(f)'
    <3> SUFFICES ASSUME Entries(f, "accept")' # {} \/ Hands(f, AcceptPlaces)' # {}
                 PROVE  (Untouched(file[f]) /\ file[f] \notin ended)'
      BY DEF Unread
    <3>1. Entries(f, "accept")' # {} => Entries(f, "accept") # {}
      BY DEF Said
    <3>2. Hands(f, AcceptPlaces)' # {} => Hands(f, AcceptPlaces) # {}
      <4> SUFFICES ASSUME NEW w \in Hands(f, AcceptPlaces)'
                   PROVE  w \in Hands(f, AcceptPlaces)
        OBVIOUS
      <4>1. w \in Rings /\ wpc'[w] \in AcceptPlaces /\ Working(w)' = f
        BY DEF Hands
      <4>2. wpc[w] = wpc'[w] /\ cur'[w] = cur[w] /\ cqres'[w] = cqres[w]
        BY <4>1 DEF Stays, Busy
      <4> QED BY <4>1, <4>2 DEF Hands, Working
    <3>3. Untouched(file[f]) /\ file[f] \notin ended
      BY <3>1, <3>2 DEF TransferOf, Unread
    <3> QED BY <2>1, <3>3 DEF Untouched, UpToDate, ConnKeeps
  <2>7. (file[f] \in ended <=> Hands(f, {"closed"}) # {})'
    <3>1. ASSUME NEW w \in Rings
          PROVE  w \in Hands(f, {"closed"})' <=> w \in Hands(f, {"closed"})
      <4>1. w \in Hands(f, {"closed"}) => w \in Hands(f, {"closed"})'
        BY DEF Stays, Hands
      <4>2. ASSUME w \in Hands(f, {"closed"})'
            PROVE  w \in Hands(f, {"closed"})
        <5>1. wpc'[w] = "closed" /\ Working(w)' = f
          BY <4>2 DEF Hands
        <5>2. wpc[w] = wpc'[w] /\ cur'[w] = cur[w] /\ cqres'[w] = cqres[w]
          BY <5>1 DEF Stays, Busy, ReadPlaces
        <5> QED BY <5>1, <5>2 DEF Hands, Working
      <4> QED BY <4>1, <4>2
    <3>2. Hands(f, {"closed"})' # {} <=> Hands(f, {"closed"}) # {}
      BY <3>1 DEF Hands
    <3> QED BY <2>1, <3>2 DEF TransferOf, ConnKeeps
  <2> QED BY <2>3, <2>4, <2>5, <2>6, <2>7 DEF TransferOf
<1> QED BY <1>1, <1>2

(* The baton in one place, the others have nothing to say: after the step  *)
(* a descriptor is as it should be if that place is.                       *)

(* The places of handlers are told apart by what they know.                *)
LEMMA HandsIn ==
  ASSUME NEW f, Handled(f)' = {}
  PROVE  \A P \in {Holding, {"read_again"}, AcceptPlaces, {"closed"}} : Hands(f, P)' = {}
<1>1. \A w \in Rings : ~(wpc'[w] \in Busy /\ Working(w)' = f)
  BY DEF Handled, Hands, Busy, Fresh, Known
<1>2. \A P \in {Holding, {"read_again"}, AcceptPlaces, {"closed"}} : P \subseteq Busy
  BY DEF Holding, Busy, AcceptPlaces, ReadPlaces
<1> QED BY <1>1, <1>2 DEF Hands

(* With the kernel.                                                        *)
LEMMA AtAsked ==
  ASSUME NEW f \in Fds, BatonOf(f)', NEW q \in Waits(f)', ReadOf(q, f)',
         (file[f] \notin ended)'
  PROVE  TransferOf(f)'
<1>1. Posted(f)' = {} /\ Handled(f)' = {} /\ Single(Waits(f)')
  BY DEF BatonOf
<1>2. \A p \in Waits(f)' : p = q
  BY <1>1 DEF Single
<1>3. Asking(f)'
  BY <1>2 DEF Asking
<1>4. Entries(f, "read")' = {} /\ Entries(f, "accept")' = {}
  BY <1>1 DEF Posted
<1>5. /\ Hands(f, Holding)' = {} /\ Hands(f, {"read_again"})' = {}
      /\ Hands(f, AcceptPlaces)' = {} /\ Hands(f, {"closed"})' = {}
  BY <1>1, HandsIn
<1> QED BY <1>3, <1>4, <1>5 DEF TransferOf, Answered, InHands, Unread

(* Answered, in a queue.                                                   *)
LEMMA AtAnswered ==
  ASSUME NEW f \in Fds, BatonOf(f)', NEW u \in Entries(f, "read")',
         AnswerOf(cq[u[1]][u[2]].req, cq[u[1]][u[2]].res, f)',
         Entries(f, "accept")' = {}, (file[f] \notin ended)'
  PROVE  TransferOf(f)'
<1>1. Waits(f)' = {} /\ Handled(f)' = {} /\ Single(Posted(f)')
  BY DEF BatonOf, Posted
<1>2. \A v \in Entries(f, "read")' : v = u
  BY <1>1 DEF Single, Posted
<1>3. Answered(f)'
  BY <1>2 DEF Answered
<1>4. /\ Hands(f, Holding)' = {} /\ Hands(f, {"read_again"})' = {}
      /\ Hands(f, AcceptPlaces)' = {} /\ Hands(f, {"closed"})' = {}
  BY <1>1, HandsIn
<1> QED BY <1>1, <1>3, <1>4 DEF TransferOf, Asking, InHands, Unread

(* Just accepted, and reported by no queue but the one.                    *)
LEMMA AtAccepted ==
  ASSUME NEW f \in Fds, BatonOf(f)', Entries(f, "accept")' # {},
         Entries(f, "read")' = {}, Untouched(file[f])', (file[f] \notin ended)'
  PROVE  TransferOf(f)'
<1>1. Waits(f)' = {} /\ Handled(f)' = {}
  BY DEF BatonOf, Posted
<1>2. /\ Hands(f, Holding)' = {} /\ Hands(f, {"read_again"})' = {}
      /\ Hands(f, AcceptPlaces)' = {} /\ Hands(f, {"closed"})' = {}
  BY <1>1, HandsIn
<1> QED BY <1>1, <1>2 DEF TransferOf, Asking, Answered, InHands, Unread

(* In the hands of a worker.                                               *)
LEMMA AtHand ==
  ASSUME NEW f \in Fds, BatonOf(f)', NEW w \in Rings, wpc'[w] \in Busy, Working(w)' = f,
         wpc'[w] \in Holding => AnswerOf(cur[w], cqres[w], f)',
         wpc'[w] = "read_again" => (UpToDate(file[f]) /\ ~heap[cur[w]].prev)',
         wpc'[w] \in AcceptPlaces => (Untouched(file[f]))',
         (file[f] \in ended)' <=> wpc'[w] = "closed"
  PROVE  TransferOf(f)'
<1>1. w \in Handled(f)'
  BY DEF Handled, Hands, Busy, Fresh, Known
<1>2. Waits(f)' = {} /\ Posted(f)' = {} /\ Single(Handled(f)')
  BY <1>1 DEF BatonOf
<1>3. Entries(f, "read")' = {} /\ Entries(f, "accept")' = {}
  BY <1>2 DEF Posted
<1>4. \A v \in Rings : wpc'[v] \in Busy /\ Working(v)' = f => v = w
  BY <1>1, <1>2 DEF Single, Handled, Hands, Busy, Fresh, Known
<1>5. \A P \in {Holding, {"read_again"}, AcceptPlaces, {"closed"}} :
        \A v \in Hands(f, P)' : v = w /\ wpc'[w] \in P
  <2>1. \A P \in {Holding, {"read_again"}, AcceptPlaces, {"closed"}} : P \subseteq Busy
    BY DEF Holding, Busy, AcceptPlaces, ReadPlaces
  <2> QED BY <1>4, <2>1 DEF Hands
<1>6. InHands(f)'
  BY <1>5 DEF InHands
<1>7. Hands(f, {"closed"})' # {} <=> wpc'[w] = "closed"
  <2>1. wpc'[w] = "closed" => w \in Hands(f, {"closed"})'
    BY DEF Hands
  <2> QED BY <1>5, <2>1
<1>8. Unread(f)'
  <2>1. Hands(f, AcceptPlaces)' # {} => wpc'[w] \in AcceptPlaces
    BY <1>5
  <2>2. wpc'[w] \in AcceptPlaces => wpc'[w] # "closed"
    BY DEF AcceptPlaces
  <2> QED BY <1>3, <2>1, <2>2 DEF Unread
<1> QED BY <1>2, <1>3, <1>6, <1>7, <1>8 DEF TransferOf, Asking, Answered

(* A step that opens no descriptor, and touches open connections only.     *)
LEMMA ConnKeep ==
  ASSUME ConnInv, OutsideInv, \A g \in Fds : file'[g] \in {file[g], None},
         backlog' = backlog, \A c \in Conns : peer'[c] = "away" => peer[c] = "away",
         \A c \in Conns \ Opened : ConnKeeps(c)
  PROVE  ConnInv'
<1>1. Opened' \subseteq Opened
  BY DEF Opened
<1>2. \A f, g \in Fds : file'[f] = file'[g] => f = g \/ file'[f] = None
  BY DEF ConnInv
<1>3. Opened \subseteq Conns
  BY DEF Opened, OutsideInv
<1>4. \A c \in Opened' : peer'[c] # "away" /\ c \notin backlog'
  BY <1>1, <1>3 DEF ConnInv
<1>5. \A c \in backlog' : peer'[c] # "away"
  BY DEF ConnInv, OutsideInv
<1>6. ASSUME NEW c \in Conns, c \in backlog' \/ peer'[c] = "away"
      PROVE  /\ taken'[c] = 0 /\ got'[c] = <<>>
             /\ c \notin ended' /\ c \notin prevs' /\ c \notin torn'
  <2>1. c \in backlog \/ peer[c] = "away"
    BY <1>6
  <2>2. c \notin Opened
    BY <2>1 DEF ConnInv
  <2> QED BY <2>1, <2>2 DEF ConnInv, ConnKeeps
<1> QED BY <1>2, <1>4, <1>5, <1>6 DEF ConnInv

(* A step that gives no request memory that is carried over, and takes it  *)
(* from none of a connection that is open.                                 *)
LEMMA PrevKeep ==
  ASSUME PrevInv, prevs' = prevs, ended \subseteq ended',
         \A q \in DOMAIN heap' : heap'[q].prev => q \in DOMAIN heap /\ heap[q].prev,
         AllAlive' /\ opc' # "freed" =>
           /\ AllAlive /\ opc # "freed"
           /\ \A q \in DOMAIN heap \ Deleting : heap[q].prev /\ heap[q].conn \notin ended' =>
                q \in DOMAIN heap' \ Deleting' /\ ReqKeeps(q)
  PROVE  PrevInv'
<1>1. prevs' \subseteq Conns
  BY DEF PrevInv
<1>2. \A q \in DOMAIN heap' : heap'[q].prev => q[1] = "read" /\ q[2] \in Fds
  BY DEF PrevInv
<1>3. ASSUME AllAlive', opc' # "freed", NEW c \in prevs' \ ended'
      PROVE  c \in Carrying'
  <2>1. c \in Carrying
    BY <1>3 DEF PrevInv
  <2>2. PICK q \in DOMAIN heap \ Deleting : heap[q].prev /\ heap[q].conn = c
    BY <2>1 DEF Carrying
  <2>3. q \in DOMAIN heap' \ Deleting' /\ ReqKeeps(q)
    BY <1>3, <2>2
  <2> QED BY <2>2, <2>3 DEF Carrying, ReqKeeps
<1> QED BY <1>1, <1>2, <1>3 DEF PrevInv

(* A step that delivers nothing.                                           *)
LEMMA GotKeep ==
  ASSUME GotInv, got' = got, torn' = torn
  PROVE  GotInv'
BY DEF GotInv

-----------------------------------------------------------------------------
(* The steps.                                                              *)

(* What a ring holds, out of the hands of its worker.                      *)
InRing(r) == inflight[r] \cup (IF Alive(r) THEN Queue(r) ELSE {})

(* Where nothing happens to the queues.                                    *)
LEMMA QueueSaid ==
  ASSUME cq' = cq, \A r \in Rings : Alive(r)' => Alive(r), NEW f,
         \A r \in Rings : \A q \in InRing(r) : ReqKeeps(q)
  PROVE  Said(f)
<1> SUFFICES ASSUME NEW k \in {"accept", "read"}, NEW u \in Entries(f, k)'
             PROVE  /\ u \in Entries(f, k)
                    /\ cq'[u[1]][u[2]] = cq[u[1]][u[2]]
                    /\ Alive(u[1])' => Alive(u[1]) /\ ReqKeeps(cq[u[1]][u[2]].req)
  BY DEF Said
<1>1. u \in Entries(f, k)
  BY DEF Entries, About
<1>2. u[1] \in Rings /\ u[2] \in DOMAIN cq[u[1]]
  BY <1>1 DEF Entries
<1>3. Alive(u[1])' => cq[u[1]][u[2]].req \in InRing(u[1])
  BY <1>2 DEF InRing, Queue
<1> QED BY <1>1, <1>2, <1>3

(* Where nothing happens to the rings.                                     *)
LEMMA RingsSaid ==
  ASSUME UNCHANGED <<inflight, cq>>, \A r \in Rings : Alive(r)' => Alive(r), NEW f,
         \A r \in Rings : \A q \in InRing(r) : ReqKeeps(q)
  PROVE  Said(f) /\ \A q \in Waits(f)' : q \in Waits(f) /\ ReqKeeps(q)
<1>1. \A q \in Waits(f)' : q \in Waits(f) /\ ReqKeeps(q)
  BY RingsSame DEF Waits, InRing
<1> QED BY <1>1, QueueSaid

(* A worker that does not move.                                            *)
LEMMA StaysPut ==
  ASSUME NEW w \in Rings, wpc'[w] = wpc[w], cur'[w] = cur[w], cqres'[w] = cqres[w],
         NEW f, wpc[w] \in ReadPlaces => ReqKeeps(cur[w])
  PROVE  Stays(w, f)
BY DEF Stays, Working

(* A worker that has nothing to do with a descriptor, before and after.    *)
LEMMA StaysOff ==
  ASSUME NEW w \in Rings, NEW f, ~(wpc'[w] \in Busy /\ Working(w)' = f),
         ~(wpc[w] = "closed" /\ Working(w) = f)
  PROVE  Stays(w, f)
BY DEF Stays

(* What a worker reads with is what it owns.                               *)
LEMMA HandOwned ==
  ASSUME ReactorInv, NEW w \in Rings, wpc[w] \in Handling
  PROVE  cur[w] \in Owned(w) /\ cur[w] \in DOMAIN heap
BY DEF ReactorInv, RingInv, HoldInv, Owned

(* Peers connect, send and leave; saurion_send is called; the owner starts *)
(* and stops the server.                                                   *)
LEMMA DeliveryOthers ==
  ASSUME ReactorInv, DescriptorInv', DeliveryInv,
         \/ \E c \in Conns : PeerConnect(c) \/ PeerSend(c) \/ PeerClose(c)
         \/ OwnerGoes \/ Send \/ UNCHANGED vars
  PROVE  DeliveryInv'
<1>1. UNCHANGED <<inflight, cq, heap, prevs, taken, got, torn, ended, file, cur, cqres>>
  BY DEF PeerConnect, PeerSend, PeerClose, Peer, Send, OwnerGoes, StartTask, Stop,
         StopSignal, SignalUpTo, StopDrained, Destroy, DestroyWait, vars, outside, ringv, reqs,
         workers, app
<1>2. wpc' = wpc \/ (StartTask /\ wpc' = [wpc EXCEPT ![oi] = "queued"])
  BY DEF PeerConnect, PeerSend, PeerClose, Peer, Send, OwnerGoes, StartTask, Stop,
         StopSignal, SignalUpTo, StopDrained, Destroy, DestroyWait, vars, workers
<1>3. \A v \in Rings : wpc'[v] = wpc[v] \/ (wpc[v] = "none" /\ wpc'[v] = "queued")
  <2>1. CASE StartTask
    <3>1. opc = "starting" /\ oi \in Rings
      BY <2>1 DEF StartTask, Owner, ReactorInv, OwnerInv
    <3>2. wpc[oi] = "none"
      BY <3>1 DEF ReactorInv, OwnerInv, Rings
    <3> QED BY <1>2, <3>1, <3>2 DEF ReactorInv, RingInv
  <2> QED BY <1>2, <2>1
<1>4. \A c \in Conns : peer[c] = "gone" => peer'[c] = "gone" /\ sent'[c] = sent[c]
  <2>1. CASE UNCHANGED <<peer, sent>>
    BY <2>1
  <2>2. ASSUME NEW c \in Conns, PeerConnect(c) \/ PeerSend(c) \/ PeerClose(c)
        PROVE  \A d \in Conns : peer[d] = "gone" => peer'[d] = "gone" /\ sent'[d] = sent[d]
    BY <2>2 DEF PeerConnect, PeerSend, PeerClose, Peer, ReactorInv, OutsideInv
  <2>3. CASE OwnerGoes \/ Send \/ UNCHANGED vars
    BY <2>3 DEF Send, OwnerGoes, StartTask, Stop, StopSignal, SignalUpTo, StopDrained, Destroy,
                DestroyWait, vars, outside
  <2> QED BY <2>2, <2>3
<1>5. \A c \in Conns : ConnKeeps(c)
  BY <1>1, <1>4 DEF ConnKeeps
<1>6. \A q : ReqKeeps(q)
  BY <1>1 DEF ReqKeeps
<1>7. ConnInv'
  <2>1. OutsideInv /\ ConnInv
    BY DEF ReactorInv, DeliveryInv
  <2>2. ASSUME backlog' = backlog, \A c \in Conns : peer'[c] = "away" => peer[c] = "away"
        PROVE  ConnInv'
    BY <1>1, <1>5, <2>1, <2>2, ConnKeep
  <2>3. ASSUME NEW c \in Conns, PeerConnect(c)
        PROVE  ConnInv'
    <3>1. /\ peer[c] = "away" /\ backlog' = backlog \cup {c}
          /\ peer' = [peer EXCEPT ![c] = "open"]
      BY <2>3 DEF PeerConnect, Peer
    <3>2. Opened' = Opened /\ Opened \subseteq Conns
      BY <1>1, <2>1 DEF Opened, OutsideInv
    <3>3. \A d \in Conns : peer'[d] = IF d = c THEN "open" ELSE peer[d]
      BY <2>1, <3>1 DEF OutsideInv
    <3>4. \A d \in Opened' : peer'[d] # "away" /\ d \notin backlog'
      BY <2>1, <3>1, <3>2, <3>3 DEF ConnInv
    <3>5. \A d \in backlog' : peer'[d] # "away"
      BY <2>1, <3>1, <3>3 DEF ConnInv, OutsideInv
    <3>6. \A d \in Conns : d \in backlog' \/ peer'[d] = "away" =>
            /\ taken'[d] = 0 /\ got'[d] = <<>>
            /\ d \notin ended' /\ d \notin prevs' /\ d \notin torn'
      BY <1>1, <2>1, <3>1, <3>3 DEF ConnInv
    <3>7. \A f, g \in Fds : file'[f] = file'[g] => f = g \/ file'[f] = None
      BY <1>1, <2>1 DEF ConnInv
    <3> QED BY <3>4, <3>5, <3>6, <3>7 DEF ConnInv
  <2>4. ASSUME NEW c \in Conns, PeerSend(c) \/ PeerClose(c)
        PROVE  backlog' = backlog /\ \A d \in Conns : peer'[d] = "away" => peer[d] = "away"
    BY <2>1, <2>4 DEF PeerSend, PeerClose, Peer, OutsideInv
  <2>5. OwnerGoes \/ Send \/ UNCHANGED vars => UNCHANGED <<backlog, peer>>
    BY DEF Send, OwnerGoes, StartTask, Stop, StopSignal, SignalUpTo, StopDrained, Destroy,
           DestroyWait, vars, outside
  <2> QED BY <2>2, <2>3, <2>4, <2>5
<1>8. GotInv'
  BY <1>1, GotKeep DEF DeliveryInv
<1>9. TransferInv'
  <2> SUFFICES ASSUME NEW f \in Fds
               PROVE  TransferOf(f)'
    BY DEF TransferInv
  <2>1. \A r \in Rings : Alive(r)' => Alive(r)
    BY <1>3 DEF Alive
  <2>2. Said(f) /\ \A q \in Waits(f)' : q \in Waits(f) /\ ReqKeeps(q)
    BY <1>1, <1>6, <2>1, RingsSaid
  <2>3. ASSUME NEW w \in Rings
        PROVE  Stays(w, f)
    <3>1. CASE wpc'[w] = wpc[w]
      BY <1>1, <1>6, <3>1, StaysPut
    <3>2. CASE wpc[w] = "none" /\ wpc'[w] = "queued"
      BY <3>2, StaysOff DEF Busy, AcceptPlaces, ReadPlaces
    <3> QED BY <1>3, <3>1, <3>2
  <2>4. TransferOf(f) /\ BatonOf(f)' /\ OutsideInv /\ RestInv'
    BY DEF DeliveryInv, TransferInv, DescriptorInv, BatonInv, ReactorInv
  <2> QED BY <1>1, <1>5, <2>2, <2>3, <2>4, TransferKeep
<1>10. PrevInv'
  <2>1. Deleting' = Deleting
    BY <1>1, <1>3 DEF Deleting
  <2>2. AllAlive' => AllAlive
    BY <1>3 DEF AllAlive, Alive
  <2>3. opc' # "freed" => opc # "freed"
    BY DEF PeerConnect, PeerSend, PeerClose, Peer, Send, OwnerGoes, StartTask, Stop,
         StopSignal, SignalUpTo, StopDrained, Destroy, DestroyWait, vars, Owner, owner
  <2> QED BY <1>1, <1>6, <2>1, <2>2, <2>3, PrevKeep DEF DeliveryInv
<1> QED BY <1>7, <1>8, <1>9, <1>10 DEF DeliveryInv

(* A new request is what was filled in, and so are the others.             *)
LEMMA InsertFills ==
  ASSUME HeapInv, RingInv, NEW sel \in Rings, NEW r \in Content, NEW others,
         Fill(others), Insert(sel, r, others)
  PROVE  heap'[Malloc(r)] = r /\ \A q \in DOMAIN heap : heap'[q] = others[q]
<1> DEFINE m == Malloc(r)
<1>1. m \notin DOMAIN heap
  BY MallocIsFresh
<1>2. heap' = [p \in DOMAIN others \cup {m} |-> IF p = m THEN r ELSE others[p]]
  BY DEF Insert
<1> HIDE DEF m
<1>3. DOMAIN others = DOMAIN heap
  BY DEF Fill
<1>4. heap'[m] = r /\ \A q \in DOMAIN heap : heap'[q] = others[q]
  BY <1>1, <1>2, <1>3
<1> QED BY <1>4 DEF m

(* saurion_send adds a write, which carries nothing.                       *)
LEMMA DeliverySubmit ==
  ASSUME ReactorInv, DescriptorInv', DeliveryInv, Submit
  PROVE  DeliveryInv'
<1>1. RingInv /\ HeapInv /\ OutsideInv /\ HoldInv
  BY DEF ReactorInv
<1>2. PICK k \in calls, sel \in Rings, r \in Content :
        /\ r.type = "write" /\ r.prev = FALSE /\ Insert(sel, r, heap) /\ Fill(heap)
        /\ UNCHANGED <<prevs, outside, workers, owner, told, got, torn, ended>>
  BY SubmitAdds
<1>3. PICK m : m = Malloc(r)
  OBVIOUS
<1>4. /\ m \notin DOMAIN heap /\ DOMAIN heap' = DOMAIN heap \cup {m} /\ m[1] = "write"
      /\ inflight' = [inflight EXCEPT ![sel] = @ \cup {m}] /\ cq' = cq
      /\ heap'[m] = r /\ \A q \in DOMAIN heap : heap'[q] = heap[q]
  <2>1. /\ m \notin DOMAIN heap /\ DOMAIN heap' = DOMAIN heap \cup {m}
        /\ inflight' = [inflight EXCEPT ![sel] = @ \cup {m}] /\ cq' = cq
    BY <1>1, <1>2, <1>3, InsertHeap
  <2>2. heap'[m] = r /\ \A q \in DOMAIN heap : heap'[q] = heap[q]
    BY <1>1, <1>2, <1>3, InsertFills
  <2>3. m[1] = "write"
    BY <1>1, <1>2, <1>3, MallocIsFresh
  <2> QED BY <2>1, <2>2, <2>3
<1>5. UNCHANGED <<prevs, peer, sent, taken, backlog, file, wpc, cur, cqres, opc>>
      /\ UNCHANGED <<got, torn, ended>>
  BY <1>2 DEF outside, workers, owner
<1>6. \A q \in DOMAIN heap : ReqKeeps(q)
  BY <1>4 DEF ReqKeeps
<1>7. \A c \in Conns : ConnKeeps(c)
  BY <1>5 DEF ConnKeeps
<1>8. ConnInv' /\ GotInv'
  <2>1. ConnInv'
    BY <1>1, <1>5, <1>7, ConnKeep DEF DeliveryInv
  <2> QED BY <1>5, <2>1, GotKeep DEF DeliveryInv
<1>9. TransferInv'
  <2> SUFFICES ASSUME NEW f \in Fds
               PROVE  TransferOf(f)'
    BY DEF TransferInv
  <2>1. \A r1 \in Rings : Alive(r1)' => Alive(r1)
    BY <1>5 DEF Alive
  <2>2. \A r1 \in Rings : \A q \in InRing(r1) : ReqKeeps(q)
    BY <1>1, <1>6 DEF HoldInv, InRing, Owned
  <2>3. Said(f)
    BY <1>4, <2>1, <2>2, QueueSaid
  <2>4. \A q \in Waits(f)' : q \in Waits(f) /\ ReqKeeps(q)
    <3>1. Waits(f)' = Waits(f)
      BY <1>1, <1>4, WaitsInsert
    <3> QED BY <2>2, <3>1 DEF Waits, InRing
  <2>5. ASSUME NEW w \in Rings
        PROVE  Stays(w, f)
    <3>1. wpc[w] \in ReadPlaces => ReqKeeps(cur[w])
      BY <1>6, HandOwned DEF ReadPlaces, Handling
    <3> QED BY <1>5, <3>1, StaysPut
  <2>6. TransferOf(f) /\ BatonOf(f)' /\ RestInv'
    BY DEF DeliveryInv, TransferInv, DescriptorInv, BatonInv
  <2> QED BY <1>1, <1>5, <1>7, <2>3, <2>4, <2>5, <2>6, TransferKeep
<1>10. PrevInv'
  <2>1. Deleting' = Deleting
    BY <1>5 DEF Deleting
  <2>2. AllAlive' => AllAlive
    BY <1>5 DEF AllAlive, Alive
  <2>3. \A q \in DOMAIN heap' : heap'[q].prev => q \in DOMAIN heap /\ heap[q].prev
    BY <1>2, <1>4
  <2>4. m \notin Deleting
    <3>1. \A v \in Rings : wpc[v] = "delete" => cur[v] # m
      BY <1>4, HandOwned DEF Handling
    <3> QED BY <3>1 DEF Deleting
  <2> QED BY <1>4, <1>5, <1>6, <2>1, <2>2, <2>3, PrevKeep DEF DeliveryInv
<1> QED BY <1>8, <1>9, <1>10 DEF DeliveryInv

(* saurion_destroy frees everything, when the workers have ended.          *)
LEMMA DeliveryFree ==
  ASSUME ReactorInv, ReactorInv', DescriptorInv', DeliveryInv, DestroyFree
  PROVE  DeliveryInv'
<1>1. /\ inflight' = [r \in Rings |-> {}] /\ cq' = [r \in Rings |-> <<>>]
      /\ heap' = Restrict(heap, DOMAIN heap \ BagToSet(list)) /\ prevs' = prevs
      /\ UNCHANGED <<peer, sent, taken, backlog, file, wpc, cur, cqres, got, torn, ended>>
      /\ \A w \in Rings : wpc[w] \in {"done", "dead"}
      /\ opc' \in {"freed", "aborted"}
  BY DEF DestroyFree, ListFree, Owner, outside, workers, app
<1>2. \A c \in Conns : ConnKeeps(c)
  BY <1>1 DEF ConnKeeps
<1>3. ConnInv' /\ GotInv'
  <2>1. ConnInv'
    BY <1>1, <1>2, ConnKeep DEF DeliveryInv, ReactorInv
  <2> QED BY <1>1, <2>1, GotKeep DEF DeliveryInv
<1>4. TransferInv'
  <2> SUFFICES ASSUME NEW f \in Fds
               PROVE  TransferOf(f)'
    BY DEF TransferInv
  <2>1. Said(f) /\ Waits(f)' = {}
    BY <1>1 DEF Said, Entries, Waits
  <2>2. \A w \in Rings : Stays(w, f)
    BY <1>1, StaysOff DEF Busy, AcceptPlaces, ReadPlaces
  <2>3. TransferOf(f) /\ BatonOf(f)' /\ RestInv' /\ OutsideInv
    BY DEF DeliveryInv, TransferInv, DescriptorInv, BatonInv, ReactorInv
  <2> QED BY <1>1, <1>2, <2>1, <2>2, <2>3, TransferKeep
<1>5. PrevInv'
  <2>1. AllAlive' => opc' = "freed"
    BY <1>1 DEF ReactorInv, ListInv
  <2>2. \A q \in DOMAIN heap' : heap'[q].prev => q \in DOMAIN heap /\ heap[q].prev
    BY <1>1 DEF Restrict
  <2> QED BY <1>1, <2>1, <2>2, PrevKeep DEF DeliveryInv
<1> QED BY <1>3, <1>4, <1>5 DEF DeliveryInv

(* What a worker has in its hands is in no ring.                           *)
LEMMA HandNotInRing ==
  ASSUME ReactorInv, NEW w \in Rings, wpc[w] \in Handling
  PROVE  \A r \in Rings : cur[w] \notin InRing(r) /\ (r # w => cur[r] # cur[w])
<1>1. cur[w] # None
  BY DEF ReactorInv, RingInv
<1>2. cur[w] \in Owned(w) /\ \A r \in Rings : r # w => Owned(r) \cap Owned(w) = {}
  BY HandOwned DEF ReactorInv, HoldInv
<1>3. \A r \in Rings : r # w => cur[w] \notin Owned(r)
  BY <1>2
<1>4. \A r \in Rings : InRing(r) \subseteq Owned(r)
  BY DEF InRing, Owned
<1>5. \A r \in Rings : r # w => cur[r] # cur[w]
  BY <1>1, <1>3 DEF Owned
<1>6. cur[w] \notin InRing(w)
  BY DEF ReactorInv, HoldInv, InRing
<1> QED BY <1>3, <1>4, <1>5, <1>6

(* The worker that has a descriptor in its hands has closed it exactly     *)
(* when its connection was reported closed.                                *)
LEMMA ClosedInHand ==
  ASSUME NEW f \in Fds, BatonOf(f), TransferOf(f), NEW w \in Rings,
         wpc[w] \in Busy, Working(w) = f
  PROVE  /\ file[f] \in ended <=> wpc[w] = "closed"
         /\ wpc[w] \in Holding => AnswerOf(cur[w], cqres[w], f)
         /\ wpc[w] = "read_again" => UpToDate(file[f]) /\ ~heap[cur[w]].prev
         /\ wpc[w] \in AcceptPlaces => Untouched(file[f])
         /\ file[f] # None
<1>1. w \in Handled(f) /\ Single(Handled(f))
  BY DEF Handled, Hands, Busy, Fresh, Known, BatonOf
<1>2. \A v \in Hands(f, {"closed"}) : v = w
  BY <1>1 DEF Single, Handled, Hands, Fresh
<1>3. file[f] \in ended <=> wpc[w] = "closed"
  BY <1>2 DEF TransferOf, Hands
<1>4. /\ wpc[w] \in Holding => w \in Hands(f, Holding)
      /\ wpc[w] = "read_again" => w \in Hands(f, {"read_again"})
      /\ wpc[w] \in AcceptPlaces => w \in Hands(f, AcceptPlaces)
  BY DEF Hands
<1> QED BY <1>1, <1>3, <1>4 DEF TransferOf, InHands, Unread, BatonOf

(* A worker goes on with a descriptor, and nothing happens to the others.  *)
LEMMA HandTransfer ==
  ASSUME ReactorInv, DescriptorInv', TransferInv, NEW w \in Rings,
         UNCHANGED <<inflight, cq, cur, cqres>>,
         \A v \in Rings \ {w} : wpc'[v] = wpc[v], Alive(w)' => Alive(w), NEW g,
         \A f \in Fds \ {g} : /\ file'[f] = file[f]
                              /\ file[f] \in Conns => ConnKeeps(file[f]),
         \A q \in DOMAIN heap : q # cur[w] => ReqKeeps(q),
         wpc[w] \notin Handling => \A q \in DOMAIN heap : ReqKeeps(q),
         wpc[w] \in Busy => Working(w) = g, wpc'[w] \in Busy => Working(w)' = g,
         g \in Fds => TransferOf(g)'
  PROVE  TransferInv'
<1> SUFFICES ASSUME NEW f \in Fds, f # g
             PROVE  TransferOf(f)'
  BY DEF TransferInv
<1>1. HoldInv /\ OutsideInv
  BY DEF ReactorInv
<1>2. \A r \in Rings : \A q \in InRing(r) : q \in DOMAIN heap
  BY <1>1 DEF HoldInv, InRing, Owned
<1>3. \A r \in Rings : \A q \in InRing(r) : ReqKeeps(q)
  <2>1. wpc[w] \in Handling => \A r \in Rings : cur[w] \notin InRing(r)
    BY HandNotInRing
  <2> QED BY <1>2, <2>1
<1>4. \A r \in Rings : Alive(r)' => Alive(r)
  BY DEF Alive
<1>5. Said(f) /\ \A q \in Waits(f)' : q \in Waits(f) /\ ReqKeeps(q)
  BY <1>3, <1>4, RingsSaid
<1>6. ASSUME NEW v \in Rings
      PROVE  Stays(v, f)
  <2>1. CASE v = w
    BY <2>1, StaysOff DEF Busy, ReadPlaces
  <2>2. CASE v # w
    <3>1. ASSUME wpc[v] \in ReadPlaces
          PROVE  ReqKeeps(cur[v])
      <4>1. wpc[v] \in Handling
        BY <3>1 DEF ReadPlaces, Handling
      <4>2. cur[v] \in DOMAIN heap
        BY <4>1, HandOwned
      <4>3. cur[v] # cur[w]
        BY <2>2, <4>1, HandNotInRing
      <4> QED BY <4>2, <4>3
    <3> QED BY <2>2, <3>1, StaysPut
  <2> QED BY <2>1, <2>2
<1>7. TransferOf(f) /\ BatonOf(f)' /\ RestInv'
  BY DEF TransferInv, DescriptorInv, BatonInv
<1> QED BY <1>1, <1>5, <1>6, <1>7, TransferKeep

(* on_readed, about a connection the application knows.                    *)
LEMMA ReadedHand ==
  ASSUME ReactorInv, DescriptorInv, DeliveryInv, ResultKept, NEW w \in Rings, OnReaded(w)
  PROVE  \E g \in Fds, c \in Conns :
           /\ Working(w) = g /\ Fd(w) = g /\ file[g] = c /\ told[g] = c
           /\ heap[cur[w]].conn = c /\ heap[cur[w]] \in Content
           /\ c \notin ended /\ prevs' = prevs \ {c}
           /\ AnswerOf(cur[w], cqres[w], g) /\ cqres[w] > 0
<1>1. wpc[w] = "data" /\ prevs' = prevs \ {heap[cur[w]].conn}
  BY DEF OnReaded, Go
<1>2. Fd(w) \in Fds /\ told[Fd(w)] = file[Fd(w)] /\ told[Fd(w)] \in Conns
  BY <1>1, KnownConn DEF ReadPlaces
<1>3. Fd(w) = cur[w][2] /\ heap[cur[w]] \in Content
  BY <1>1, InHand DEF Handling
<1>4. PICK g \in Fds, c \in Conns : g = Fd(w) /\ c = file[g]
  BY <1>2
<1>5. Working(w) = g /\ cqres[w] > 0
  BY <1>1, <1>3, <1>4 DEF Working, AcceptPlaces, DescriptorInv, ResultInv, ResultOf
<1>6. c \notin ended /\ AnswerOf(cur[w], cqres[w], g)
  <2>1. BatonOf(g) /\ TransferOf(g)
    BY DEF DescriptorInv, BatonInv, DeliveryInv, TransferInv
  <2> QED BY <1>1, <1>4, <1>5, <2>1, ClosedInHand DEF Busy, ReadPlaces, Holding
<1>7. heap[cur[w]].conn = c
  BY <1>4, <1>6 DEF AnswerOf, Follows
<1> QED BY <1>1, <1>2, <1>3, <1>4, <1>5, <1>6, <1>7

(* A whole message continues what was delivered before.                    *)
LEMMA ReadedWhole ==
  ASSUME ReactorInv, DescriptorInv, DeliveryInv, ResultKept, NEW w \in Rings, OnReaded(w),
         ~Tears(cur[w]), NEW g \in Fds, NEW c \in Conns, file[g] = c,
         Fd(w) = g, told[g] = c, heap[cur[w]].conn = c, heap[cur[w]] \in Content,
         AnswerOf(cur[w], cqres[w], g)
  PROVE  /\ Len(got[c]) + Parts = taken[c] /\ c \notin torn /\ torn' = torn
         /\ \A b \in Conns : b # c => got'[b] = got[b]
         /\ Len(got'[c]) = taken[c] /\ GotInv'
<1>1. /\ got' = [got EXCEPT ![told[Fd(w)]] = @ \o heap[cur[w]].data]
      /\ torn' = torn
  BY DEF OnReaded
<1>2. c \notin torn /\ ~(Len(heap[cur[w]].data) < Parts)
  BY DEF Tears, Torn
<1> DEFINE d == heap[cur[w]].data
           S == Conns \X Nat
<1>3. d \in Seq(S)
  BY DEF Content
<1>4. got[c] \in Seq(S) /\ got \in [Conns \cup {None} -> Seq(S)]
  BY DEF DeliveryInv, GotInv
<1>5. /\ heap[cur[w]].conn = c /\ Len(got[c]) + Len(d) = taken[c]
      /\ \A i \in DOMAIN d : d[i] = <<c, Len(got[c]) + i>>
      /\ Len(d) = Parts
  <2>1. Len(d) <= Parts /\ Follows(cur[w], c)
    BY <1>2 DEF AnswerOf, Fits
  <2>2. Len(d) \in Nat
    BY <1>3, LenProperties
  <2>3. Len(d) = Parts
    BY <1>2, <2>1, <2>2, ReactorAssumption
  <2> QED BY <1>2, <2>1, <2>3 DEF Follows, Continues
<1>6. got' = [got EXCEPT ![c] = @ \o d]
  BY <1>1
<1> HIDE DEF d, S
<1>7. got'[c] = got[c] \o d /\ \A b \in Conns \cup {None} : b # c => got'[b] = got[b]
  BY <1>4, <1>6
<1>8. /\ got'[c] \in Seq(S) /\ Len(got'[c]) = Len(got[c]) + Len(d)
       /\ \A i \in 1 .. Len(got[c]) + Len(d) :
            got'[c][i] = IF i <= Len(got[c]) THEN got[c][i] ELSE d[i - Len(got[c])]
  BY <1>3, <1>4, <1>7, ConcatProperties
<1>9. /\ Len(got[c]) \in Nat /\ Len(d) \in Nat /\ DOMAIN got[c] = 1 .. Len(got[c])
       /\ DOMAIN d = 1 .. Len(d) /\ DOMAIN got'[c] = 1 .. Len(got'[c])
  BY <1>3, <1>4, <1>8, LenProperties
<1>10. \A i \in DOMAIN got'[c] : got'[c][i] = <<c, i>>
  <2> SUFFICES ASSUME NEW i \in 1 .. Len(got[c]) + Len(d)
               PROVE  got'[c][i] = <<c, i>>
    BY <1>8, <1>9
  <2>1. CASE i <= Len(got[c])
    <3>1. i \in DOMAIN got[c]
      BY <1>9, <2>1
    <3> QED BY <1>8, <2>1, <3>1 DEF DeliveryInv, GotInv
  <2>2. CASE ~(i <= Len(got[c]))
    <3>1. PICK k \in Int : k = i - Len(got[c])
      BY <1>9
    <3>2. k \in 1 .. Len(d) /\ Len(got[c]) + k = i
      BY <1>9, <2>2, <3>1
    <3>3. d[k] = <<c, Len(got[c]) + k>>
      BY <1>5, <1>9, <3>2
    <3>4. got'[c][i] = d[k]
      BY <1>8, <2>2, <3>1
    <3> QED BY <3>2, <3>3, <3>4
  <2> QED BY <2>1, <2>2
<1>11. \E k \in Nat : Len(got'[c]) = Parts * k
  <2>1. PICK k \in Nat : Len(got[c]) = Parts * k
    BY DEF DeliveryInv, GotInv
  <2>2. Len(got'[c]) = Parts * (k + 1) /\ k + 1 \in Nat
    BY <1>5, <1>8, <2>1, ReactorAssumption
  <2> QED BY <2>2
<1>12. GotInv'
  <2>1. got' \in [Conns \cup {None} -> Seq(S)]
    BY <1>4, <1>6, <1>7, <1>8, Zenon
  <2>2. \A b \in Conns : \A i \in DOMAIN got'[b] : got'[b][i] = <<b, i>>
    BY <1>7, <1>10 DEF DeliveryInv, GotInv
  <2>3. ASSUME NEW b \in Conns
        PROVE  \E k \in Nat : Len(got'[b]) = Parts * k
    <3>1. CASE b = c
      BY <1>11, <3>1
    <3>2. CASE b # c
      <4>1. got'[b] = got[b]
        BY <1>7, <3>2
      <4> QED BY <4>1 DEF DeliveryInv, GotInv
    <3> QED BY <3>1, <3>2
  <2>4. torn' \subseteq Conns /\ (torn' # {} => Parts > 2)
    BY <1>1 DEF DeliveryInv, GotInv
  <2> QED BY <2>1, <2>2, <2>3, <2>4 DEF GotInv, S
<1>13. Len(got'[c]) = taken[c] /\ Len(got[c]) + Parts = taken[c]
  BY <1>5, <1>8
<1> QED BY <1>1, <1>2, <1>7, <1>12, <1>13

(* Otherwise the server loses its place, or has lost it: at first with two *)
(* segments of a message that has more.                                    *)
LEMMA ReadedTorn ==
  ASSUME DeliveryInv, NEW w \in Rings, OnReaded(w), Tears(cur[w]), NEW g \in Fds,
         NEW c \in Conns, file[g] = c, heap[cur[w]].conn = c, heap[cur[w]] \in Content,
         AnswerOf(cur[w], cqres[w], g), cqres[w] > 0
  PROVE  /\ got' = got /\ torn' = torn \cup {c} /\ GotInv'
         /\ c \notin torn => Parts > 2 /\ Len(got[c]) + 2 <= taken[c]
<1>1. got' = got /\ torn' = torn \cup {c}
  BY DEF OnReaded
<1>2. ASSUME c \notin torn
      PROVE  Parts > 2 /\ Len(got[c]) + 2 <= taken[c]
  <2>1. PICK l \in Nat, a \in Nat : l = Len(heap[cur[w]].data) /\ a = Len(got[c])
    <3>1. heap[cur[w]].data \in Seq(Conns \X Nat) /\ got[c] \in Seq(Conns \X Nat)
      BY DEF Content, DeliveryInv, GotInv
    <3> QED BY <3>1, LenProperties
  <2>2. l < Parts /\ (Parts = 1 \/ heap[cur[w]].prev \/ heap[cur[w]].data = <<>>)
    BY <1>2, <2>1 DEF OnReaded, Tears, Torn, Whole
  <2>3. a + l = taken[c] /\ l > Before(cur[w])
    BY <1>2, <2>1 DEF AnswerOf, Follows, Continues, Fits
  <2>4. heap[cur[w]].data = <<>> => l = 0
    BY <2>1
  <2>5. l >= 2
    BY <2>2, <2>3, <2>4, ReactorAssumption DEF Before
  <2>6. Parts > 2 /\ a + 2 <= a + l
    BY <2>2, <2>5, ReactorAssumption
  <2> QED BY <2>1, <2>3, <2>6
<1>3. GotInv'
  BY <1>1, <1>2 DEF DeliveryInv, GotInv
<1> QED BY <1>1, <1>2, <1>3

(* Either way, nothing is left of what was taken.                          *)
LEMMA ReadedAll ==
  ASSUME ReactorInv, DescriptorInv, DeliveryInv, ResultKept, NEW w \in Rings, OnReaded(w)
  PROVE  \E g \in Fds, c \in Conns :
           /\ Working(w) = g /\ file[g] = c /\ heap[cur[w]].conn = c
           /\ prevs' = prevs \ {c} /\ c \notin ended /\ GotInv'
           /\ c \notin torn' => Len(got'[c]) = taken[c]
           /\ \A b \in Conns : b # c => got'[b] = got[b] /\ (b \in torn' <=> b \in torn)
<1>1. PICK g \in Fds, c \in Conns :
           /\ Working(w) = g /\ Fd(w) = g /\ file[g] = c /\ told[g] = c
           /\ heap[cur[w]].conn = c /\ heap[cur[w]] \in Content
           /\ c \notin ended /\ prevs' = prevs \ {c}
           /\ AnswerOf(cur[w], cqres[w], g) /\ cqres[w] > 0
  BY ReadedHand
<1>2. CASE Tears(cur[w])
  <2>1. got' = got /\ torn' = torn \cup {c} /\ GotInv'
    BY <1>1, <1>2, ReadedTorn
  <2> QED BY <1>1, <2>1
<1>3. CASE ~Tears(cur[w])
  <2>1. /\ torn' = torn /\ \A b \in Conns : b # c => got'[b] = got[b]
        /\ Len(got'[c]) = taken[c] /\ GotInv'
    BY <1>1, <1>3, ReadedWhole
  <2> QED BY <1>1, <2>1
<1> QED BY <1>2, <1>3

(* A handler that leaves the connections and the requests as they are.     *)
LEMMA DeliverySame ==
  ASSUME ReactorInv, DescriptorInv', DeliveryInv, NEW w \in Rings,
         UNCHANGED <<outside, ringv, heap, prevs, cur, cqres, opc, got, torn, ended>>,
         NEW to, wpc' = [wpc EXCEPT ![w] = to], wpc[w] # "dead", wpc[w] # "delete",
         to = "delete" => cur[w] \in DOMAIN heap /\ ~heap[cur[w]].prev, NEW g,
         wpc[w] \in Busy => Working(w) = g, to \in Busy => Working(w)' = g,
         g \in Fds => TransferOf(g)'
  PROVE  DeliveryInv'
<1>1. RingInv /\ OutsideInv
  BY DEF ReactorInv
<1>2. \A v \in Rings : wpc'[v] = IF v = w THEN to ELSE wpc[v]
  BY <1>1 DEF RingInv
<1>3. \A c \in Conns : ConnKeeps(c)
  BY DEF ConnKeeps, outside
<1>4. \A q : ReqKeeps(q)
  BY DEF ReqKeeps
<1>5. ConnInv' /\ GotInv'
  <2>1. ConnInv'
    BY <1>1, <1>3, ConnKeep DEF DeliveryInv, outside
  <2> QED BY <2>1, GotKeep DEF DeliveryInv
<1>6. TransferInv'
  <2>1. \A v \in Rings \ {w} : wpc'[v] = wpc[v]
    BY <1>2
  <2>2. \A f \in Fds \ {g} : file'[f] = file[f] /\ (file[f] \in Conns => ConnKeeps(file[f]))
    BY <1>3 DEF outside
  <2>3. Alive(w)' => Alive(w)
    BY DEF Alive
  <2>4. wpc'[w] \in Busy => Working(w)' = g
    BY <1>2
  <2> QED BY <1>4, <2>1, <2>2, <2>3, <2>4, HandTransfer DEF ringv, DeliveryInv
<1>7. PrevInv'
  <2>1. \A v \in Rings : (wpc'[v] = "delete" <=> wpc[v] = "delete") \/ (v = w /\ to = "delete")
    BY <1>2
  <2>2. Deleting' \subseteq Deleting \cup (IF to = "delete" THEN {cur[w]} ELSE {})
    BY <2>1 DEF Deleting
  <2>3. AllAlive' => AllAlive
    BY <1>2 DEF AllAlive, Alive
  <2>4. \A q \in DOMAIN heap \ Deleting : heap[q].prev => q \in DOMAIN heap' \ Deleting'
    BY <2>2
  <2> QED BY <1>4, <2>3, <2>4, PrevKeep DEF DeliveryInv
<1> QED BY <1>5, <1>6, <1>7 DEF DeliveryInv

(* The steps of a worker that take nothing from a connection: ready, the   *)
(* end, on_wrote, on_connected, and the tests of cqe->res.                 *)
LEMMA DeliveryTurns ==
  ASSUME ReactorInv, KindInv, DescriptorInv, DescriptorInv', DeliveryInv, ResultKept,
         NEW w \in Rings,
         Ready(w) \/ Exit(w) \/ HandleWrite(w) \/ HandleAccept(w) \/ DispatchRead(w)
  PROVE  DeliveryInv'
<1>1. RingInv /\ PrevInv /\ 0 \notin Fds
  BY ReactorAssumption DEF ReactorInv, DeliveryInv
<1>2. CASE Ready(w) \/ Exit(w) \/ HandleWrite(w)
  <2>1. PICK to \in {"wait", "done", "delete"} :
          /\ wpc' = [wpc EXCEPT ![w] = to] /\ wpc[w] \in {"ready", "exit", "write"}
          /\ to = "delete" => wpc[w] = "write"
    BY <1>2 DEF Ready, Exit, HandleWrite, Go
  <2>2. UNCHANGED <<outside, ringv, heap, prevs, cur, cqres, opc, got, torn, ended>>
    BY <1>2 DEF Ready, Exit, HandleWrite, OnWrote, reqs, owner, app
  <2>3. wpc[w] \notin Busy /\ to \notin Busy /\ wpc[w] \notin {"dead", "delete"}
    BY <2>1 DEF Busy, AcceptPlaces, ReadPlaces
  <2>4. ASSUME to = "delete"
        PROVE  cur[w] \in DOMAIN heap /\ ~heap[cur[w]].prev
    <3>1. wpc[w] = "write" /\ cur[w][1] = "write"
      BY <2>1, <2>4 DEF KindInv
    <3>2. cur[w] \in DOMAIN heap
      BY <3>1, HandOwned DEF Handling
    <3> QED BY <1>1, <3>1, <3>2 DEF PrevInv
  <2> QED BY <1>1, <2>1, <2>2, <2>3, <2>4, DeliverySame
<1>3. CASE HandleAccept(w)
  <2>1. /\ wpc[w] = "accept" /\ wpc' = [wpc EXCEPT ![w] = "accept_again"]
        /\ UNCHANGED <<outside, ringv, heap, prevs, cur, cqres, opc, got, torn, ended>>
    BY <1>3 DEF HandleAccept, OnConnected, Go, reqs, owner
  <2>2. wpc'[w] = "accept_again"
    BY <1>1, <2>1 DEF RingInv
  <2>3. PICK g \in Fds : g = cqres[w]
    BY <2>1 DEF DescriptorInv, ResultInv, ResultOf, AcceptPlaces
  <2>4. /\ wpc[w] \in Busy /\ Working(w) = g /\ Working(w)' = g /\ wpc'[w] \in Busy
        /\ wpc'[w] \notin Holding /\ wpc[w] \in AcceptPlaces
    BY <2>1, <2>2, <2>3 DEF Working, Busy, AcceptPlaces, Holding
  <2>5. Untouched(file[g]) /\ file[g] \notin ended
    <3>1. BatonOf(g) /\ TransferOf(g)
      BY DEF DescriptorInv, BatonInv, DeliveryInv, TransferInv
    <3> QED BY <2>1, <2>4, <3>1, ClosedInHand
  <2>6. Untouched(file[g])' /\ file'[g] \notin ended'
    BY <2>1, <2>5 DEF Untouched, UpToDate, outside
  <2>7. TransferOf(g)'
    <3>1. BatonOf(g)'
      BY DEF DescriptorInv, BatonInv
    <3> QED BY <2>2, <2>4, <2>6, <3>1, AtHand
  <2> QED BY <2>1, <2>4, <2>7, DeliverySame
<1>4. CASE DispatchRead(w)
  <2>1. PICK to \in {"closing", "data"} :
          wpc[w] = "read" /\ wpc' = [wpc EXCEPT ![w] = to]
    BY <1>4 DEF DispatchRead, Go
  <2>2. UNCHANGED <<outside, ringv, heap, prevs, cur, cqres, opc, got, torn, ended>>
    BY <1>4 DEF DispatchRead, reqs, owner
  <2>3. wpc'[w] = to
    BY <1>1, <2>1 DEF RingInv
  <2>4. PICK g \in Fds : g = cur[w][2]
    BY <2>1 DEF DescriptorInv, ResultInv, ResultOf, ReadPlaces
  <2>5. /\ wpc[w] \in Busy /\ Working(w) = g /\ Working(w)' = g /\ to \in Busy
        /\ to \in Holding /\ wpc[w] \in Holding
        /\ to \notin {"read_again", "closed"} \cup AcceptPlaces
    BY <2>1, <2>2, <2>3, <2>4 DEF Working, Busy, AcceptPlaces, ReadPlaces, Holding
  <2>6. AnswerOf(cur[w], cqres[w], g) /\ file[g] \notin ended
    <3>1. BatonOf(g) /\ TransferOf(g)
      BY DEF DescriptorInv, BatonInv, DeliveryInv, TransferInv
    <3> QED BY <2>1, <2>5, <3>1, ClosedInHand
  <2>7. AnswerOf(cur[w], cqres[w], g)' /\ file'[g] \notin ended'
    BY <2>2, <2>6 DEF AnswerOf, Follows, Continues, Fits, Before, Over, Short, outside
  <2>8. TransferOf(g)'
    <3>1. BatonOf(g)'
      BY DEF DescriptorInv, BatonInv
    <3> QED BY <2>3, <2>5, <2>7, <3>1, AtHand
  <2>9. wpc[w] # "dead" /\ wpc[w] # "delete" /\ to # "delete"
    BY <2>1
  <2> QED BY <2>1, <2>2, <2>5, <2>8, <2>9, DeliverySame
<1> QED BY <1>2, <1>3, <1>4

(* on_closed: the connection ends, and the descriptor is known by nobody.  *)
LEMMA DeliveryClosed ==
  ASSUME ReactorInv, DescriptorInv, DescriptorInv', DeliveryInv, ResultKept,
         NEW w \in Rings, Go(w, "closing", "closed"), OnClosed(w)
  PROVE  DeliveryInv'
<1>1. RingInv /\ OutsideInv
  BY DEF ReactorInv
<1>2. /\ wpc[w] = "closing" /\ wpc' = [wpc EXCEPT ![w] = "closed"]
      /\ UNCHANGED <<peer, sent, taken, backlog, file, inflight, cq, heap, prevs, cur,
                     cqres, opc, got, torn>>
      /\ ended' = ended \cup {told[Fd(w)]}
  BY DEF Go, OnClosed, outside, ringv, reqs, owner
<1>3. PICK g \in Fds, c \in Conns :
        g = cur[w][2] /\ c = file[g] /\ ended' = ended \cup {c}
  <2>1. Fd(w) \in Fds /\ told[Fd(w)] = file[Fd(w)] /\ told[Fd(w)] \in Conns
    BY <1>2, KnownConn DEF ReadPlaces
  <2>2. Fd(w) = cur[w][2]
    BY <1>2, InHand DEF Handling
  <2> QED BY <1>2, <2>1, <2>2
<1>4. \A v \in Rings : wpc'[v] = IF v = w THEN "closed" ELSE wpc[v]
  BY <1>1, <1>2 DEF RingInv
<1>5. \A b \in Conns : b # c => ConnKeeps(b)
  BY <1>2, <1>3 DEF ConnKeeps
<1>6. \A q : ReqKeeps(q)
  BY <1>2 DEF ReqKeeps
<1>7. ConnInv' /\ GotInv'
  <2>1. c \in Opened
    BY <1>3, ReactorAssumption DEF Opened
  <2>2. ConnInv'
    BY <1>1, <1>2, <1>5, <2>1, ConnKeep DEF DeliveryInv
  <2> QED BY <1>2, <2>2, GotKeep DEF DeliveryInv
<1>8. wpc[w] \in Busy /\ Working(w) = g /\ wpc'[w] \in Busy /\ Working(w)' = g
  BY <1>2, <1>3, <1>4 DEF Working, Busy, AcceptPlaces, ReadPlaces
<1>9. TransferOf(g)'
  <2>1. AnswerOf(cur[w], cqres[w], g)
    <3>1. BatonOf(g) /\ TransferOf(g)
      BY DEF DescriptorInv, BatonInv, DeliveryInv, TransferInv
    <3> QED BY <1>2, <1>8, <3>1, ClosedInHand DEF Holding
  <2>2. AnswerOf(cur[w], cqres[w], g)'
    BY <1>2, <2>1 DEF AnswerOf, Follows, Continues, Fits, Before, Over, Short
  <2>3. BatonOf(g)'
    BY DEF DescriptorInv, BatonInv
  <2>4. file'[g] \in ended' /\ wpc'[w] = "closed" /\ wpc'[w] \notin AcceptPlaces
    BY <1>2, <1>3, <1>4 DEF AcceptPlaces
  <2> QED BY <1>8, <2>2, <2>3, <2>4, AtHand
<1>10. TransferInv'
  <2>1. \A f \in Fds \ {g} : /\ file'[f] = file[f]
                             /\ file[f] \in Conns => ConnKeeps(file[f])
    <3>1. \A f \in Fds \ {g} : file[f] # c
      BY <1>3, ReactorAssumption DEF DeliveryInv, ConnInv
    <3> QED BY <1>2, <1>5, <3>1
  <2>2. \A v \in Rings \ {w} : wpc'[v] = wpc[v]
    BY <1>4
  <2>3. Alive(w)' => Alive(w)
    BY <1>2 DEF Alive
  <2> QED BY <1>2, <1>6, <1>8, <1>9, <2>1, <2>2, <2>3, HandTransfer DEF DeliveryInv
<1>11. PrevInv'
  <2>1. Deleting' = Deleting
    <3>1. \A v \in Rings : wpc'[v] = "delete" <=> wpc[v] = "delete"
      BY <1>2, <1>4
    <3> QED BY <1>2, <3>1 DEF Deleting
  <2>2. AllAlive' => AllAlive
    BY <1>2, <1>4 DEF AllAlive, Alive
  <2> QED BY <1>2, <1>6, <2>1, <2>2, PrevKeep DEF DeliveryInv
<1> QED BY <1>7, <1>10, <1>11 DEF DeliveryInv

(* close(): the descriptor is free.                                        *)
LEMMA DeliveryCloseFd ==
  ASSUME ReactorInv, DescriptorInv, DescriptorInv', DeliveryInv, ResultKept,
         NEW w \in Rings, Go(w, "closed", IF Result(w) > 0 THEN "data" ELSE "delete"),
         CloseFd(w)
  PROVE  DeliveryInv'
<1>1. RingInv /\ OutsideInv
  BY DEF ReactorInv
<1>2. /\ wpc[w] = "closed"
      /\ UNCHANGED <<peer, sent, taken, backlog, inflight, cq, heap, prevs, cur, cqres,
                     opc, got, torn, ended>>
  BY DEF Go, CloseFd, ringv, reqs, owner, app
<1>3. PICK g \in Fds : g = cur[w][2] /\ Fd(w) = g
  BY <1>2, InHand DEF Handling, DescriptorInv, ResultInv, ResultOf, ReadPlaces
<1>4. wpc' = [wpc EXCEPT ![w] = "delete"]
  <2>1. Result(w) = 0
    BY <1>2, InHand DEF Handling, DescriptorInv, ResultInv, ResultOf
  <2> QED BY <2>1 DEF Go
<1>5. \A v \in Rings : wpc'[v] = IF v = w THEN "delete" ELSE wpc[v]
  BY <1>1, <1>4 DEF RingInv
<1>6. /\ file' = [file EXCEPT ![g] = None] /\ \A f \in Fds \ {g} : file'[f] = file[f]
      /\ file'[g] = None
  BY <1>1, <1>3 DEF CloseFd, OutsideInv
<1>7. \A b \in Conns : ConnKeeps(b)
  BY <1>2 DEF ConnKeeps
<1>8. \A q : ReqKeeps(q)
  BY <1>2 DEF ReqKeeps
<1>9. ConnInv' /\ GotInv'
  <2>1. ConnInv'
    BY <1>1, <1>2, <1>6, <1>7, ConnKeep DEF DeliveryInv
  <2> QED BY <1>2, <2>1, GotKeep DEF DeliveryInv
<1>10. wpc[w] \in Busy /\ Working(w) = g /\ wpc'[w] \notin Busy
  BY <1>2, <1>3, <1>5 DEF Working, Busy, AcceptPlaces, ReadPlaces
<1>11. heap[cur[w]].conn \in ended
  <2>1. BatonOf(g) /\ TransferOf(g)
    BY DEF DescriptorInv, BatonInv, DeliveryInv, TransferInv
  <2> QED BY <1>2, <1>10, <2>1, ClosedInHand DEF Holding, AnswerOf, Follows
<1>12. TransferInv'
  <2>1. TransferOf(g)'
    BY <1>6, AtNone DEF DescriptorInv, BatonInv
  <2>2. \A v \in Rings \ {w} : wpc'[v] = wpc[v]
    BY <1>5
  <2>3. Alive(w)' => Alive(w)
    BY <1>2 DEF Alive
  <2> QED BY <1>2, <1>6, <1>7, <1>8, <1>10, <2>1, <2>2, <2>3, HandTransfer DEF DeliveryInv
<1>13. PrevInv'
  <2>1. Deleting' \subseteq Deleting \cup {cur[w]}
    BY <1>2, <1>5 DEF Deleting
  <2>2. AllAlive' => AllAlive
    BY <1>2, <1>5 DEF AllAlive, Alive
  <2>3. \A q \in DOMAIN heap \ Deleting : heap[q].conn \notin ended' =>
          q \in DOMAIN heap' \ Deleting'
    BY <1>2, <1>11, <2>1
  <2> QED BY <1>2, <1>8, <2>2, <2>3, PrevKeep DEF DeliveryInv
<1> QED BY <1>9, <1>12, <1>13 DEF DeliveryInv

(* on_readed: a message is delivered, and nothing is carried over.         *)
LEMMA DeliveryReaded ==
  ASSUME ReactorInv, DescriptorInv, DescriptorInv', DeliveryInv, ResultKept,
         NEW w \in Rings, OnReaded(w)
  PROVE  DeliveryInv'
<1>1. RingInv /\ OutsideInv /\ HeapInv
  BY DEF ReactorInv
<1>2. PICK g \in Fds, c \in Conns :
           /\ Working(w) = g /\ file[g] = c /\ heap[cur[w]].conn = c
           /\ prevs' = prevs \ {c} /\ c \notin ended /\ GotInv'
           /\ c \notin torn' => Len(got'[c]) = taken[c]
           /\ \A b \in Conns : b # c => got'[b] = got[b] /\ (b \in torn' <=> b \in torn)
  BY ReadedAll
<1>3. /\ wpc[w] = "data" /\ wpc' = [wpc EXCEPT ![w] = "read_again"]
      /\ UNCHANGED <<peer, sent, taken, backlog, file, inflight, cq, cur, cqres, opc, ended>>
      /\ heap' = [heap EXCEPT ![cur[w]].prev = FALSE]
  BY DEF OnReaded, Go, outside, ringv, owner
<1>4. \A v \in Rings : wpc'[v] = IF v = w THEN "read_again" ELSE wpc[v]
  BY <1>1, <1>3 DEF RingInv
<1>5. /\ DOMAIN heap' = DOMAIN heap /\ cur[w] \in DOMAIN heap
      /\ heap'[cur[w]].prev = FALSE /\ \A q \in DOMAIN heap : q # cur[w] => heap'[q] = heap[q]
  <2>1. cur[w] \in DOMAIN heap /\ heap[cur[w]] \in Content
    BY <1>3, InHand DEF Handling
  <2> QED BY <1>3, <2>1 DEF Content
<1>6. \A q \in DOMAIN heap : q # cur[w] => ReqKeeps(q)
  BY <1>5 DEF ReqKeeps
<1>7. \A b \in Conns : b # c => ConnKeeps(b)
  BY <1>2, <1>3 DEF ConnKeeps
<1>8. ConnInv'
  <2>1. c \in Opened
    BY <1>2, ReactorAssumption DEF Opened
  <2> QED BY <1>1, <1>3, <1>7, <2>1, ConnKeep DEF DeliveryInv
<1>9. wpc[w] \in Busy /\ wpc'[w] \in Busy /\ Working(w)' = g /\ wpc'[w] = "read_again"
  BY <1>2, <1>3, <1>4 DEF Working, Busy, AcceptPlaces, ReadPlaces
<1>10. TransferOf(g)'
  <2>1. UpToDate(file[g])' /\ ~heap'[cur'[w]].prev /\ file'[g] \notin ended'
    BY <1>2, <1>3, <1>5 DEF UpToDate
  <2>2. BatonOf(g)'
    BY DEF DescriptorInv, BatonInv
  <2>3. wpc'[w] \notin Holding /\ wpc'[w] \notin AcceptPlaces /\ wpc'[w] # "closed"
    BY <1>9 DEF Holding, AcceptPlaces
  <2> QED BY <1>9, <2>1, <2>2, <2>3, AtHand
<1>11. TransferInv'
  <2>1. \A f \in Fds \ {g} : /\ file'[f] = file[f]
                             /\ file[f] \in Conns => ConnKeeps(file[f])
    <3>1. \A f \in Fds \ {g} : file[f] # c
      BY <1>2, ReactorAssumption DEF DeliveryInv, ConnInv
    <3> QED BY <1>3, <1>7, <3>1
  <2>2. \A v \in Rings \ {w} : wpc'[v] = wpc[v]
    BY <1>4
  <2>3. Alive(w)' => Alive(w)
    BY <1>3 DEF Alive
  <2>4. wpc[w] \in Handling
    BY <1>3 DEF Handling
  <2> QED BY <1>2, <1>3, <1>6, <1>9, <1>10, <2>1, <2>2, <2>3, <2>4, HandTransfer
          DEF DeliveryInv
<1>12. PrevInv'
  <2>1. Deleting' = Deleting
    <3>1. \A v \in Rings : wpc'[v] = "delete" <=> wpc[v] = "delete"
      BY <1>3, <1>4
    <3> QED BY <1>3, <3>1 DEF Deleting
  <2>2. AllAlive' => AllAlive
    BY <1>3, <1>4 DEF AllAlive, Alive
  <2>3. prevs' \subseteq Conns
    BY <1>2 DEF DeliveryInv, PrevInv
  <2>4. \A q \in DOMAIN heap' : heap'[q].prev => q[1] = "read" /\ q[2] \in Fds
    BY <1>5 DEF DeliveryInv, PrevInv
  <2>5. ASSUME AllAlive', opc' # "freed", NEW b \in prevs' \ ended'
        PROVE  b \in Carrying'
    <3>1. b \in Carrying /\ b # c
      BY <1>2, <1>3, <2>2, <2>5 DEF DeliveryInv, PrevInv
    <3>2. PICK q \in DOMAIN heap \ Deleting : heap[q].prev /\ heap[q].conn = b
      BY <3>1 DEF Carrying
    <3>3. q # cur[w]
      BY <1>2, <3>1, <3>2
    <3> QED BY <1>5, <2>1, <3>2, <3>3 DEF Carrying
  <2> QED BY <2>3, <2>4, <2>5 DEF PrevInv
<1> QED BY <1>2, <1>8, <1>11, <1>12 DEF DeliveryInv

(* A worker adds a request, about the descriptor it has if it is about a   *)
(* connection, and nothing happens to the others.                          *)
LEMMA AddTransfer ==
  ASSUME ReactorInv, DescriptorInv', TransferInv, NEW w \in Rings, NEW sel \in Rings, NEW m,
         inflight' = [inflight EXCEPT ![sel] = @ \cup {m}],
         UNCHANGED <<cq, cur, cqres, file>>,
         \A v \in Rings \ {w} : wpc'[v] = wpc[v], Alive(w)' => Alive(w), NEW g,
         \A f \in Fds \ {g} : file[f] \in Conns => ConnKeeps(file[f]),
         \A q \in DOMAIN heap : q # cur[w] => ReqKeeps(q),
         wpc[w] \notin Handling => \A q \in DOMAIN heap : ReqKeeps(q),
         wpc[w] \in Busy => Working(w) = g, wpc'[w] \in Busy => Working(w)' = g,
         m[1] = "read" /\ m[2] \in Fds => m[2] = g,
         g \in Fds => TransferOf(g)'
  PROVE  TransferInv'
<1> SUFFICES ASSUME NEW f \in Fds, f # g
             PROVE  TransferOf(f)'
  BY DEF TransferInv
<1>1. HoldInv /\ OutsideInv /\ RingInv
  BY DEF ReactorInv
<1>2. \A r \in Rings : \A q \in InRing(r) : q \in DOMAIN heap
  BY <1>1 DEF HoldInv, InRing, Owned
<1>3. \A r \in Rings : \A q \in InRing(r) : ReqKeeps(q)
  <2>1. wpc[w] \in Handling => \A r \in Rings : cur[w] \notin InRing(r)
    BY HandNotInRing
  <2> QED BY <1>2, <2>1
<1>4. \A r \in Rings : Alive(r)' => Alive(r)
  BY DEF Alive
<1>5. Said(f)
  BY <1>3, <1>4, QueueSaid
<1>6. \A q \in Waits(f)' : q \in Waits(f) /\ ReqKeeps(q)
  <2>1. Waits(f)' = Waits(f)
    BY <1>1, WaitsInsert
  <2> QED BY <1>3, <2>1 DEF Waits, InRing
<1>7. ASSUME NEW v \in Rings
      PROVE  Stays(v, f)
  <2>1. CASE v = w
    BY <2>1, StaysOff DEF Busy, ReadPlaces
  <2>2. CASE v # w
    <3>1. ASSUME wpc[v] \in ReadPlaces
          PROVE  ReqKeeps(cur[v])
      <4>1. wpc[v] \in Handling
        BY <3>1 DEF ReadPlaces, Handling
      <4>2. cur[v] \in DOMAIN heap
        BY <4>1, HandOwned
      <4>3. cur[v] # cur[w]
        BY <2>2, <4>1, HandNotInRing
      <4> QED BY <4>2, <4>3
    <3> QED BY <2>2, <3>1, StaysPut
  <2> QED BY <2>1, <2>2
<1>8. TransferOf(f) /\ BatonOf(f)' /\ RestInv'
  BY DEF TransferInv, DescriptorInv, BatonInv
<1> QED BY <1>1, <1>5, <1>6, <1>7, <1>8, TransferKeep

(* What a worker adds, and where.                                          *)
Adding(w, sel, r, m) ==
  /\ m \notin DOMAIN heap /\ DOMAIN heap' = DOMAIN heap \cup {m}
  /\ m[1] = r.type /\ m[2] = r.fd /\ heap'[m] = r
  /\ inflight' = [inflight EXCEPT ![sel] = @ \cup {m}]
  /\ UNCHANGED <<cq, cur, cqres, outside, opc, got, torn, ended>>
  /\ \A q \in DOMAIN heap : (ReadRest(w) /\ q = cur[w]) \/ heap'[q] = heap[q]
  /\ ~ReadRest(w) => prevs' = prevs
  /\ \/ StartEfd(w) /\ sel = w /\ r = Request("read", EFD(w), None, <<>>)
     \/ /\ StartAccept(w) \/ AcceptAgain(w)
        /\ r = Request("accept", ACCEPT_FD, None, <<>>)
     \/ AcceptRead(w) /\ r = Request("read", Result(w), File(Result(w)), <<>>)
     \/ ReadAgain(w) /\ r = Request("read", Fd(w), File(Fd(w)), <<>>)
     \/ /\ ReadRest(w)
        /\ r = [heap[cur[w]] EXCEPT !.conn = File(Fd(w)), !.prev = TRUE]

(* That is what it does.                                                   *)
LEMMA AddsMore ==
  ASSUME ReactorInv, NEW w \in Rings, Adds(w)
  PROVE  \E sel \in Rings, r \in Content, m \in Addresses : Adding(w, sel, r, m)
<1>1. RingInv /\ HeapInv
  BY DEF ReactorInv
<1>2. PICK sel \in Rings, r \in Content, others \in [DOMAIN heap -> Content] :
           /\ Fill(others) /\ Insert(sel, r, others) /\ UNCHANGED rest
           /\ \/ StartEfd(w) /\ sel = w /\ r = Request("read", EFD(w), None, <<>>)
              \/ /\ StartAccept(w) \/ AcceptAgain(w)
                 /\ r = Request("accept", ACCEPT_FD, None, <<>>)
              \/ AcceptRead(w) /\ r = Request("read", Result(w), File(Result(w)), <<>>)
              \/ ReadAgain(w) /\ r = Request("read", Fd(w), File(Fd(w)), <<>>)
              \/ /\ ReadRest(w)
                 /\ r = [heap[cur[w]] EXCEPT !.conn = File(Fd(w)), !.prev = TRUE]
                 /\ others = [heap EXCEPT ![cur[w]].prev = TRUE]
           /\ ~ReadRest(w) => others = heap
  BY AddsFill
<1>3. PICK m : m = Malloc(r)
  OBVIOUS
<1>4. /\ m \notin DOMAIN heap /\ DOMAIN heap' = DOMAIN heap \cup {m} /\ m \in Addresses
      /\ inflight' = [inflight EXCEPT ![sel] = @ \cup {m}] /\ cq' = cq
  BY <1>1, <1>2, <1>3, InsertHeap
<1>5. heap'[m] = r /\ \A q \in DOMAIN heap : heap'[q] = others[q]
  BY <1>1, <1>2, <1>3, InsertFills
<1>6. m[1] = r.type /\ m[2] = r.fd
  BY <1>1, <1>2, <1>3, MallocIsFresh
<1>7. UNCHANGED <<cur, cqres, outside, opc, got, torn, ended>>
  BY <1>2 DEF rest, owner, app
<1>8. \A q \in DOMAIN heap : (ReadRest(w) /\ q = cur[w]) \/ heap'[q] = heap[q]
  <2>1. CASE ReadRest(w) /\ others = [heap EXCEPT ![cur[w]].prev = TRUE]
    BY <1>5, <2>1
  <2>2. CASE others = heap
    BY <1>5, <2>2
  <2>3. ReadRest(w) =>
          ~(StartEfd(w) \/ StartAccept(w) \/ AcceptAgain(w) \/ AcceptRead(w) \/ ReadAgain(w))
    BY DEF ReadRest, StartEfd, StartAccept, AcceptAgain, AcceptRead, ReadAgain, Go
  <2>4. ReadRest(w) => others = [heap EXCEPT ![cur[w]].prev = TRUE]
    BY <1>2, <2>3, Zenon
  <2> QED BY <1>2, <2>1, <2>2, <2>4
<1>9. ~ReadRest(w) => prevs' = prevs
  BY <1>2 DEF StartEfd, StartAccept, AcceptAgain, AcceptRead, ReadAgain, AddEfd, AddAccept,
              AddRead, Add
<1>10. \/ StartEfd(w) /\ sel = w /\ r = Request("read", EFD(w), None, <<>>)
       \/ /\ StartAccept(w) \/ AcceptAgain(w)
          /\ r = Request("accept", ACCEPT_FD, None, <<>>)
       \/ AcceptRead(w) /\ r = Request("read", Result(w), File(Result(w)), <<>>)
       \/ ReadAgain(w) /\ r = Request("read", Fd(w), File(Fd(w)), <<>>)
       \/ ReadRest(w) /\ r = [heap[cur[w]] EXCEPT !.conn = File(Fd(w)), !.prev = TRUE]
  BY <1>2, Zenon
<1> QED BY <1>4, <1>5, <1>6, <1>7, <1>8, <1>9, <1>10, Zenon DEF Adding

(* The adders that go on with nothing: the eventfd, the accept, and the    *)
(* reads that begin a message.                                             *)
LEMMA DeliveryFirst ==
  ASSUME ReactorInv, KindInv, DescriptorInv, DescriptorInv', DeliveryInv, ResultKept,
         NEW w \in Rings,
         \/ StartEfd(w) \/ StartAccept(w) \/ AcceptAgain(w)
         \/ AcceptRead(w) \/ ReadAgain(w)
  PROVE  DeliveryInv'
<1>1. RingInv /\ OutsideInv /\ PrevInv
  BY DEF ReactorInv, DeliveryInv
<1>2. ~ReadRest(w)
  BY DEF ReadRest, StartEfd, StartAccept, AcceptAgain, AcceptRead, ReadAgain, Go
<1>3. Adds(w)
  BY DEF Adds
<1>4. PICK sel \in Rings, r \in Content, m \in Addresses : Adding(w, sel, r, m)
  BY <1>3, AddsMore
<1>5. /\ m \notin DOMAIN heap /\ DOMAIN heap' = DOMAIN heap \cup {m}
      /\ m[1] = r.type /\ m[2] = r.fd /\ heap'[m] = r
      /\ inflight' = [inflight EXCEPT ![sel] = @ \cup {m}]
      /\ UNCHANGED <<cq, cur, cqres, outside, opc, got, torn, ended, prevs>>
      /\ \A q \in DOMAIN heap : heap'[q] = heap[q]
      /\ \/ StartEfd(w) /\ sel = w /\ r = Request("read", EFD(w), None, <<>>)
         \/ /\ StartAccept(w) \/ AcceptAgain(w)
            /\ r = Request("accept", ACCEPT_FD, None, <<>>)
         \/ AcceptRead(w) /\ r = Request("read", Result(w), File(Result(w)), <<>>)
         \/ ReadAgain(w) /\ r = Request("read", Fd(w), File(Fd(w)), <<>>)
  BY <1>2, <1>4 DEF Adding
<1>6. r.prev = FALSE /\ r.data = <<>>
  BY <1>5 DEF Request
<1>7. \A q \in DOMAIN heap : ReqKeeps(q)
  BY <1>5 DEF ReqKeeps
<1>8. \A c \in Conns : ConnKeeps(c)
  BY <1>5 DEF ConnKeeps, outside
<1>9. UNCHANGED <<peer, sent, taken, backlog, file>>
  BY <1>5 DEF outside
<1>10. ConnInv' /\ GotInv'
  <2>1. ConnInv'
    BY <1>1, <1>8, <1>9, ConnKeep DEF DeliveryInv
  <2> QED BY <1>5, <2>1, GotKeep DEF DeliveryInv
<1>11. PICK to :
         /\ wpc' = [wpc EXCEPT ![w] = to]
         /\ \/ wpc[w] = "queued" /\ to \in {"add_accept", "ready"}
            \/ wpc[w] = "add_accept" /\ to = "ready"
            \/ wpc[w] = "accept_again" /\ to = "accept_read"
            \/ wpc[w] \in {"accept_read", "read_again"} /\ to = "delete"
  BY DEF StartEfd, StartAccept, AcceptAgain, AcceptRead, ReadAgain, Go
<1>12. \A v \in Rings : wpc'[v] = IF v = w THEN to ELSE wpc[v]
  BY <1>1, <1>11 DEF RingInv
<1>13. PrevInv'
  <2>1. Deleting' \subseteq Deleting \cup (IF to = "delete" THEN {cur[w]} ELSE {})
    BY <1>5, <1>12 DEF Deleting
  <2>2. ASSUME to = "delete"
        PROVE  ~heap[cur[w]].prev
    <3>1. wpc[w] \in {"accept_read", "read_again"}
      BY <1>11, <2>2
    <3>2. cur[w] \in DOMAIN heap /\ heap[cur[w]] \in Content
      BY <3>1, InHand DEF Handling
    <3>3. CASE wpc[w] = "accept_read"
      BY <1>1, <3>2, <3>3 DEF KindInv, AcceptPlaces, PrevInv
    <3>4. CASE wpc[w] = "read_again"
      <4>1. PICK g \in Fds : g = cur[w][2]
        BY <3>4 DEF DescriptorInv, ResultInv, ResultOf, ReadPlaces
      <4>2. wpc[w] \in Busy /\ Working(w) = g
        BY <3>4, <4>1 DEF Working, Busy, AcceptPlaces, ReadPlaces
      <4>3. BatonOf(g) /\ TransferOf(g)
        BY DEF DescriptorInv, BatonInv, DeliveryInv, TransferInv
      <4> QED BY <3>4, <4>2, <4>3, ClosedInHand
    <3> QED BY <3>1, <3>3, <3>4
  <2>3. \A q \in DOMAIN heap \ Deleting : heap[q].prev => q \in DOMAIN heap' \ Deleting'
    BY <1>5, <2>1, <2>2
  <2>4. \A q \in DOMAIN heap' : heap'[q].prev => q \in DOMAIN heap /\ heap[q].prev
    BY <1>5, <1>6
  <2>5. AllAlive' => AllAlive
    BY <1>11, <1>12 DEF AllAlive, Alive
  <2> QED BY <1>5, <1>7, <2>3, <2>4, <2>5, PrevKeep DEF DeliveryInv
<1>14. Alive(w)' => Alive(w)
  BY <1>11 DEF Alive
<1>15. \A v \in Rings \ {w} : wpc'[v] = wpc[v]
  BY <1>12
<1>16. ASSUME NEW g, wpc[w] \in Busy => Working(w) = g,
              wpc'[w] \in Busy => Working(w)' = g,
              m[1] = "read" /\ m[2] \in Fds => m[2] = g,
              g \in Fds => TransferOf(g)'
       PROVE  TransferInv'
  <2>1. \A f \in Fds \ {g} : file[f] \in Conns => ConnKeeps(file[f])
    BY <1>8
  <2>2. TransferInv /\ UNCHANGED <<cq, cur, cqres, file>>
    BY <1>5, <1>9 DEF DeliveryInv
  <2>3. inflight' = [inflight EXCEPT ![sel] = @ \cup {m}]
    BY <1>5
  <2> QED BY <1>7, <1>14, <1>15, <1>16, <2>1, <2>2, <2>3, AddTransfer
<1>17. TransferInv'
  <2>1. CASE StartEfd(w) \/ StartAccept(w)
    <3>1. 0 \notin Fds /\ \A i \in Rings : EFD(i) \notin Fds
      BY ReactorAssumption DEF Rings, EFD
    <3>2. ~(m[1] = "read" /\ m[2] \in Fds)
      <4>1. ~(AcceptAgain(w) \/ AcceptRead(w) \/ ReadAgain(w))
        BY <2>1 DEF StartEfd, StartAccept, AcceptAgain, AcceptRead, ReadAgain, Go
      <4> QED BY <1>5, <3>1, <4>1 DEF Request
    <3>3. wpc[w] \notin Busy /\ wpc'[w] \notin Busy
      <4>1. wpc[w] \in {"queued", "add_accept"}
        BY <2>1 DEF StartEfd, StartAccept, Go
      <4> QED BY <1>11, <1>12, <4>1 DEF Busy, AcceptPlaces, ReadPlaces
    <3> QED BY <1>16, <3>1, <3>2, <3>3
  <2>2. ASSUME wpc[w] \in {"accept_again", "accept_read", "read_again"}
        PROVE  \E g \in Fds :
                 /\ Working(w) = g /\ wpc[w] \in Busy
                 /\ wpc[w] \in AcceptPlaces => Result(w) = g /\ cqres[w] = g
                 /\ wpc[w] = "read_again" => Fd(w) = g
                 /\ UpToDate(file[g]) /\ file[g] \notin ended
                 /\ wpc[w] \in AcceptPlaces => Untouched(file[g])
    <3>1. PICK g \in Fds : g = IF wpc[w] \in AcceptPlaces THEN cqres[w] ELSE cur[w][2]
      BY <2>2 DEF DescriptorInv, ResultInv, ResultOf, ReadPlaces, AcceptPlaces
    <3>2. Working(w) = g /\ wpc[w] \in Busy
      BY <2>2, <3>1 DEF Working, Busy, ReadPlaces, AcceptPlaces
    <3>3. Fd(w) = cur[w][2] /\ Result(w) = cqres[w]
      BY <2>2, InHand DEF Handling
    <3>4. /\ UpToDate(file[g]) /\ file[g] \notin ended
          /\ wpc[w] \in AcceptPlaces => Untouched(file[g])
      <4>1. BatonOf(g) /\ TransferOf(g)
        BY DEF DescriptorInv, BatonInv, DeliveryInv, TransferInv
      <4> QED BY <2>2, <3>2, <4>1, ClosedInHand DEF AcceptPlaces, Untouched
    <3> QED BY <2>2, <3>1, <3>2, <3>3, <3>4 DEF AcceptPlaces
  <2>3. CASE AcceptAgain(w)
    <3>1. wpc[w] = "accept_again" /\ to = "accept_read"
      BY <1>11, <2>3 DEF AcceptAgain, Go
    <3>2. PICK g \in Fds : /\ Working(w) = g /\ wpc[w] \in Busy /\ cqres[w] = g
                           /\ Untouched(file[g]) /\ file[g] \notin ended
      BY <2>2, <3>1 DEF AcceptPlaces
    <3>3. Working(w)' = g /\ wpc'[w] = "accept_read" /\ wpc'[w] \in Busy
          /\ wpc'[w] \notin Holding
      BY <1>5, <1>12, <3>1, <3>2 DEF Working, Busy, AcceptPlaces, Holding
    <3>4. Untouched(file[g])' /\ file'[g] \notin ended'
      BY <1>5, <1>9, <3>2 DEF Untouched, UpToDate
    <3>5. TransferOf(g)'
      <4>1. BatonOf(g)'
        BY DEF DescriptorInv, BatonInv
      <4> QED BY <3>3, <3>4, <4>1, AtHand
    <3>6. m[1] # "read"
      <4>1. ~(StartEfd(w) \/ AcceptRead(w) \/ ReadAgain(w))
        BY <2>3 DEF StartEfd, AcceptAgain, AcceptRead, ReadAgain, Go
      <4> QED BY <1>5, <4>1 DEF Request
    <3> QED BY <1>16, <3>2, <3>3, <3>5, <3>6
  <2>4. CASE AcceptRead(w) \/ ReadAgain(w)
    <3>1. wpc[w] \in {"accept_read", "read_again"} /\ to = "delete"
      BY <1>11, <2>4 DEF AcceptRead, ReadAgain, Go
    <3>2. PICK g \in Fds :
                 /\ Working(w) = g
                 /\ wpc[w] \in AcceptPlaces => Result(w) = g
                 /\ wpc[w] = "read_again" => Fd(w) = g
                 /\ UpToDate(file[g]) /\ file[g] \notin ended
      BY <2>2, <3>1
    <3>3. r.type = "read" /\ r.fd = g /\ r.conn = file[g]
      <4>1. ~(StartEfd(w) \/ StartAccept(w) \/ AcceptAgain(w))
        BY <2>4 DEF StartEfd, StartAccept, AcceptAgain, AcceptRead, ReadAgain, Go
      <4>2. AcceptRead(w) => Result(w) = g
        BY <3>2 DEF AcceptRead, Go, AcceptPlaces
      <4>3. ReadAgain(w) => Fd(w) = g
        BY <3>2 DEF ReadAgain, Go
      <4> QED BY <1>5, <4>1, <4>2, <4>3 DEF Request, File
    <3>4. m \in Waits(g)'
      <4>1. m \in inflight'[sel]
        BY <1>1, <1>5 DEF RingInv
      <4> QED BY <1>5, <3>3, <4>1 DEF Waits
    <3>5. ReadOf(m, g)' /\ file'[g] \notin ended'
      <4>1. PICK c : c = file[g]
        OBVIOUS
      <4>2. (c \notin torn => Len(got[c]) = taken[c]) /\ c \notin prevs
        BY <3>2, <4>1 DEF UpToDate
      <4>3. c \in Conns
        <5>1. BatonOf(g)
          BY DEF DescriptorInv, BatonInv
        <5>2. wpc[w] \in Busy
          BY <3>1 DEF Busy, AcceptPlaces, ReadPlaces
        <5>3. TransferOf(g)
          BY DEF DeliveryInv, TransferInv
        <5> QED BY <1>1, <3>2, <4>1, <5>1, <5>2, <5>3, ClosedInHand DEF OutsideInv
      <4>4. taken[c] \in Nat
        BY <1>1, <4>3 DEF OutsideInv
      <4>5. /\ heap'[m].conn = c /\ heap'[m].data = <<>> /\ heap'[m].prev = FALSE
            /\ Len(heap'[m].data) = 0 /\ DOMAIN heap'[m].data = {}
        BY <1>5, <1>6, <3>3, <4>1
      <4>6. Follows(m, c)'
        BY <1>5, <1>9, <4>2, <4>4, <4>5 DEF Follows, Continues
      <4>7. Begun(m)'
        BY <4>5, ReactorAssumption DEF Begun, Before, Short
      <4> QED BY <1>5, <1>9, <3>2, <4>1, <4>6, <4>7 DEF ReadOf, Follows, Continues
    <3>6. TransferOf(g)'
      <4>1. BatonOf(g)'
        BY DEF DescriptorInv, BatonInv
      <4> QED BY <3>4, <3>5, <4>1, AtAsked
    <3>7. wpc'[w] \notin Busy
      BY <1>12, <3>1 DEF Busy, AcceptPlaces, ReadPlaces
    <3>8. m[2] = g
      BY <1>5, <3>3
    <3> QED BY <1>16, <3>2, <3>6, <3>7, <3>8
  <2> QED BY <2>1, <2>3, <2>4
<1> QED BY <1>10, <1>13, <1>17 DEF DeliveryInv

(* The worker that holds a message that lacks segments carries it over.    *)
LEMMA DeliveryRest ==
  ASSUME ReactorInv, KindInv, DescriptorInv, DescriptorInv', DeliveryInv, ResultKept,
         NEW w \in Rings, ReadRest(w)
  PROVE  DeliveryInv'
<1>1. RingInv /\ OutsideInv /\ PrevInv
  BY DEF ReactorInv, DeliveryInv
<1>2. /\ wpc[w] = "data" /\ wpc' = [wpc EXCEPT ![w] = "delete"]
      /\ ~Whole(cur[w]) \/ Torn(cur[w])
      /\ prevs' = prevs \cup {heap[cur[w]].conn}
  BY DEF ReadRest, Go, AddReadContinue
<1>3. Adds(w)
  BY DEF Adds
<1>4. PICK sel \in Rings, r \in Content, m \in Addresses :
           /\ m \notin DOMAIN heap /\ DOMAIN heap' = DOMAIN heap \cup {m}
           /\ m[1] = r.type /\ m[2] = r.fd /\ heap'[m] = r
           /\ inflight' = [inflight EXCEPT ![sel] = @ \cup {m}]
           /\ UNCHANGED <<cq, cur, cqres, outside, opc, got, torn, ended>>
           /\ \A q \in DOMAIN heap : (ReadRest(w) /\ q = cur[w]) \/ heap'[q] = heap[q]
           /\ r = [heap[cur[w]] EXCEPT !.conn = File(Fd(w)), !.prev = TRUE]
  <2>1. ~(StartEfd(w) \/ StartAccept(w) \/ AcceptAgain(w) \/ AcceptRead(w) \/ ReadAgain(w))
    BY DEF ReadRest, StartEfd, StartAccept, AcceptAgain, AcceptRead, ReadAgain, Go
  <2>2. \E sel \in Rings, r \in Content, m \in Addresses : Adding(w, sel, r, m)
    BY <1>3, AddsMore
  <2> QED BY <2>1, <2>2 DEF Adding
<1>5. cur[w] \in DOMAIN heap /\ heap[cur[w]] \in Content /\ Fd(w) = cur[w][2]
  BY <1>2, InHand DEF Handling
<1>6. PICK g \in Fds : g = Fd(w) /\ g = cur[w][2]
  BY <1>2, <1>5 DEF DescriptorInv, ResultInv, ResultOf, ReadPlaces
<1>7. Working(w) = g /\ wpc[w] \in Busy
  BY <1>2, <1>6 DEF Working, Busy, AcceptPlaces, ReadPlaces
<1>8. AnswerOf(cur[w], cqres[w], g) /\ file[g] \notin ended /\ file[g] # None
  <2>1. BatonOf(g) /\ TransferOf(g)
    BY DEF DescriptorInv, BatonInv, DeliveryInv, TransferInv
  <2> QED BY <1>2, <1>7, <2>1, ClosedInHand DEF Holding
<1>9. PICK c \in Conns : c = file[g]
  BY <1>1, <1>8 DEF OutsideInv
<1>10. heap[cur[w]].conn = c /\ (c \notin torn => Continues(cur[w], c))
  BY <1>8, <1>9 DEF AnswerOf, Follows
<1>11. ASSUME c \notin torn
       PROVE  Len(heap[cur[w]].data) = 1 /\ 1 < Parts
  <2>1. heap[cur[w]].data \in Seq(Conns \X Nat)
    BY <1>5 DEF Content
  <2>2. Len(heap[cur[w]].data) \in Nat
    BY <2>1, LenProperties
  <2>3. Parts # 1 /\ ~heap[cur[w]].prev /\ heap[cur[w]].data # <<>>
    BY <1>2, <1>10, <1>11 DEF Whole, Torn
  <2>4. Len(heap[cur[w]].data) # 0
    BY <2>1, <2>3, EmptySeq
  <2>5. Len(heap[cur[w]].data) <= 1
    BY <1>8, <1>9, <1>11, <2>3 DEF AnswerOf, Fits
  <2>6. Parts # 1
    BY <2>3
  <2>7. 1 < Parts
    BY <2>6, ReactorAssumption
  <2>8. Len(heap[cur[w]].data) = 1
    <3>1. \A l \in Nat : l # 0 /\ l <= 1 => l = 1
      OBVIOUS
    <3> QED BY <2>2, <2>4, <2>5, <3>1, Zenon
  <2> QED BY <2>7, <2>8
<1>12. /\ r.conn = c /\ r.data = heap[cur[w]].data /\ r.prev = TRUE
       /\ r.type = heap[cur[w]].type /\ r.fd = g
  BY <1>4, <1>5, <1>6, <1>9 DEF Content, File, Fd
<1>13. UNCHANGED <<peer, sent, taken, backlog, file>>
  BY <1>4 DEF outside
<1>14. \A q \in DOMAIN heap : q # cur[w] => heap'[q] = heap[q] /\ ReqKeeps(q)
  BY <1>4 DEF ReqKeeps
<1>15. \A b \in Conns : b # c => ConnKeeps(b)
  BY <1>2, <1>4, <1>10, <1>13 DEF ConnKeeps
<1>16. ConnInv' /\ GotInv'
  <2>1. c \in Opened
    BY <1>8, <1>9 DEF Opened
  <2>2. ConnInv'
    BY <1>1, <1>13, <1>15, <2>1, ConnKeep DEF DeliveryInv
  <2> QED BY <1>4, <2>2, GotKeep DEF DeliveryInv
<1>17. \A v \in Rings : wpc'[v] = IF v = w THEN "delete" ELSE wpc[v]
  BY <1>1, <1>2 DEF RingInv
<1>18. m \in Waits(g)'
  <2>1. m \in inflight'[sel]
    BY <1>1, <1>4 DEF RingInv
  <2>2. m[1] = "read"
    <3>1. heap[cur[w]].type = "read"
      BY <1>2, InHand DEF Handling, KindInv, ReadPlaces
    <3> QED BY <1>4, <1>12, <3>1
  <2> QED BY <1>4, <1>12, <2>1, <2>2 DEF Waits
<1>19. TransferOf(g)'
  <2>1. heap'[m] = r
    BY <1>4
  <2>2. Follows(m, c)'
    <3>1. PICK d : d = heap[cur[w]].data
      OBVIOUS
    <3>2. /\ heap'[m].conn = c /\ heap'[m].data = d /\ heap'[m].prev = TRUE
          /\ got'[c] = got[c] /\ taken'[c] = taken[c] /\ c \in prevs' /\ torn' = torn
      BY <1>2, <1>4, <1>10, <1>12, <1>13, <2>1, <3>1
    <3>3. c \notin torn => /\ Len(got[c]) + Len(d) = taken[c]
                          /\ \A i \in DOMAIN d : d[i] = <<c, Len(got[c]) + i>>
      BY <1>10, <3>1 DEF Continues
    <3> QED BY <3>2, <3>3 DEF Follows, Continues
  <2>3. c \notin torn => Begun(m)'
    BY <1>11, <1>12, <2>1 DEF Begun, Before, Short
  <2>4. ReadOf(m, g)'
    BY <1>4, <1>9, <1>13, <2>2, <2>3 DEF ReadOf, Follows, Continues
  <2>5. BatonOf(g)' /\ file'[g] \notin ended'
    BY <1>4, <1>8, <1>13 DEF DescriptorInv, BatonInv
  <2> QED BY <1>18, <2>4, <2>5, AtAsked
<1>20. TransferInv'
  <2>1. \A f \in Fds \ {g} : file[f] \in Conns => ConnKeeps(file[f])
    <3>1. \A f \in Fds \ {g} : file[f] # c
      BY <1>8, <1>9 DEF DeliveryInv, ConnInv
    <3> QED BY <1>15, <3>1
  <2>2. TransferInv /\ UNCHANGED <<cq, cur, cqres, file>>
    BY <1>4, <1>13 DEF DeliveryInv
  <2>3. inflight' = [inflight EXCEPT ![sel] = @ \cup {m}]
    BY <1>4
  <2>4. wpc'[w] \notin Busy /\ wpc[w] \in Handling
    BY <1>2, <1>17 DEF Busy, AcceptPlaces, ReadPlaces, Handling
  <2>5. (Alive(w)' => Alive(w)) /\ \A v \in Rings \ {w} : wpc'[v] = wpc[v]
    BY <1>2, <1>17 DEF Alive
  <2>6. m[2] = g /\ \A q \in DOMAIN heap : q # cur[w] => ReqKeeps(q)
    BY <1>4, <1>12, <1>14
  <2> QED BY <1>7, <1>19, <2>1, <2>2, <2>3, <2>4, <2>5, <2>6, AddTransfer
<1>21. PrevInv'
  <2>1. Deleting' \subseteq Deleting \cup {cur[w]}
    BY <1>4, <1>17 DEF Deleting
  <2>2. prevs' = prevs \cup {c}
    BY <1>2, <1>10
  <2>3. AllAlive' => AllAlive
    BY <1>2, <1>17 DEF AllAlive, Alive
  <2>4. cur[w][1] = "read" /\ m[1] = "read" /\ m[2] \in Fds
    BY <1>2, <1>4, <1>12, <1>18 DEF Waits, KindInv, ReadPlaces
  <2>5. \A q \in DOMAIN heap' : heap'[q].prev => q[1] = "read" /\ q[2] \in Fds
    BY <1>1, <1>4, <1>6, <1>14, <2>4 DEF PrevInv
  <2>6. m \in DOMAIN heap' \ Deleting' /\ heap'[m].prev /\ heap'[m].conn = c
    <3>1. m \notin Deleting'
      <4>1. \A v \in Rings : wpc[v] = "delete" => cur[v] # m
        BY <1>4, HandOwned DEF Handling
      <4>2. m \notin Deleting /\ m # cur[w]
        BY <1>4, <1>5, <4>1 DEF Deleting
      <4> QED BY <2>1, <4>2
    <3> QED BY <1>4, <1>12, <3>1
  <2>7. ASSUME AllAlive', opc' # "freed", NEW b \in prevs' \ ended'
        PROVE  b \in Carrying'
    <3>1. CASE b = c
      BY <2>6, <3>1 DEF Carrying
    <3>2. CASE b # c
      <4>1. b \in Carrying
        BY <1>1, <1>4, <2>2, <2>3, <2>7, <3>2 DEF PrevInv
      <4>2. PICK q \in DOMAIN heap \ Deleting : heap[q].prev /\ heap[q].conn = b
        BY <4>1 DEF Carrying
      <4>3. q # cur[w]
        BY <1>10, <3>2, <4>2
      <4>4. q \in DOMAIN heap' \ Deleting' /\ heap'[q] = heap[q]
        BY <1>4, <1>14, <2>1, <4>2, <4>3
      <4> QED BY <4>2, <4>4 DEF Carrying
    <3> QED BY <3>1, <3>2
  <2>8. prevs' \subseteq Conns
    BY <1>1, <2>2 DEF PrevInv
  <2> QED BY <2>5, <2>7, <2>8 DEF PrevInv
<1> QED BY <1>16, <1>20, <1>21 DEF DeliveryInv

(* The entry posted is the last one of its queue.                          *)
LEMMA PostEntry ==
  ASSUME RingInv, NEW r \in Rings, NEW q, NEW x \in Int, Post(r, q, x)
  PROVE  /\ \A s \in Rings : \A i \in DOMAIN cq[s] : cq'[s][i] = cq[s][i]
         /\ cq'[r][Len(cq[r]) + 1].req = q /\ cq'[r][Len(cq[r]) + 1].res = x
<1> DEFINE E == [req : Addresses, res : Int]
           e == [req |-> q, res |-> x]
<1>1. cq[r] \in Seq(E) /\ e \in E /\ cq' = [cq EXCEPT ![r] = Append(@, e)]
  BY DEF Post, RingInv
<1>2. cq'[r] = Append(cq[r], e) /\ \A s \in Rings \ {r} : cq'[s] = cq[s]
  BY <1>1 DEF RingInv
<1>3. e.req = q /\ e.res = x
  OBVIOUS
<1> HIDE DEF e, E
<1>4. /\ \A i \in 1 .. Len(cq[r]) : Append(cq[r], e)[i] = cq[r][i]
      /\ Append(cq[r], e)[Len(cq[r]) + 1] = e
  BY <1>1, AppendProperties
<1>5. DOMAIN cq[r] = 1 .. Len(cq[r])
  BY <1>1, LenProperties
<1> QED BY <1>2, <1>3, <1>4, <1>5

(* The kernel completes a request, and nothing happens to the descriptors  *)
(* it is not about.                                                        *)
LEMMA PostTransfer ==
  ASSUME ReactorInv, DescriptorInv', TransferInv, NEW r \in Rings, NEW q, NEW x \in Int,
         Post(r, q, x), NEW g,
         \A f \in Fds \ {g} : /\ file'[f] = file[f]
                              /\ file[f] \in Conns => ConnKeeps(file[f]),
         \A p \in DOMAIN heap : p # q => ReqKeeps(p),
         q[1] = "accept" /\ x \in Fds => x = g,
         q[1] = "read" /\ q[2] \in Fds => q[2] = g,
         g \in Fds => TransferOf(g)'
  PROVE  TransferInv'
<1> SUFFICES ASSUME NEW f \in Fds, f # g
             PROVE  TransferOf(f)'
  BY DEF TransferInv
<1>1. HoldInv /\ OutsideInv /\ RingInv
  BY DEF ReactorInv
<1>2. q \in inflight[r] /\ UNCHANGED <<wpc, cur, cqres>>
  BY DEF Post, workers
<1>3. \A s \in Rings : Alive(s) => Queue(s) \subseteq DOMAIN heap /\ q \notin Queue(s)
  <2>1. \A s \in Rings : Alive(s) => Queue(s) \subseteq Owned(s)
    BY DEF Owned
  <2>2. q \in Owned(r) /\ \A s \in Rings \ {r} : q \notin Owned(s)
    BY <1>1, <1>2 DEF HoldInv, Owned
  <2> QED BY <1>1, <1>2, <2>1, <2>2 DEF HoldInv
<1>4. \A p \in Waits(f)' : p \in Waits(f) /\ ReqKeeps(p)
  <2>1. Waits(f)' = Waits(f) \ {q}
    BY <1>1, WaitsPost
  <2>2. \A p \in Waits(f) : p \in DOMAIN heap
    BY <1>1 DEF Waits, HoldInv, Owned
  <2> QED BY <2>1, <2>2
<1>5. Said(f)
  <2> SUFFICES ASSUME NEW k \in {"accept", "read"}, NEW u \in Entries(f, k)'
               PROVE  /\ u \in Entries(f, k)
                      /\ cq'[u[1]][u[2]] = cq[u[1]][u[2]]
                      /\ Alive(u[1])' => Alive(u[1]) /\ ReqKeeps(cq[u[1]][u[2]].req)
    BY DEF Said
  <2>1. Entries(f, k)' = Entries(f, k)
    <3>1. ~(q[1] = k /\ f = IF k = "accept" THEN x ELSE q[2])
      OBVIOUS
    <3> QED BY <1>1, <3>1, WaitsPost
  <2>2. u[1] \in Rings /\ u[2] \in DOMAIN cq[u[1]]
    BY <2>1 DEF Entries
  <2>3. cq'[u[1]][u[2]] = cq[u[1]][u[2]]
    BY <1>1, <2>2, PostEntry
  <2>4. Alive(u[1])' => Alive(u[1])
    BY <1>2 DEF Alive
  <2>5. Alive(u[1]) => ReqKeeps(cq[u[1]][u[2]].req)
    BY <1>3, <2>2 DEF Queue
  <2> QED BY <2>1, <2>3, <2>4, <2>5
<1>6. ASSUME NEW v \in Rings
      PROVE  Stays(v, f)
  <2>1. ASSUME wpc[v] \in ReadPlaces
        PROVE  ReqKeeps(cur[v])
    <3>1. wpc[v] \in Handling
      BY <2>1 DEF ReadPlaces, Handling
    <3>2. cur[v] \in DOMAIN heap
      BY <3>1, HandOwned
    <3>3. cur[v] # q
      BY <1>2, <3>1, HandNotInRing DEF InRing
    <3> QED BY <3>2, <3>3
  <2> QED BY <1>2, <2>1, StaysPut
<1>7. TransferOf(f) /\ BatonOf(f)' /\ RestInv'
  BY DEF TransferInv, DescriptorInv, BatonInv
<1> QED BY <1>1, <1>4, <1>5, <1>6, <1>7, TransferKeep

(* A request completed, about no connection or not successfully.           *)
LEMMA DeliveryPosted ==
  ASSUME ReactorInv, DescriptorInv', DeliveryInv, NEW r \in Rings, NEW q, NEW x \in Int,
         Post(r, q, x), UNCHANGED <<taken, backlog, file, heap>>, NEW g,
         q[1] = "accept" /\ x \in Fds => x = g,
         q[1] = "read" /\ q[2] \in Fds => q[2] = g,
         g \in Fds => TransferOf(g)'
  PROVE  DeliveryInv'
<1>1. UNCHANGED <<prevs, peer, sent, wpc, cur, cqres, opc, got, torn, ended>>
  BY DEF Post, workers, app
<1>2. \A q1 : ReqKeeps(q1)
  BY DEF ReqKeeps
<1>3. \A c \in Conns : ConnKeeps(c)
  BY <1>1 DEF ConnKeeps
<1>4. ConnInv' /\ GotInv'
  <2>1. ConnInv'
    BY <1>1, <1>3, ConnKeep DEF DeliveryInv, ReactorInv
  <2> QED BY <1>1, <2>1, GotKeep DEF DeliveryInv
<1>5. TransferInv'
  BY <1>2, <1>3, PostTransfer DEF DeliveryInv
<1>6. PrevInv'
  <2>1. Deleting' = Deleting /\ (AllAlive' => AllAlive)
    BY <1>1 DEF Deleting, AllAlive, Alive
  <2> QED BY <1>1, <1>2, <2>1, PrevKeep DEF DeliveryInv
<1> QED BY <1>4, <1>5, <1>6 DEF DeliveryInv

(* A descriptor that is waited for is read, and was not closed.            *)
LEMMA WaitedFor ==
  ASSUME DescriptorInv, TransferInv, NEW f \in Fds, NEW q \in Waits(f)
  PROVE  /\ ReadOf(q, f) /\ file[f] \notin ended /\ file[f] # None
         /\ Entries(f, "accept") = {}
<1>1. BatonOf(f) /\ TransferOf(f)
  BY DEF DescriptorInv, BatonInv, TransferInv
<1>2. Handled(f) = {} /\ Posted(f) = {} /\ file[f] # None
  BY <1>1 DEF BatonOf
<1>3. Hands(f, {"closed"}) = {}
  BY <1>2 DEF Handled, Hands, Fresh
<1> QED BY <1>1, <1>2, <1>3 DEF TransferOf, Asking, Posted

(* The answer to a read comes last in a queue.                             *)
LEMMA ReadPosted ==
  ASSUME ReactorInv, DescriptorInv, DescriptorInv', TransferInv, NEW r \in Rings,
         NEW q, NEW x \in Int, Post(r, q, x), NEW g \in Fds, q[1] = "read", q[2] = g,
         UNCHANGED <<file>>, AnswerOf(q, x, g)'
  PROVE  TransferOf(g)'
<1>1. RingInv /\ HoldInv /\ q \in inflight[r] /\ ended' = ended
  BY DEF ReactorInv, Post, app
<1>2. q \in Waits(g)
  BY <1>1 DEF Waits
<1>3. file[g] \notin ended /\ Entries(g, "accept") = {}
  BY <1>2, WaitedFor
<1>4. PICK n : n = Len(cq[r]) + 1
  OBVIOUS
<1>5. <<r, n>> \in Entries(g, "read")'
  BY <1>1, <1>4, WaitsPost
<1>6. Entries(g, "accept")' = {}
  BY <1>1, <1>3, WaitsPost
<1>7. cq'[r][n].req = q /\ cq'[r][n].res = x
  BY <1>1, <1>4, PostEntry
<1>8. PICK u : u = <<r, n>>
  OBVIOUS
<1>9. AnswerOf(cq[u[1]][u[2]].req, cq[u[1]][u[2]].res, g)'
  <2>1. cq'[u[1]][u[2]].req = q /\ cq'[u[1]][u[2]].res = x
    BY <1>7, <1>8
  <2> QED BY <2>1 DEF AnswerOf, Follows, Continues, Fits, Before, Over, Short
<1>10. BatonOf(g)'
  BY DEF DescriptorInv, BatonInv
<1>11. file'[g] \notin ended' /\ u \in Entries(g, "read")'
  BY <1>1, <1>3, <1>5, <1>8
<1> QED BY <1>6, <1>9, <1>10, <1>11, AtAnswered

(* What the kernel gives to a read is what comes next.                     *)
LEMMA DataFollows ==
  ASSUME ReactorInv, DescriptorInv, DeliveryInv, NEW r \in Rings, NEW q \in inflight[r],
         CompleteData(r, q)
  PROVE  \E g \in Fds, c \in Conns, n \in Nat \ {0} :
           /\ q[1] = "read" /\ q[2] = g /\ q \in DOMAIN heap /\ file[g] = c
           /\ Post(r, q, n) /\ c \notin ended
           /\ DOMAIN heap' = DOMAIN heap
           /\ \A p \in DOMAIN heap : p # q => heap'[p] = heap[p]
           /\ heap'[q].conn = heap[q].conn /\ heap'[q].prev = heap[q].prev
           /\ \A b \in Conns : b # c => taken'[b] = taken[b]
           /\ AnswerOf(q, n, g)'
<1>1. OutsideInv /\ HeapInv /\ RingInv
  BY DEF ReactorInv
<1>2. q \in DOMAIN heap /\ heap[q].type = q[1] /\ heap[q].fd = q[2] /\ heap[q] \in Content
  BY DEF ReactorInv, HoldInv, Owned, HeapInv
<1>3. PICK c : c = heap[q].conn
  OBVIOUS
<1>4. PICK room \in Rooms(q) : \E n \in 1 .. room :
        /\ heap' = [heap EXCEPT ![q].data = @ \o Segments(c, n)]
        /\ taken' = [taken EXCEPT ![c] = @ + n]
        /\ Post(r, q, n)
  BY <1>3 DEF CompleteData
<1>5. PICK n \in 1 .. room :
        /\ heap' = [heap EXCEPT ![q].data = @ \o Segments(c, n)]
        /\ taken' = [taken EXCEPT ![c] = @ + n]
        /\ Post(r, q, n)
  BY <1>4
<1>6. q[1] = "read" /\ c # None /\ c \in Conns /\ UNCHANGED <<file, got, torn, prevs, ended>>
  BY <1>2, <1>3, <1>5 DEF CompleteData, Content, Post, app
<1>7. PICK g \in Fds : g = q[2]
  BY <1>2, <1>3, <1>6 DEF DescriptorInv, SentInv
<1>8. q \in Waits(g)
  BY <1>6, <1>7 DEF Waits
<1>9. ReadOf(q, g) /\ file[g] \notin ended
  BY <1>8, WaitedFor DEF DeliveryInv
<1>10. /\ file[g] = c /\ (heap[q].prev <=> c \in prevs)
       /\ c \notin torn => Continues(q, c) /\ Begun(q)
  BY <1>3, <1>9 DEF ReadOf, Follows
<1> DEFINE d == heap[q].data
           s == Segments(c, n)
           S == Conns \X Nat
<1>11. d \in Seq(S) /\ got[c] \in Seq(S) /\ taken[c] \in Nat
  BY <1>1, <1>2, <1>6 DEF Content, OutsideInv, DeliveryInv, GotInv
<1>12. Len(d) \in Nat /\ DOMAIN d = 1 .. Len(d) /\ Len(got[c]) \in Nat
  BY <1>11, LenProperties
<1>13. /\ n \in Nat \ {0}
       /\ c \notin torn =>
            /\ Len(d) + n <= Parts /\ Len(d) + n > Before(q)
            /\ ~heap[q].prev => Len(d) + n <= 1
  <2>1. CASE ~heap[q].prev
    <3>1. room = 1
      BY <2>1 DEF Rooms
    <3>2. c \notin torn => Len(d) = 0
      BY <1>10, <2>1 DEF Begun, Before
    <3> QED BY <2>1, <3>1, <3>2, ReactorAssumption DEF Before
  <2>2. CASE heap[q].prev /\ c \in torn
    <3>1. room \in 1 .. MaxSent
      BY <1>3, <2>2 DEF Rooms
    <3> QED BY <2>2, <3>1, ReactorAssumption
  <2>3. CASE heap[q].prev /\ c \notin torn
    <3>1. Len(d) = 1 /\ Len(d) < Parts
      BY <1>10, <2>3 DEF Begun, Before, Short
    <3>2. room = Parts - 1
      BY <1>3, <2>3, <3>1 DEF Rooms
    <3> QED BY <2>3, <3>1, <3>2, ReactorAssumption DEF Before
  <2> QED BY <2>1, <2>2, <2>3
<1>14. s = [i \in 1 .. n |-> <<c, taken[c] + i>>]
  BY DEF Segments
<1> HIDE DEF s
<1>15. s \in Seq(S) /\ Len(s) = n /\ \A i \in 1 .. n : s[i] = <<c, taken[c] + i>>
  <2>1. \A i \in 1 .. n : taken[c] + i \in Nat
    BY <1>11, <1>13
  <2>2. s \in [1 .. n -> S]
    BY <1>6, <1>14, <2>1
  <2>3. Len(s) = n
    BY <1>13, <1>14
  <2>4. s \in Seq(S)
    <3>1. n \in Nat
      BY <1>13
    <3> QED BY <2>2, <3>1
  <2>5. \A i \in 1 .. n : s[i] = <<c, taken[c] + i>>
    BY <1>14
  <2> QED BY <2>3, <2>4, <2>5
<1>16. heap' = [heap EXCEPT ![q].data = d \o s]
  BY <1>5 DEF s
<1>17. /\ DOMAIN heap' = DOMAIN heap /\ heap'[q].data = d \o s
       /\ \A p \in DOMAIN heap : p # q => heap'[p] = heap[p]
       /\ heap'[q].conn = heap[q].conn /\ heap'[q].prev = heap[q].prev
  BY <1>2, <1>16 DEF Content
<1> HIDE DEF d, S
<1>18. /\ Len(d \o s) = Len(d) + n
       /\ \A i \in 1 .. Len(d) + n :
            (d \o s)[i] = IF i <= Len(d) THEN d[i] ELSE s[i - Len(d)]
       /\ d \o s \in Seq(S)
  BY <1>11, <1>15, ConcatProperties
<1>19. DOMAIN (d \o s) = 1 .. Len(d) + n
  BY <1>18, LenProperties
<1>20. ASSUME c \notin torn, NEW i \in 1 .. Len(d) + n
       PROVE  (d \o s)[i] = <<c, Len(got[c]) + i>>
  <2>1. CASE i <= Len(d)
    <3>1. i \in DOMAIN d
      BY <1>12, <2>1
    <3>2. d[i] = <<c, Len(got[c]) + i>>
      BY <1>10, <1>20, <3>1 DEF d, Continues
    <3> QED BY <1>18, <2>1, <3>2
  <2>2. CASE ~(i <= Len(d))
    <3>1. PICK k \in Int : k = i - Len(d)
      BY <1>12
    <3>2. k \in 1 .. n /\ taken[c] + k = Len(got[c]) + i
      <4>1. Len(got[c]) + Len(d) = taken[c]
        BY <1>10, <1>20 DEF d, Continues
      <4> QED BY <1>11, <1>12, <1>13, <2>2, <3>1, <4>1
    <3>3. (d \o s)[i] = s[k]
      BY <1>18, <2>2, <3>1
    <3> QED BY <1>15, <3>2, <3>3
  <2> QED BY <2>1, <2>2
<1>21. taken'[c] = taken[c] + n /\ \A b \in Conns : b # c => taken'[b] = taken[b]
  BY <1>1, <1>5, <1>6 DEF OutsideInv
<1>22. PICK e : e = d \o s
  OBVIOUS
<1>23. Follows(q, c)'
  <2>1. heap'[q].data = e /\ heap'[q].conn = c /\ (heap'[q].prev <=> c \in prevs')
    BY <1>3, <1>6, <1>10, <1>17, <1>22
  <2>2. ASSUME c \notin torn
        PROVE  Len(got'[c]) + Len(e) = taken'[c]
    <3>1. Len(got[c]) + Len(d) = taken[c]
      BY <1>10, <2>2 DEF d, Continues
    <3>2. Len(e) = Len(d) + n /\ got'[c] = got[c]
      BY <1>6, <1>18, <1>22
    <3>3. Len(got'[c]) + Len(e) = Len(got[c]) + (Len(d) + n)
      BY <3>2
    <3>4. \A a, b, t, k \in Nat : a + b = t => a + (b + k) = t + k
      OBVIOUS
    <3>5. Len(got[c]) + (Len(d) + n) = taken[c] + n
      <4>1. n \in Nat /\ Len(d) \in Nat /\ Len(got[c]) \in Nat /\ taken[c] \in Nat
        BY <1>11, <1>12, <1>13
      <4> QED BY ZenonT(30), <3>1, <3>4, <4>1
    <3> QED BY <1>21, <3>3, <3>5
  <2>3. c \notin torn => \A i \in DOMAIN e : e[i] = <<c, Len(got'[c]) + i>>
    BY <1>6, <1>19, <1>20, <1>22
  <2> QED BY <1>6, <2>1, <2>2, <2>3 DEF Follows, Continues
<1>24. AnswerOf(q, n, g)'
  <2>1. c \notin torn => Fits(q, n)'
    BY <1>13, <1>17, <1>18 DEF Fits, Before, d
  <2>2. file'[g] = c /\ n # 0 /\ torn' = torn
    BY <1>6, <1>10, <1>13
  <2> QED BY <1>23, <2>1, <2>2 DEF AnswerOf, Follows, Continues
<1>25. Post(r, q, n) /\ n \in Nat \ {0}
  BY <1>5, <1>13
<1> QED BY <1>2, <1>6, <1>7, <1>9, <1>10, <1>17, <1>21, <1>24, <1>25

(* Segments arrive.                                                        *)
LEMMA DeliveryData ==
  ASSUME ReactorInv, DescriptorInv, DescriptorInv', DeliveryInv, NEW r \in Rings,
         NEW q \in inflight[r], CompleteData(r, q)
  PROVE  DeliveryInv'
<1>1. PICK g \in Fds, c \in Conns, n \in Nat \ {0} :
           /\ q[1] = "read" /\ q[2] = g /\ q \in DOMAIN heap /\ file[g] = c
           /\ Post(r, q, n) /\ c \notin ended
           /\ DOMAIN heap' = DOMAIN heap
           /\ \A p \in DOMAIN heap : p # q => heap'[p] = heap[p]
           /\ heap'[q].conn = heap[q].conn /\ heap'[q].prev = heap[q].prev
           /\ \A b \in Conns : b # c => taken'[b] = taken[b]
           /\ AnswerOf(q, n, g)'
  BY DataFollows
<1>2. UNCHANGED <<prevs, peer, sent, backlog, file, wpc, cur, cqres, opc, got, torn, ended>>
  BY <1>1 DEF CompleteData, Post, workers, app
<1>3. \A p \in DOMAIN heap : p # q => ReqKeeps(p)
  BY <1>1 DEF ReqKeeps
<1>4. \A b \in Conns : b # c => ConnKeeps(b)
  BY <1>1, <1>2 DEF ConnKeeps
<1>5. ConnInv' /\ GotInv'
  <2>1. c \in Opened
    BY <1>1, ReactorAssumption DEF Opened
  <2>2. ConnInv'
    BY <1>2, <1>4, <2>1, ConnKeep DEF DeliveryInv, ReactorInv
  <2> QED BY <1>2, <2>2, GotKeep DEF DeliveryInv
<1>6. TransferInv'
  <2>1. TransferOf(g)'
    BY <1>1, <1>2, ReadPosted DEF DeliveryInv
  <2>2. \A f \in Fds \ {g} : /\ file'[f] = file[f]
                             /\ file[f] \in Conns => ConnKeeps(file[f])
    <3>1. \A f \in Fds \ {g} : file[f] # c
      BY <1>1, ReactorAssumption DEF DeliveryInv, ConnInv
    <3> QED BY <1>2, <1>4, <3>1
  <2> QED BY <1>1, <1>3, <2>1, <2>2, PostTransfer DEF DeliveryInv
<1>7. PrevInv'
  <2>1. Deleting' = Deleting /\ (AllAlive' => AllAlive)
    BY <1>2 DEF Deleting, AllAlive, Alive
  <2>2. \A p \in DOMAIN heap : heap'[p].prev = heap[p].prev /\ heap'[p].conn = heap[p].conn
    BY <1>1
  <2>3. Carrying' = Carrying
    BY <1>1, <2>1, <2>2 DEF Carrying
  <2> QED BY <1>1, <1>2, <2>1, <2>2, <2>3 DEF DeliveryInv, PrevInv
<1> QED BY <1>5, <1>6, <1>7 DEF DeliveryInv

(* A connection of the backlog becomes the file of a free descriptor.      *)
LEMMA DeliveryAccepted ==
  ASSUME ReactorInv, DescriptorInv, DescriptorInv', DeliveryInv, NEW r \in Rings,
         NEW q, q[1] = "accept", NEW g \in Fds, file[g] = None, Post(r, q, g), g \in Int,
         NEW c \in backlog, file' = [file EXCEPT ![g] = c], backlog' = backlog \ {c},
         UNCHANGED <<taken, heap>>
  PROVE  DeliveryInv'
<1>1. RingInv /\ HoldInv /\ OutsideInv /\ c \in Conns /\ c # None
  BY ReactorAssumption DEF ReactorInv, OutsideInv
<1>2. UNCHANGED <<prevs, peer, sent, wpc, cur, cqres, opc, got, torn, ended>>
  BY DEF Post, workers, app
<1>3. \A f \in Fds : file'[f] = IF f = g THEN c ELSE file[f]
  BY <1>1 DEF OutsideInv
<1>4. /\ taken[c] = 0 /\ got[c] = <<>> /\ c \notin ended /\ c \notin prevs
      /\ peer[c] # "away" /\ c \notin Opened /\ c \notin torn
  BY <1>1 DEF DeliveryInv, ConnInv
<1>5. \A q1 : ReqKeeps(q1)
  BY DEF ReqKeeps
<1>6. \A b \in Conns : ConnKeeps(b)
  BY <1>2 DEF ConnKeeps
<1>7. ConnInv'
  <2>1. \A f \in Fds : file[f] # c
    BY <1>1, <1>4 DEF Opened
  <2>2. \A f, h \in Fds : file'[f] = file'[h] => f = h \/ file'[f] = None
    BY <1>3, <2>1 DEF DeliveryInv, ConnInv
  <2>3. Opened' \subseteq Opened \cup {c}
    BY <1>3 DEF Opened
  <2>4. \A b \in Opened' : peer'[b] # "away" /\ b \notin backlog'
    BY <1>2, <1>4, <2>3 DEF DeliveryInv, ConnInv
  <2>5. /\ \A b \in backlog' : peer'[b] # "away"
        /\ \A b \in Conns : b \in backlog' \/ peer'[b] = "away" =>
             /\ taken'[b] = 0 /\ got'[b] = <<>>
             /\ b \notin ended' /\ b \notin prevs' /\ b \notin torn'
    BY <1>2 DEF DeliveryInv, ConnInv
  <2> QED BY <2>2, <2>4, <2>5 DEF ConnInv
<1>8. GotInv'
  BY <1>2, GotKeep DEF DeliveryInv
<1>9. TransferOf(g)'
  <2>1. <<r, Len(cq[r]) + 1>> \in Entries(g, "accept")'
    BY <1>1, WaitsPost
  <2>2. Entries(g, "read")' = {}
    <3>1. Entries(g, "read") = {}
      BY DEF DescriptorInv, BatonInv, BatonOf, Posted
    <3> QED BY <1>1, <3>1, WaitsPost
  <2>3. Untouched(file[g])' /\ file'[g] \notin ended'
    <3>1. /\ Len(got'[c]) = 0 /\ taken'[c] = 0
          /\ c \notin prevs' /\ c \notin ended' /\ c \notin torn'
      BY <1>2, <1>4
    <3> QED BY <1>3, <3>1 DEF Untouched, UpToDate
  <2>4. BatonOf(g)'
    BY DEF DescriptorInv, BatonInv
  <2> QED BY <2>1, <2>2, <2>3, <2>4, AtAccepted
<1>10. TransferInv'
  BY <1>3, <1>5, <1>6, <1>9, PostTransfer DEF DeliveryInv
<1>11. PrevInv'
  <2>1. Deleting' = Deleting /\ (AllAlive' => AllAlive)
    BY <1>2 DEF Deleting, AllAlive, Alive
  <2> QED BY <1>2, <1>5, <2>1, PrevKeep DEF DeliveryInv
<1> QED BY <1>7, <1>8, <1>10, <1>11 DEF DeliveryInv

(* The kernel completes a request.                                         *)
LEMMA DeliveryComplete ==
  ASSUME ReactorInv, DescriptorInv, DescriptorInv', DeliveryInv, NEW r \in Rings,
         Complete(r)
  PROVE  DeliveryInv'
<1>1. RingInv /\ OutsideInv /\ HeapInv /\ HoldInv
  BY DEF ReactorInv
<1>2. PICK q \in inflight[r] :
        \/ CompleteAccept(r, q) \/ CompleteData(r, q) \/ CompleteEnd(r, q)
        \/ CompleteEfd(r, q)    \/ CompleteWrite(r, q)
  BY DEF Complete
<1>3. /\ q \in DOMAIN heap /\ heap[q].type = q[1] /\ heap[q].fd = q[2]
      /\ heap[q].conn \in Conns \cup {None} /\ q \in Held(r)
  BY <1>1 DEF HoldInv, Owned, HeapInv, Content, Held
<1>4. 0 \notin Fds /\ -1 \notin Fds /\ EFD(r) \notin Fds
  BY ReactorAssumption DEF Rings, EFD
<1>5. ASSUME NEW x \in Int, Post(r, q, x), UNCHANGED <<taken, backlog, file, heap>>,
             ~(q[1] = "accept" /\ x \in Fds), ~(q[1] = "read" /\ q[2] \in Fds)
      PROVE  DeliveryInv'
  BY <1>4, <1>5, DeliveryPosted
<1>6. CASE CompleteAccept(r, q)
  <2>1. q[1] = "accept" /\ UNCHANGED <<taken, heap>>
    BY <1>3, <1>6 DEF CompleteAccept
  <2>2. CASE FreeFds = {} /\ Post(r, q, -1) /\ UNCHANGED <<backlog, file>>
    <3>1. -1 \in Int
      OBVIOUS
    <3> QED BY <1>4, <1>5, <2>1, <2>2, <3>1
  <2>3. ASSUME NEW c \in backlog, FreeFds # {},
               file' = [file EXCEPT ![Least(FreeFds)] = c],
               Post(r, q, Least(FreeFds)), backlog' = backlog \ {c}
        PROVE  DeliveryInv'
    <3>1. FreeFds \in SUBSET Nat
      BY ReactorAssumption DEF FreeFds
    <3>2. Least(FreeFds) \in FreeFds
      BY <2>3, <3>1, LeastIs
    <3>3. PICK g : g = Least(FreeFds)
      OBVIOUS
    <3>4. g \in Fds /\ file[g] = None /\ g \in Int
      BY <3>1, <3>2, <3>3 DEF FreeFds
    <3> QED BY <2>1, <2>3, <3>3, <3>4, DeliveryAccepted
  <2> QED BY <1>6, <2>2, <2>3 DEF CompleteAccept
<1>7. CASE CompleteData(r, q)
  BY <1>7, DeliveryData
<1>8. CASE CompleteEnd(r, q)
  <2>1. /\ q[1] = "read" /\ q[2] # EFD(r) /\ UNCHANGED <<taken, backlog, file, heap>>
        /\ \/ /\ heap[q].conn # None /\ peer[heap[q].conn] = "gone"
              /\ sent[heap[q].conn] = taken[heap[q].conn] /\ Post(r, q, 0)
           \/ Post(r, q, -1)
    BY <1>3, <1>8 DEF CompleteEnd
  <2>2. PICK g \in Fds : g = q[2]
    BY <1>3, <2>1 DEF DescriptorInv, FdInv
  <2>3. ReadOf(q, g)
    BY <2>1, <2>2, WaitedFor DEF Waits, DeliveryInv
  <2>4. ASSUME file[g] \notin torn
        PROVE  /\ Len(heap[q].data) <= Parts /\ Short(q)
               /\ ~heap[q].prev => Len(heap[q].data) <= 1
    <3>1. Len(heap[q].data) \in Nat
      BY <1>1, <1>3, LenProperties DEF HeapInv, Content
    <3> QED BY <2>3, <2>4, <3>1, ReactorAssumption DEF ReadOf, Begun, Before, Short
  <2>5. PICK x \in {0, -1} :
          Post(r, q, x) /\ (x = 0 => peer[heap[q].conn] = "gone"
                                     /\ sent[heap[q].conn] = taken[heap[q].conn])
    BY <2>1
  <2>6. UNCHANGED <<peer, sent, got, torn, prevs>> /\ x \in Int
    BY <2>5 DEF Post, app
  <2>7. AnswerOf(q, x, g)
    BY <2>3, <2>4, <2>5 DEF AnswerOf, ReadOf, Fits, Over, Follows
  <2>8. AnswerOf(q, x, g)'
    BY <2>1, <2>6, <2>7 DEF AnswerOf, Follows, Continues, Fits, Before, Over, Short
  <2>9. TransferOf(g)'
    BY <2>1, <2>2, <2>5, <2>6, <2>8, ReadPosted DEF DeliveryInv
  <2> QED BY <2>1, <2>2, <2>5, <2>6, <2>9, DeliveryPosted
<1>9. CASE CompleteEfd(r, q)
  <2>1. UNCHANGED <<taken, backlog, file, heap>> /\ q[2] = EFD(r) /\ Post(r, q, 1)
    BY <1>3, <1>9 DEF CompleteEfd
  <2>2. q[1] # "accept"
    BY <1>3, <2>1 DEF DescriptorInv, FdInv, EFD, ACCEPT_FD, Rings
  <2> QED BY <1>4, <1>5, <2>1, <2>2
<1>10. CASE CompleteWrite(r, q)
  <2>1. PICK x \in WriteResults(heap[q].conn) : Post(r, q, x)
    BY <1>10 DEF CompleteWrite
  <2>2. UNCHANGED <<taken, backlog, file, heap>> /\ q[1] = "write"
    BY <1>3, <1>10 DEF CompleteWrite
  <2>3. x \in Int
    BY <2>1 DEF WriteResults
  <2> QED BY <1>5, <2>1, <2>2, <2>3
<1> QED BY <1>2, <1>6, <1>7, <1>8, <1>9, <1>10

(* What is freed is gone, and nothing else.                                *)
LEMMA FreeLeaves ==
  ASSUME HeapInv, NEW q, heap' = heap \/ heap' = Free(q)
  PROVE  /\ DOMAIN heap' \subseteq DOMAIN heap
         /\ \A p \in DOMAIN heap' : heap'[p] = heap[p]
         /\ \A p \in DOMAIN heap : p # q => p \in DOMAIN heap' /\ ReqKeeps(p)
BY DEF Free, Restrict, ReqKeeps

(* The request of the first entry of a queue is in use nowhere else.       *)
LEMMA HeadHere ==
  ASSUME ReactorInv, NEW w \in Rings, cq[w] # <<>>, wpc[w] = "wait",
         NEW h, h = Head(cq[w]).req
  PROVE  /\ Alive(w) /\ h \in Queue(w) /\ h \in Owned(w)
         /\ \A r \in Rings : h \notin inflight[r] /\ h # cur[r]
         /\ \A r \in Rings \ {w} : h \notin Owned(r)
<1>1. HoldInv /\ OutsideInv /\ RingInv
  BY DEF ReactorInv
<1>2. Alive(w) /\ h \in Queue(w) /\ h \in Owned(w)
  BY <1>1, QueueHead DEF Alive, Owned
<1>3. /\ \A r \in Rings : h \notin inflight[r] /\ h # cur[r]
      /\ \A r \in Rings \ {w} : h \notin Owned(r)
  <2>1. \A r \in Rings \ {w} : h \notin Owned(r)
    BY <1>1, <1>2 DEF HoldInv
  <2>2. h \notin inflight[w] /\ h # cur[w]
    BY <1>1, <1>2 DEF HoldInv
  <2>3. \A r \in Rings \ {w} : h \notin inflight[r] /\ (cur[r] # None => h # cur[r])
    BY <2>1 DEF Owned
  <2>4. h # None
    BY <1>1, <1>2, QueueTypes, ReactorAssumption DEF Addresses, Kinds
  <2> QED BY <2>1, <2>2, <2>3, <2>4
<1> QED BY <1>2, <1>3

(* The first entry of a queue is taken.                                    *)
LEMMA TakeTransfer ==
  ASSUME ReactorInv, DescriptorInv', TransferInv, NEW w \in Rings, cq[w] # <<>>,
         wpc[w] = "wait", cq' = [cq EXCEPT ![w] = Tail(@)],
         UNCHANGED <<inflight, file>>, \A c \in Conns : ConnKeeps(c),
         NEW h, h = Head(cq[w]).req,
         \A q \in DOMAIN heap : q # h => ReqKeeps(q),
         \A v \in Rings \ {w} : /\ wpc'[v] = wpc[v] /\ cur'[v] = cur[v]
                                /\ cqres'[v] = cqres[v],
         NEW g, wpc'[w] \in Busy => Working(w)' = g,
         g \in Fds => TransferOf(g)'
  PROVE  TransferInv'
<1> SUFFICES ASSUME NEW f \in Fds, f # g
             PROVE  TransferOf(f)'
  BY DEF TransferInv
<1>1. HoldInv /\ OutsideInv /\ RingInv
  BY DEF ReactorInv
<1>2. Alive(w) /\ h \in Queue(w) /\ h \in Owned(w)
  BY HeadHere
<1>3. /\ \A r \in Rings : h \notin inflight[r] /\ h # cur[r]
      /\ \A r \in Rings \ {w} : h \notin Owned(r)
  BY HeadHere
<1>4. \A q \in Waits(f)' : q \in Waits(f) /\ ReqKeeps(q)
  <2>1. \A q \in Waits(f) : q \in DOMAIN heap /\ q # h
    BY <1>1, <1>3 DEF Waits, HoldInv, Owned
  <2> QED BY <2>1 DEF Waits
<1>5. \A r \in Rings : Alive(r)' => Alive(r)
  BY <1>2 DEF Alive
<1>6. \A s \in Rings : Alive(s) => Queue(s)' \subseteq DOMAIN heap \ {h}
  <2>1. Queue(w)' \subseteq Queue(w) \ {h}
    BY <1>1, <1>2, QueueTake DEF HoldInv
  <2>2. \A s \in Rings \ {w} : Queue(s)' = Queue(s)
    BY <1>1, QueueTake
  <2>3. \A s \in Rings : Alive(s) => Queue(s) \subseteq Owned(s)
    BY DEF Owned
  <2> QED BY <1>1, <1>2, <1>3, <2>1, <2>2, <2>3 DEF HoldInv
<1>7. Said(f)
  <2> SUFFICES ASSUME NEW k \in {"accept", "read"}, NEW u \in Entries(f, k)'
               PROVE  \E v \in Entries(f, k) :
                        /\ cq'[u[1]][u[2]] = cq[v[1]][v[2]]
                        /\ Alive(u[1])' => Alive(v[1]) /\ ReqKeeps(cq[v[1]][v[2]].req)
    BY DEF Said
  <2>1. PICK s \in Rings : \E i \in DOMAIN cq'[s] :
          u = <<s, i>> /\ cq'[s][i].req[1] = k
          /\ f = IF cq'[s][i].req[1] = "accept" THEN cq'[s][i].res ELSE cq'[s][i].req[2]
    BY DEF Entries, About
  <2>2. PICK i \in DOMAIN cq'[s] :
          u = <<s, i>> /\ cq'[s][i].req[1] = k
          /\ f = IF cq'[s][i].req[1] = "accept" THEN cq'[s][i].res ELSE cq'[s][i].req[2]
    BY <2>1
  <2>3. PICK j \in DOMAIN cq[s] : cq'[s][i] = cq[s][j]
    <3>1. \A s1 \in Rings : \A i1 \in DOMAIN cq'[s1] :
            \E j \in DOMAIN cq[s1] : cq'[s1][i1] = cq[s1][j]
      BY <1>1, EntriesTake
    <3> QED BY <3>1
  <2>4. <<s, j>> \in Entries(f, k)
    <3>1. <<s, j>> \in UNION {{r} \X DOMAIN cq[r] : r \in Rings}
      BY <2>3
    <3>2. cq[s][j].req[1] = k /\ About(cq[s][j]) = f
      BY <2>2, <2>3 DEF About
    <3> QED BY <3>1, <3>2 DEF Entries
  <2>5. Alive(s) => ReqKeeps(cq[s][j].req)
    <3>1. cq'[s][i].req \in Queue(s)'
      BY DEF Queue
    <3> QED BY <1>6, <2>3, <3>1
  <2> QED BY <1>5, <2>2, <2>3, <2>4, <2>5
<1>8. ASSUME NEW v \in Rings
      PROVE  Stays(v, f)
  <2>1. CASE v = w
    BY <2>1, StaysOff
  <2>2. CASE v # w
    <3>1. ASSUME wpc[v] \in ReadPlaces
          PROVE  ReqKeeps(cur[v])
      <4>1. cur[v] \in DOMAIN heap
        BY <3>1, HandOwned DEF ReadPlaces, Handling
      <4> QED BY <1>3, <4>1
    <3> QED BY <2>2, <3>1, StaysPut
  <2> QED BY <2>1, <2>2
<1>9. TransferOf(f) /\ BatonOf(f)' /\ RestInv'
  BY DEF TransferInv, DescriptorInv, BatonInv
<1> QED BY <1>1, <1>4, <1>7, <1>8, <1>9, TransferKeep

(* A worker takes an entry: what was known of it in the queue, the handler *)
(* knows.                                                                  *)
LEMMA DeliveryReap ==
  ASSUME ReactorInv, DescriptorInv, DescriptorInv', DeliveryInv, NEW w \in Rings, Reap(w)
  PROVE  DeliveryInv'
<1>1. RingInv /\ HeapInv /\ OutsideInv /\ HoldInv
  BY DEF ReactorInv
<1>2. /\ wpc[w] = "wait" /\ cq[w] # <<>> /\ Head(cq[w]).res >= 0
      /\ heap[Head(cq[w]).req].fd # EFD(w)
      /\ wpc' = [wpc EXCEPT ![w] = heap[Head(cq[w]).req].type]
      /\ cq' = [cq EXCEPT ![w] = Tail(@)]
      /\ cur' = [cur EXCEPT ![w] = Head(cq[w]).req]
      /\ cqres' = [cqres EXCEPT ![w] = Head(cq[w]).res]
      /\ UNCHANGED <<inflight, heap, prevs, opc>>
      /\ UNCHANGED <<peer, sent, taken, backlog, file, ended, torn, got>>
  BY DEF Reap, Go, outside, app, reqs, owner
<1>3. PICK e : e = Head(cq[w])
  OBVIOUS
<1>4. e.req \in Queue(w) /\ e.req \in Addresses /\ e.res \in Int
  BY <1>1, <1>2, <1>3, QueueHead
<1>5. e.req \in DOMAIN heap
  BY <1>1, <1>2, <1>4 DEF HoldInv, Owned, Alive
<1>6. heap[e.req].type = e.req[1] /\ e.req[1] \in Kinds /\ heap[e.req].fd = e.req[2]
  BY <1>1, <1>4, <1>5 DEF HeapInv, Addresses
<1>7. /\ wpc'[w] = e.req[1] /\ cur'[w] = e.req /\ cqres'[w] = e.res
      /\ \A v \in Rings \ {w} : wpc'[v] = wpc[v] /\ cur'[v] = cur[v]
                                /\ cqres'[v] = cqres[v]
  BY <1>1, <1>2, <1>3, <1>6 DEF RingInv
<1>8. (\A c : ConnKeeps(c)) /\ (\A q : ReqKeeps(q))
  BY <1>2 DEF ConnKeeps, ReqKeeps
<1>9. ConnInv' /\ GotInv'
  <2>1. ConnInv'
    BY <1>1, <1>2, <1>8, ConnKeep DEF DeliveryInv
  <2> QED BY <1>2, <2>1, GotKeep DEF DeliveryInv
<1>10. PrevInv'
  <2>1. \A v \in Rings : wpc'[v] = "delete" <=> wpc[v] = "delete"
    BY <1>2, <1>6, <1>7 DEF Kinds
  <2>2. \A v \in Rings : wpc[v] = "delete" => cur'[v] = cur[v]
    BY <1>2, <1>7
  <2>3. Deleting' = Deleting
    BY <2>1, <2>2 DEF Deleting
  <2>4. AllAlive' => AllAlive
    BY <1>2, <1>7 DEF AllAlive, Alive
  <2> QED BY <1>2, <1>8, <2>3, <2>4, PrevKeep DEF DeliveryInv
<1>11. \A f, k : <<w, 1>> \in Entries(f, k) <=> e.req[1] = k /\ About(e) = f
  BY <1>1, <1>2, <1>3, EntriesTake
<1>12. e = cq[w][1] /\ 1 \in DOMAIN cq[w]
  BY <1>1, <1>2, <1>3, EntriesTake
<1>13. ASSUME NEW g, wpc'[w] \in Busy => Working(w)' = g, g \in Fds => TransferOf(g)'
       PROVE  TransferInv'
  <2>1. TransferInv
    BY DEF DeliveryInv
  <2>2. UNCHANGED <<inflight, file>> /\ cq' = [cq EXCEPT ![w] = Tail(@)]
        /\ wpc[w] = "wait" /\ cq[w] # <<>>
    BY <1>2
  <2> HIDE DEF TransferInv
  <2> QED BY <1>7, <1>8, <1>13, <2>1, <2>2, TakeTransfer
<1>14. ASSUME NEW g \in Fds, NEW k \in {"accept", "read"}, <<w, 1>> \in Entries(g, k)
       PROVE  file[g] \notin ended
  <2>1. Hands(g, {"closed"}) \subseteq Handled(g)
    BY DEF Hands, Handled, Fresh
  <2>2. Posted(g) # {} /\ BatonOf(g) /\ TransferOf(g)
    BY <1>14 DEF Posted, DescriptorInv, BatonInv, DeliveryInv, TransferInv
  <2> QED BY <2>1, <2>2 DEF BatonOf, TransferOf
<1>15. CASE e.req[1] = "read"
  <2>1. e.req[2] # EFD(w) /\ e.req \in Held(w)
    BY <1>2, <1>3, <1>4, <1>6 DEF Held, Queue
  <2>2. PICK g \in Fds : g = e.req[2]
    BY <1>15, <2>1 DEF DescriptorInv, FdInv
  <2>3. <<w, 1>> \in Entries(g, "read")
    BY <1>11, <1>15, <2>2 DEF About
  <2>4. AnswerOf(e.req, e.res, g)
    <3>1. Alive(w)
      BY <1>2 DEF Alive
    <3> QED BY <1>12, <2>3, <3>1 DEF DeliveryInv, TransferInv, TransferOf, Answered
  <2>5. AnswerOf(e.req, e.res, g)'
    BY <1>2, <2>4 DEF AnswerOf, Follows, Continues, Fits, Before, Over, Short
  <2>6. AnswerOf(cur[w], cqres[w], g)'
    BY <1>7, <2>5 DEF AnswerOf, Follows, Continues, Fits, Before, Over, Short
  <2>7. wpc'[w] = "read" /\ Working(w)' = g /\ BatonOf(g)'
    BY <1>7, <1>15, <2>2 DEF Working, AcceptPlaces, DescriptorInv, BatonInv
  <2>8. ~(file[g] \in ended)'
    BY <1>2, <1>14, <2>3
  <2>9. /\ wpc'[w] \in Busy /\ wpc'[w] # "read_again" /\ wpc'[w] \notin AcceptPlaces
        /\ wpc'[w] # "closed"
    BY <2>7 DEF Busy, AcceptPlaces, ReadPlaces
  <2>10. TransferOf(g)'
    BY <2>6, <2>7, <2>8, <2>9, AtHand
  <2> QED BY <1>9, <1>10, <1>13, <2>7, <2>10 DEF DeliveryInv
<1>16. CASE e.req[1] = "accept"
  <2>1. PICK g \in Fds : g = e.res
    <3>1. e.res \in Fds \cup {-1} /\ e.res >= 0
      BY <1>2, <1>3, <1>12, <1>16 DEF DescriptorInv, ResultInv
    <3> QED BY <3>1
  <2>2. <<w, 1>> \in Entries(g, "accept")
    BY <1>11, <1>16, <2>1 DEF About
  <2>3. Untouched(file[g])
    BY <2>2 DEF DeliveryInv, TransferInv, TransferOf, Unread
  <2>4. Untouched(file[g])'
    BY <1>2, <2>3 DEF Untouched, UpToDate
  <2>5. wpc'[w] = "accept" /\ Working(w)' = g /\ BatonOf(g)'
    BY <1>7, <1>16, <2>1 DEF Working, AcceptPlaces, DescriptorInv, BatonInv
  <2>6. ~(file[g] \in ended)'
    BY <1>2, <1>14, <2>2
  <2>7. /\ wpc'[w] \in Busy /\ wpc'[w] # "read_again" /\ wpc'[w] \notin Holding
        /\ wpc'[w] # "closed"
    BY <2>5 DEF Busy, AcceptPlaces, Holding
  <2>8. TransferOf(g)'
    BY <2>4, <2>5, <2>6, <2>7, AtHand
  <2> QED BY <1>9, <1>10, <1>13, <2>5, <2>8 DEF DeliveryInv
<1>17. CASE e.req[1] = "write"
  <2>1. wpc'[w] \notin Busy
    BY <1>7, <1>17 DEF Busy, AcceptPlaces, ReadPlaces
  <2>2. 0 \notin Fds
    BY ReactorAssumption
  <2> QED BY <1>9, <1>10, <1>13, <2>1, <2>2 DEF DeliveryInv
<1> QED BY <1>6, <1>15, <1>16, <1>17 DEF Kinds

(* The stop signal ends a loop, and its request is deleted.                *)
LEMMA DeliveryStop ==
  ASSUME ReactorInv, DescriptorInv', DeliveryInv, NEW w \in Rings, ReapStop(w)
  PROVE  DeliveryInv'
<1>1. RingInv /\ HeapInv /\ OutsideInv /\ HoldInv
  BY DEF ReactorInv
<1>2. PICK h : h = Head(cq[w]).req
  OBVIOUS
<1>3. /\ wpc[w] = "wait" /\ cq[w] # <<>> /\ heap[h].fd = EFD(w)
      /\ wpc' = [wpc EXCEPT ![w] = "exit"]
      /\ cq' = [cq EXCEPT ![w] = Tail(@)]
      /\ heap' = heap \/ heap' = Free(h)
      /\ UNCHANGED <<inflight, cur, cqres, prevs, opc>>
      /\ UNCHANGED <<peer, sent, taken, backlog, file, ended, torn, got>>
  BY <1>2 DEF ReapStop, ReapedStop, ListDelete, Go, outside, app, owner
<1>4. wpc'[w] = "exit" /\ \A v \in Rings \ {w} : wpc'[v] = wpc[v]
  BY <1>1, <1>3 DEF RingInv
<1>5. /\ DOMAIN heap' \subseteq DOMAIN heap
      /\ \A p \in DOMAIN heap' : heap'[p] = heap[p]
      /\ \A p \in DOMAIN heap : p # h => p \in DOMAIN heap' /\ ReqKeeps(p)
  BY <1>1, <1>3, FreeLeaves
<1>6. \A c : ConnKeeps(c)
  BY <1>3 DEF ConnKeeps
<1>7. ConnInv' /\ GotInv'
  <2>1. ConnInv'
    BY <1>1, <1>3, <1>6, ConnKeep DEF DeliveryInv
  <2> QED BY <1>3, <2>1, GotKeep DEF DeliveryInv
<1>8. TransferInv'
  <2>1. TransferInv
    BY DEF DeliveryInv
  <2>2. 0 \notin Fds
    BY ReactorAssumption
  <2>3. wpc'[w] \notin Busy
    BY <1>4 DEF Busy, AcceptPlaces, ReadPlaces
  <2>4. /\ wpc[w] = "wait" /\ cq[w] # <<>> /\ cq' = [cq EXCEPT ![w] = Tail(@)]
        /\ UNCHANGED <<inflight, file>>
    BY <1>3
  <2>5. \A v \in Rings \ {w} : wpc'[v] = wpc[v] /\ cur'[v] = cur[v] /\ cqres'[v] = cqres[v]
    BY <1>3, <1>4
  <2> HIDE DEF TransferInv
  <2> QED BY <1>2, <1>5, <1>6, <2>1, <2>2, <2>3, <2>4, <2>5, TakeTransfer
<1>9. PrevInv'
  <2>1. Deleting' = Deleting
    BY <1>3, <1>4 DEF Deleting
  <2>2. AllAlive' => AllAlive
    BY <1>3, <1>4 DEF AllAlive, Alive
  <2>3. h \in DOMAIN heap /\ h[2] = EFD(w)
    <3>1. h \in DOMAIN heap
      BY <1>1, <1>2, <1>3, HeadHere DEF HoldInv
    <3> QED BY <1>1, <1>3, <3>1 DEF HeapInv
  <2>4. EFD(w) \notin Fds
    BY ReactorAssumption DEF Rings, EFD
  <2>5. ~heap[h].prev
    BY <2>3, <2>4 DEF DeliveryInv, PrevInv
  <2> QED BY <1>3, <1>5, <2>1, <2>2, <2>5, PrevKeep DEF DeliveryInv
<1> QED BY <1>7, <1>8, <1>9 DEF DeliveryInv

(* A worker dies: what its queue says counts no longer.                    *)
LEMMA DeliveryDies ==
  ASSUME ReactorInv, DescriptorInv', DeliveryInv, NEW w \in Rings,
         ReapFailure(w) \/ WaitFails(w)
  PROVE  DeliveryInv'
<1>1. RingInv /\ HeapInv /\ OutsideInv /\ HoldInv
  BY DEF ReactorInv
<1>2. /\ wpc[w] = "wait" /\ wpc' = [wpc EXCEPT ![w] = "dead"]
      /\ UNCHANGED <<inflight, cq, cur, cqres, prevs, opc>>
      /\ UNCHANGED <<peer, sent, taken, backlog, file, ended, torn, got>>
  BY DEF ReapFailure, WaitFails, Go, outside, app, owner, ringv, reqs
<1>3. PICK h : h = Head(cq[w]).req
  OBVIOUS
<1>4. heap' = heap \/ (cq[w] # <<>> /\ heap' = Free(h))
  BY <1>3 DEF ReapFailure, WaitFails, reqs
<1>5. wpc'[w] = "dead" /\ \A v \in Rings \ {w} : wpc'[v] = wpc[v]
  BY <1>1, <1>2 DEF RingInv
<1>6. /\ \A p \in DOMAIN heap' : p \in DOMAIN heap /\ heap'[p] = heap[p]
      /\ \A p \in DOMAIN heap : p # h => ReqKeeps(p)
  BY <1>1, <1>4, FreeLeaves
<1>7. /\ \A q \in inflight[w] : ReqKeeps(q)
      /\ \A v \in Rings \ {w} : \A q \in Owned(v) : ReqKeeps(q)
  <2>1. CASE heap' = heap
    BY <2>1 DEF ReqKeeps
  <2>2. CASE cq[w] # <<>>
    <3>1. h \notin inflight[w] /\ \A r \in Rings \ {w} : h \notin Owned(r)
      BY <1>2, <1>3, <2>2, HeadHere
    <3>2. inflight[w] \subseteq DOMAIN heap /\ \A r \in Rings : Owned(r) \subseteq DOMAIN heap
      BY <1>1 DEF HoldInv, Owned
    <3> QED BY <1>6, <3>1, <3>2
  <2> QED BY <1>4, <2>1, <2>2
<1>8. \A c : ConnKeeps(c)
  BY <1>2 DEF ConnKeeps
<1>9. ConnInv' /\ GotInv'
  <2>1. ConnInv'
    BY <1>1, <1>2, <1>8, ConnKeep DEF DeliveryInv
  <2> QED BY <1>2, <2>1, GotKeep DEF DeliveryInv
<1>10. TransferInv'
  <2> SUFFICES ASSUME NEW f \in Fds
               PROVE  TransferOf(f)'
    BY DEF TransferInv
  <2>1. \A r \in Rings : Alive(r)' => Alive(r) /\ r # w
    BY <1>5 DEF Alive
  <2>2. Said(f)
    <3> SUFFICES ASSUME NEW k \in {"accept", "read"}, NEW u \in Entries(f, k)'
                 PROVE  /\ u \in Entries(f, k)
                        /\ cq'[u[1]][u[2]] = cq[u[1]][u[2]]
                        /\ Alive(u[1])' => Alive(u[1]) /\ ReqKeeps(cq[u[1]][u[2]].req)
      BY DEF Said
    <3>1. u \in Entries(f, k)
      BY <1>2 DEF Entries, About
    <3>2. u[1] \in Rings /\ u[2] \in DOMAIN cq[u[1]]
      BY <3>1 DEF Entries
    <3>3. Alive(u[1]) => cq[u[1]][u[2]].req \in Owned(u[1])
      BY <3>2 DEF Owned, Queue
    <3> QED BY <1>2, <1>7, <2>1, <3>1, <3>2, <3>3
  <2>3. \A q \in Waits(f)' : q \in Waits(f) /\ ReqKeeps(q)
    <3>1. Waits(f)' = Waits(f)
      BY <1>2, RingsSame
    <3>2. \A r \in Rings : \A q \in inflight[r] : ReqKeeps(q)
      BY <1>7 DEF Owned
    <3> QED BY <3>1, <3>2 DEF Waits
  <2>4. ASSUME NEW v \in Rings
        PROVE  Stays(v, f)
    <3>1. CASE v = w
      BY <1>2, <1>5, <3>1, StaysOff DEF Busy, AcceptPlaces, ReadPlaces
    <3>2. CASE v # w
      <4>1. wpc[v] \in ReadPlaces => cur[v] \in Owned(v)
        BY HandOwned DEF ReadPlaces, Handling
      <4> QED BY <1>2, <1>5, <1>7, <3>2, <4>1, StaysPut
    <3> QED BY <3>1, <3>2
  <2>5. TransferOf(f) /\ BatonOf(f)' /\ RestInv'
    BY DEF DeliveryInv, TransferInv, DescriptorInv, BatonInv
  <2> QED BY <1>1, <1>2, <1>8, <2>2, <2>3, <2>4, <2>5, TransferKeep
<1>11. PrevInv'
  <2>1. ~AllAlive'
    BY <1>5 DEF AllAlive, Alive
  <2> QED BY <1>2, <1>6, <2>1, PrevKeep DEF DeliveryInv
<1> QED BY <1>9, <1>10, <1>11 DEF DeliveryInv

(* A handler ends, and its request is deleted.                             *)
LEMMA DeliveryDelete ==
  ASSUME ReactorInv, DescriptorInv', DeliveryInv, NEW w \in Rings, Delete(w)
  PROVE  DeliveryInv'
<1>1. RingInv /\ HeapInv /\ OutsideInv /\ HoldInv
  BY DEF ReactorInv
<1>2. PICK h : h = cur[w]
  OBVIOUS
<1>3. /\ wpc[w] = "delete" /\ wpc' = [wpc EXCEPT ![w] = "wait"]
      /\ cur' = [cur EXCEPT ![w] = None] /\ cqres' = [cqres EXCEPT ![w] = 0]
      /\ heap' = heap \/ heap' = Free(h)
      /\ UNCHANGED <<inflight, cq, prevs, opc>>
      /\ UNCHANGED <<peer, sent, taken, backlog, file, ended, torn, got>>
  BY <1>2 DEF Delete, ListDelete, Go, outside, app, owner, ringv
<1>4. /\ wpc'[w] = "wait" /\ cur'[w] = None
      /\ \A v \in Rings \ {w} : wpc'[v] = wpc[v] /\ cur'[v] = cur[v] /\ cqres'[v] = cqres[v]
  BY <1>1, <1>3 DEF RingInv
<1>5. /\ DOMAIN heap' \subseteq DOMAIN heap
      /\ \A p \in DOMAIN heap' : heap'[p] = heap[p]
      /\ \A p \in DOMAIN heap : p # h => p \in DOMAIN heap' /\ ReqKeeps(p)
  BY <1>1, <1>3, FreeLeaves
<1>6. wpc[w] \in Handling
  BY <1>3 DEF Handling
<1>7. \A r \in Rings : h \notin InRing(r) /\ (r # w => cur[r] # h)
  BY <1>2, <1>6, HandNotInRing
<1>8. \A c : ConnKeeps(c)
  BY <1>3 DEF ConnKeeps
<1>9. ConnInv' /\ GotInv'
  <2>1. ConnInv'
    BY <1>1, <1>3, <1>8, ConnKeep DEF DeliveryInv
  <2> QED BY <1>3, <2>1, GotKeep DEF DeliveryInv
<1>10. TransferInv'
  <2> SUFFICES ASSUME NEW f \in Fds
               PROVE  TransferOf(f)'
    BY DEF TransferInv
  <2>1. \A r \in Rings : Alive(r)' => Alive(r)
    BY <1>3, <1>4 DEF Alive
  <2>2. \A r \in Rings : \A q \in InRing(r) : ReqKeeps(q)
    <3>1. \A r \in Rings : InRing(r) \subseteq DOMAIN heap
      BY <1>1 DEF HoldInv, Owned, InRing
    <3> QED BY <1>5, <1>7, <3>1
  <2>3. Said(f) /\ \A q \in Waits(f)' : q \in Waits(f) /\ ReqKeeps(q)
    BY <1>3, <2>1, <2>2, RingsSaid
  <2>4. ASSUME NEW v \in Rings
        PROVE  Stays(v, f)
    <3>1. CASE v = w
      BY <1>3, <1>4, <3>1, StaysOff DEF Busy, AcceptPlaces, ReadPlaces
    <3>2. CASE v # w
      <4>1. wpc[v] \in ReadPlaces => cur[v] \in DOMAIN heap
        BY HandOwned DEF ReadPlaces, Handling
      <4> QED BY <1>4, <1>5, <1>7, <3>2, <4>1, StaysPut
    <3> QED BY <3>1, <3>2
  <2>5. TransferOf(f) /\ BatonOf(f)' /\ RestInv'
    BY DEF DeliveryInv, TransferInv, DescriptorInv, BatonInv
  <2> QED BY <1>1, <1>3, <1>8, <2>3, <2>4, <2>5, TransferKeep
<1>11. PrevInv'
  <2>1. Deleting' \subseteq Deleting /\ h \in Deleting
    BY <1>2, <1>3, <1>4 DEF Deleting
  <2>2. AllAlive' => AllAlive
    BY <1>3, <1>4 DEF AllAlive, Alive
  <2> QED BY <1>3, <1>5, <2>1, <2>2, PrevKeep DEF DeliveryInv
<1> QED BY <1>9, <1>10, <1>11 DEF DeliveryInv

-----------------------------------------------------------------------------
(* The theorems.                                                           *)

(* Initially no connection is open.                                        *)
LEMMA DeliveryInvInit ==
  ASSUME Init
  PROVE  DeliveryInv
<1>1. /\ heap = EmptyBag /\ inflight = [r \in Rings |-> {}] /\ cq = [r \in Rings |-> <<>>]
      /\ wpc = [w \in Rings |-> "none"] /\ file = [f \in Fds |-> None]
      /\ peer = [c \in Conns |-> "away"] /\ backlog = {} /\ prevs = {}
      /\ torn = {} /\ ended = {}
      /\ taken = [c \in Conns |-> 0] /\ got = [c \in Conns \cup {None} |-> <<>>]
  BY DEF Init
<1>2. ConnInv
  BY <1>1 DEF ConnInv, Opened
<1>3. GotInv
  <2>1. <<>> \in Seq(Conns \X Nat) /\ Len(<<>>) = 0 /\ DOMAIN <<>> = {}
    BY EmptySeq
  <2>2. \A c \in Conns \cup {None} : got[c] = <<>>
    BY <1>1
  <2>3. Len(<<>>) = Parts * 0 /\ 0 \in Nat
    BY <2>1, ReactorAssumption
  <2>4. got \in [Conns \cup {None} -> Seq(Conns \X Nat)]
    BY <1>1, <2>1
  <2> QED BY <1>1, <2>1, <2>2, <2>3, <2>4 DEF GotInv
<1>4. TransferInv
  <2> SUFFICES ASSUME NEW f \in Fds
               PROVE  TransferOf(f)
    BY DEF TransferInv
  <2>1. Waits(f) = {} /\ \A k : Entries(f, k) = {}
    BY <1>1 DEF Waits, Entries
  <2>2. \A P : P \subseteq Busy => Hands(f, P) = {}
    BY <1>1 DEF Hands, Busy, AcceptPlaces, ReadPlaces
  <2>3. /\ Hands(f, Holding) = {} /\ Hands(f, {"read_again"}) = {}
        /\ Hands(f, AcceptPlaces) = {} /\ Hands(f, {"closed"}) = {}
    BY <2>2 DEF Holding, Busy, AcceptPlaces, ReadPlaces
  <2> QED BY <1>1, <2>1, <2>3 DEF TransferOf, Asking, Answered, InHands, Unread
<1>5. PrevInv
  <2>1. DOMAIN heap = {}
    BY <1>1 DEF EmptyBag, SetToBag
  <2> QED BY <1>1, <2>1 DEF PrevInv
<1> QED BY <1>2, <1>3, <1>4, <1>5 DEF DeliveryInv

(* Every step keeps what was taken from a connection in the right hands.   *)
LEMMA DeliveryInvNext ==
  ASSUME ReactorInv, ReactorInv', CountInv, DescriptorInv, DescriptorInv', DeliveryInv,
         ResultKept, [Next]_vars
  PROVE  DeliveryInv'
<1>1. KindInv
  BY DEF CountInv
<1>2. ASSUME \/ \E c \in Conns : PeerConnect(c) \/ PeerSend(c) \/ PeerClose(c)
             \/ OwnerGoes \/ Send \/ UNCHANGED vars
      PROVE  DeliveryInv'
  BY <1>2, DeliveryOthers
<1>3. CASE DestroyFree
  BY <1>3, DeliveryFree
<1>4. CASE Submit
  BY <1>4, DeliverySubmit
<1>5. ASSUME NEW r \in Rings, Complete(r)
      PROVE  DeliveryInv'
  BY <1>5, DeliveryComplete
<1>6. ASSUME NEW w \in Rings, Worker(w) \/ WaitFails(w)
      PROVE  DeliveryInv'
  <2>1. CASE Reap(w)
    BY <2>1, DeliveryReap
  <2>2. CASE ReapStop(w)
    BY <2>2, DeliveryStop
  <2>3. CASE ReapFailure(w) \/ WaitFails(w)
    BY <2>3, DeliveryDies
  <2>4. CASE Delete(w)
    BY <2>4, DeliveryDelete
  <2>5. CASE Ready(w) \/ Exit(w) \/ HandleWrite(w) \/ HandleAccept(w) \/ DispatchRead(w)
    BY <1>1, <2>5, DeliveryTurns
  <2>6. CASE HandleClose(w)
    BY <2>6, DeliveryClosed, DeliveryCloseFd DEF HandleClose
  <2>7. CASE OnReaded(w)
    BY <2>7, DeliveryReaded
  <2>8. CASE StartEfd(w) \/ StartAccept(w) \/ AcceptAgain(w) \/ AcceptRead(w) \/ ReadAgain(w)
    BY <1>1, <2>8, DeliveryFirst
  <2>9. CASE ReadRest(w)
    BY <1>1, <2>9, DeliveryRest
  <2> QED BY <1>6, <2>1, <2>2, <2>3, <2>4, <2>5, <2>6, <2>7, <2>8, <2>9
          DEF Worker, Accept
<1> QED BY <1>2, <1>3, <1>4, <1>5, <1>6 DEF Next, OwnerStep, OwnerGoes

(* The invariant holds as long as no result was written over.              *)
LEMMA DeliveryInvariant == Spec /\ []ResultKept => []DeliveryInv
<1>1. Init => DeliveryInv
  BY DeliveryInvInit
<1>2. /\ ReactorInv /\ ReactorInv' /\ CountInv /\ DescriptorInv /\ DescriptorInv'
      /\ DeliveryInv /\ ResultKept /\ [Next]_vars
      => DeliveryInv'
  BY DeliveryInvNext
<1> QED BY <1>1, <1>2, ReactorInvariant, CountInvariant, DescriptorInvariant, PTL DEF Spec

(* What on_readed was called with for a connection, as long as the server  *)
(* has its place in it, is a prefix of what its peer sent, in order, whole *)
(* messages, although the reads of a message and of the next one go        *)
(* through any of the rings.                                               *)
THEOREM DeliveredInOrder == Spec /\ []ResultKept => []Delivered
<1>1. DescriptorInv /\ DeliveryInv => Delivered
  <2> SUFFICES ASSUME DescriptorInv, DeliveryInv
               PROVE  Delivered
    OBVIOUS
  <2>1. ASSUME NEW c \in Conns
        PROVE  Len(got[c]) % Parts = 0
    <3>1. PICK k \in Nat : Len(got[c]) = Parts * k
      BY DEF DeliveryInv, GotInv
    <3>2. (Parts * k) % Parts = 0
      BY ReactorAssumption
    <3> QED BY <3>1, <3>2
  <2>2. got[None] = <<>>
    BY DEF DescriptorInv, RestInv
  <2>3. \A c \in Conns : \A i \in DOMAIN got[c] : got[c][i] = <<c, i>>
    BY DEF DeliveryInv, GotInv
  <2> QED BY <2>1, <2>2, <2>3 DEF Delivered
<1> QED BY <1>1, DescriptorInvariant, DeliveryInvariant, PTL

(* With messages of at most two buffers the server never loses its place:  *)
(* handle_read carries over the first buffer of a message, and what a      *)
(* continuation of one buffer brings is the rest of it.                    *)
THEOREM NeverTorn == Spec /\ []ResultKept => [](Parts <= 2 => torn = {})
<1>1. DeliveryInv => (Parts <= 2 => torn = {})
  BY ReactorAssumption DEF DeliveryInv, GotInv
<1> QED BY <1>1, DeliveryInvariant, PTL

(* The memory of a message that is carried over, as long as no worker      *)
(* died: a request that points to it finds it allocated, for its           *)
(* connection, unless all that is left to do with the request is to delete *)
(* it; and it is lost only with a connection that was closed.              *)
THEOREM CarriedHasOwner == Spec /\ []ResultKept => []CarriedOwned
<1>1. ReactorInv /\ CountInv /\ DeliveryInv => CarriedOwned
  <2> SUFFICES ASSUME ReactorInv, CountInv, DeliveryInv, AllAlive, opc # "freed"
               PROVE  Carrying \subseteq prevs /\ prevs \ ended \subseteq Carrying
    BY DEF CarriedOwned
  <2>1. prevs \ ended \subseteq Carrying
    BY DEF DeliveryInv, PrevInv
  <2>2. ASSUME NEW q \in DOMAIN heap \ Deleting, heap[q].prev
        PROVE  heap[q].conn \in prevs
    <3>1. PICK f \in Fds : q[1] = "read" /\ q[2] = f
      BY <2>2 DEF DeliveryInv, PrevInv
    <3>2. TransferOf(f)
      BY DEF DeliveryInv, TransferInv
    <3>3. PICK r \in Rings : q \in Owned(r)
      BY DEF ReactorInv, ListInv
    <3>4. CASE q \in inflight[r]
      <4>1. q \in Waits(f)
        BY <3>1, <3>4 DEF Waits
      <4> QED BY <2>2, <3>2, <4>1 DEF TransferOf, Asking, ReadOf, Follows
    <3>5. CASE q \in Queue(r)
      <4>1. PICK i \in DOMAIN cq[r] : cq[r][i].req = q
        BY <3>5 DEF Queue
      <4>2. <<r, i>> \in Entries(f, "read")
        BY <3>1, <4>1 DEF Entries, About
      <4>3. AnswerOf(q, cq[r][i].res, f)
        BY <3>2, <4>1, <4>2 DEF TransferOf, Answered, AllAlive
      <4> QED BY <2>2, <4>3 DEF AnswerOf, Follows
    <3>6. CASE q = cur[r] /\ q # None
      <4>1. wpc[r] \in Handling /\ wpc[r] # "delete"
        BY <3>6 DEF ReactorInv, RingInv, Deleting
      <4>2. wpc[r] \in Holding \cup {"read_again"}
        BY <3>1, <3>6, <4>1 DEF CountInv, KindInv, Handling, Holding, AcceptPlaces
      <4>3. Working(r) = f
        BY <3>1, <3>6, <4>2 DEF Working, Holding, AcceptPlaces
      <4>4. wpc[r] \in Holding
        BY <2>2, <3>2, <3>6, <4>2, <4>3 DEF TransferOf, InHands, Hands
      <4>5. AnswerOf(q, cqres[r], f)
        BY <3>2, <3>6, <4>3, <4>4 DEF TransferOf, InHands, Hands
      <4> QED BY <2>2, <4>5 DEF AnswerOf, Follows
    <3>7. q \in inflight[r] \/ q \in Queue(r) \/ (q = cur[r] /\ q # None)
      BY <3>3 DEF Owned
    <3> QED BY <3>4, <3>5, <3>6, <3>7
  <2> QED BY <2>1, <2>2 DEF Carrying
<1> QED BY <1>1, ReactorInvariant, CountInvariant, DeliveryInvariant, PTL

-----------------------------------------------------------------------------
(* The callbacks follow the protocol of Sessions.                          *)

(* A connection the application knows is one that is open, and not         *)
(* reported closed, under one descriptor.                                  *)
LEMMA ToldConn ==
  ASSUME ReactorInv, DescriptorInv, DeliveryInv, NEW f \in Fds, told[f] # None
  PROVE  /\ told[f] = file[f] /\ told[f] \in Conns
         /\ told[f] \notin ended /\ peer[told[f]] # "away"
         /\ \A g \in Fds : told[g] = told[f] => g = f
<1>1. \A g \in Fds : told[g] # None => told[g] = file[g]
  BY DEF DescriptorInv, BatonInv, ToldOf
<1>2. told[f] \in Conns
  BY DEF ReactorInv, OutsideInv
<1>3. told[f] \notin ended
  <2>1. Hands(f, {"closed"}) \subseteq Hands(f, Fresh)
    BY DEF Hands, Fresh
  <2>2. Hands(f, Fresh) = {}
    BY DEF DescriptorInv, BatonInv, ToldOf
  <2> QED BY <1>1, <2>1, <2>2 DEF DeliveryInv, TransferInv, TransferOf
<1>4. peer[told[f]] # "away"
  BY <1>1 DEF DeliveryInv, ConnInv, Opened
<1>5. \A g \in Fds : told[g] = told[f] => g = f
  BY <1>1 DEF DeliveryInv, ConnInv
<1> QED BY <1>1, <1>2, <1>3, <1>4, <1>5

(* Where the peers and the callbacks stay as they are nothing happens.     *)
SessionsStay == UNCHANGED <<peer, sent, told, ended, torn, got>>

(* Such a step is a stutter of Sessions.                                   *)
LEMMA StayInSession == SessionsStay => UNCHANGED ServesSessions!vars
BY DEF SessionsStay, ServesSessions!vars

(* The peers act.                                                          *)
LEMMA PeerInSession ==
  ASSUME ReactorInv, NEW c \in Conns, PeerConnect(c) \/ PeerSend(c) \/ PeerClose(c)
  PROVE  ServesSessions!Next
<1>1. peer \in [Conns -> {"away", "open", "gone", "reset"}] /\ sent \in [Conns -> Nat]
  BY DEF ReactorInv, OutsideInv
<1>2. CASE PeerConnect(c)
  <2>1. ServesSessions!PeerConnect(c)
    BY <1>1, <1>2 DEF PeerConnect, Peer, app, ServesSessions!PeerConnect
  <2> QED BY <2>1 DEF ServesSessions!Next
<1>3. CASE PeerSend(c)
  <2>1. ServesSessions!PeerSend(c)
    BY <1>1, <1>3 DEF PeerSend, app, ServesSessions!PeerSend
  <2> QED BY <2>1 DEF ServesSessions!Next
<1>4. CASE PeerClose(c)
  <2>1. ServesSessions!PeerClose(c)
    BY <1>1, <1>4 DEF PeerClose, Peer, app, ServesSessions!PeerClose
  <2> QED BY <2>1 DEF ServesSessions!Next
<1> QED BY <1>2, <1>3, <1>4

(* on_connected announces a connection that was not announced.             *)
LEMMA AcceptInSession ==
  ASSUME ReactorInv, DescriptorInv, DeliveryInv, ResultKept, NEW w \in Rings,
         HandleAccept(w)
  PROVE  ServesSessions!Next
<1>1. wpc[w] = "accept" /\ UNCHANGED <<peer, sent, got, torn, ended>>
      /\ told' = [told EXCEPT ![Result(w)] = File(Result(w))]
  BY DEF HandleAccept, OnConnected, Go, outside
<1>2. PICK g \in Fds : g = cqres[w] /\ Result(w) = g
  BY <1>1, InHand DEF Handling, DescriptorInv, ResultInv, ResultOf, AcceptPlaces
<1>3. wpc[w] \in Busy /\ Working(w) = g /\ w \in Hands(g, Fresh)
  BY <1>1, <1>2 DEF Working, Busy, AcceptPlaces, Hands, Fresh
<1>4. /\ told[g] = None /\ file[g] # None
      /\ file[g] \notin ended /\ file[g] \notin torn
  <2>1. BatonOf(g) /\ ToldOf(g) /\ TransferOf(g)
    BY DEF DescriptorInv, BatonInv, DeliveryInv, TransferInv
  <2> QED BY <1>1, <1>3, <2>1, ClosedInHand DEF ToldOf, AcceptPlaces, Untouched
<1>5. PICK c \in Conns : c = file[g]
  BY <1>4 DEF ReactorInv, OutsideInv
<1>6. \A f \in Fds : told'[f] = IF f = g THEN c ELSE told[f]
  BY <1>1, <1>2, <1>5 DEF File, ReactorInv, OutsideInv
<1>7. \A f \in Fds : told[f] # c
  <2>1. \A f \in Fds : told[f] = c => file[f] = c
    BY <1>5, ReactorAssumption, ToldConn
  <2> QED BY <1>4, <1>5, <2>1 DEF DeliveryInv, ConnInv
<1>8. peer[c] # "away"
  BY <1>4, <1>5 DEF DeliveryInv, ConnInv, Opened
<1>9. /\ \E f \in Fds : told'[f] = c
      /\ \A b \in Conns \ {c} : (\E f \in Fds : told'[f] = b) <=> \E f \in Fds : told[f] = b
  BY <1>4, <1>6, ReactorAssumption
<1>10. ServesSessions!Connected(c)
  BY <1>1, <1>4, <1>5, <1>7, <1>8, <1>9 DEF ServesSessions!Connected
<1> QED BY <1>10 DEF ServesSessions!Next

(* on_closed comes after the peer closed and its messages were delivered.  *)
LEMMA CloseInSession ==
  ASSUME ReactorInv, DescriptorInv, DeliveryInv, ResultKept, NEW w \in Rings,
         Go(w, "closing", "closed"), OnClosed(w)
  PROVE  ServesSessions!Next
<1>1. wpc[w] = "closing" /\ UNCHANGED <<peer, sent, got, torn>>
      /\ told' = [told EXCEPT ![Fd(w)] = None] /\ ended' = ended \cup {told[Fd(w)]}
  BY DEF Go, OnClosed, outside
<1>2. Fd(w) \in Fds /\ told[Fd(w)] = file[Fd(w)] /\ told[Fd(w)] \in Conns
  BY <1>1, KnownConn DEF ReadPlaces
<1>3. PICK g \in Fds, c \in Conns : g = Fd(w) /\ c = told[g] /\ c = file[g]
  BY <1>2
<1>4. Working(w) = g /\ wpc[w] \in Busy /\ cqres[w] = 0 /\ cur[w] \in DOMAIN heap
      /\ heap[cur[w]] \in Content
  BY <1>1, <1>3, InHand
     DEF Handling, Working, Busy, AcceptPlaces, ReadPlaces, DescriptorInv, ResultInv, ResultOf
<1>5. AnswerOf(cur[w], cqres[w], g)
  <2>1. BatonOf(g) /\ TransferOf(g)
    BY DEF DescriptorInv, BatonInv, DeliveryInv, TransferInv
  <2> QED BY <1>1, <1>4, <2>1, ClosedInHand DEF Holding
<1>6. peer[c] = "gone" /\ (c \notin torn => sent[c] - Len(got[c]) < Parts)
  <2> SUFFICES ASSUME c \notin torn
               PROVE  sent[c] - Len(got[c]) < Parts
    BY <1>3, <1>4, <1>5 DEF AnswerOf, Over
  <2>1. Follows(cur[w], c) /\ Over(cur[w], c)
    BY <1>3, <1>4, <1>5 DEF AnswerOf
  <2>2. Len(heap[cur[w]].data) \in Nat /\ Len(got[c]) \in Nat
    BY <1>4, LenProperties DEF Content, DeliveryInv, GotInv
  <2>3. PICK a \in Nat, b \in Nat : a = Len(got[c]) /\ b = Len(heap[cur[w]].data)
    BY <2>2
  <2>4. sent[c] = a + b /\ b < Parts /\ peer[c] = "gone"
    BY <2>1, <2>3 DEF Follows, Continues, Over, Short
  <2>5. (a + b) - a < Parts
    BY <2>4, ReactorAssumption
  <2> QED BY <2>3, <2>4, <2>5
<1>7. c \notin ended /\ \A f \in Fds : told[f] = c => f = g
  <2>1. told[g] # None
    BY <1>3, ReactorAssumption
  <2> QED BY <1>3, <2>1, ToldConn
<1>8. \A f \in Fds : told'[f] = IF f = g THEN None ELSE told[f]
  BY <1>1, <1>3 DEF ReactorInv, OutsideInv
<1>9. \A b \in Conns \ {c} : (\E f \in Fds : told'[f] = b) <=> \E f \in Fds : told[f] = b
  BY <1>3, <1>8, ReactorAssumption
<1>10. ended' = ended \cup {c}
  BY <1>1, <1>3
<1>11. ServesSessions!Closed(c)
  BY <1>1, <1>3, <1>6, <1>7, <1>9, <1>10 DEF ServesSessions!Closed
<1> QED BY <1>11 DEF ServesSessions!Next

(* on_readed delivers one message more, and the peer sent it, or the       *)
(* server loses its place, with two segments of a message that has more.   *)
LEMMA ReadInSession ==
  ASSUME ReactorInv, DescriptorInv, DeliveryInv, ResultKept, NEW w \in Rings, OnReaded(w)
  PROVE  ServesSessions!Next \/ UNCHANGED ServesSessions!vars
<1>1. PICK g \in Fds, c \in Conns :
           /\ Working(w) = g /\ Fd(w) = g /\ file[g] = c /\ told[g] = c
           /\ heap[cur[w]].conn = c /\ heap[cur[w]] \in Content
           /\ c \notin ended /\ prevs' = prevs \ {c}
           /\ AnswerOf(cur[w], cqres[w], g) /\ cqres[w] > 0
  BY ReadedHand
<1>2. UNCHANGED <<peer, sent, told, ended>>
  BY DEF OnReaded, outside
<1>3. \E f \in Fds : told[f] = c
  BY <1>1
<1>4. taken[c] <= sent[c] /\ taken[c] \in Nat /\ sent[c] \in Nat /\ Len(got[c]) \in Nat
  <2>1. got[c] \in Seq(Conns \X Nat)
    BY DEF DeliveryInv, GotInv
  <2>2. Len(got[c]) \in Nat
    BY <2>1, LenProperties
  <2> QED BY <2>2 DEF DescriptorInv, RestInv, ReactorInv, OutsideInv
<1>5. CASE ~Tears(cur[w])
  <2>1. /\ torn' = torn /\ c \notin torn
        /\ Len(got'[c]) = taken[c] /\ Len(got[c]) + Parts = taken[c]
    BY <1>1, <1>5, ReadedWhole
  <2>2. \A b \in Conns \ {c} : got'[b] = got[b]
    BY <1>1, <1>5, ReadedWhole
  <2>3. Len(got'[c]) = Len(got[c]) + Parts /\ Len(got[c]) + Parts <= sent[c]
    BY <1>4, <2>1
  <2>4. [b \in Conns |-> Len(got'[b])]
          = [[b \in Conns |-> Len(got[b])] EXCEPT ![c] = Len(got[c]) + Parts]
    BY <2>2, <2>3
  <2>5. ServesSessions!Received(c)
    BY <1>1, <1>2, <1>3, <2>1, <2>3, <2>4 DEF ServesSessions!Received
  <2> QED BY <2>5 DEF ServesSessions!Next
<1>6. CASE Tears(cur[w])
  <2>1. /\ got' = got /\ torn' = torn \cup {c}
        /\ c \notin torn => Parts > 2 /\ Len(got[c]) + 2 <= taken[c]
    BY <1>1, <1>6, ReadedTorn
  <2>2. CASE c \in torn
    <3>1. SessionsStay
      BY <1>2, <2>1, <2>2 DEF SessionsStay
    <3> QED BY <3>1, StayInSession
  <2>3. CASE c \notin torn
    <3>1. Parts > 2 /\ Len(got[c]) + 2 <= sent[c]
      BY <1>4, <2>1, <2>3
    <3>2. ServesSessions!Torn(c)
      BY <1>1, <1>2, <1>3, <2>1, <2>3, <3>1 DEF ServesSessions!Torn
    <3> QED BY <3>2 DEF ServesSessions!Next
  <2> QED BY <2>2, <2>3
<1> QED BY <1>5, <1>6

(* No connection at first.                                                 *)
LEMMA SessionsInit == Init => ServesSessions!Init
<1> SUFFICES ASSUME Init PROVE ServesSessions!Init
  OBVIOUS
<1>1. /\ peer = [c \in Conns |-> "away"] /\ sent = [c \in Conns |-> 0]
      /\ told = [f \in Fds |-> None] /\ ended = {} /\ torn = {}
      /\ got = [c \in Conns \cup {None} |-> <<>>]
  BY DEF Init
<1>2. \A c \in Conns : peer[c] = "away" /\ Len(got[c]) = 0
  <2>1. Len(<<>>) = 0
    BY EmptySeq
  <2> QED BY <1>1, <2>1
<1>3. \A c \in Conns : c \notin ended /\ ~\E f \in Fds : told[f] = c
  BY <1>1, ReactorAssumption
<1>4. \A c \in Conns : c \notin torn
  BY <1>1
<1> QED BY <1>1, <1>2, <1>3, <1>4 DEF ServesSessions!Init

(* Every step of the rings is a step of Sessions, or none.                 *)
LEMMA SessionsNext ==
  /\ ReactorInv /\ DescriptorInv /\ DeliveryInv /\ ResultKept /\ [Next]_vars
  => [ServesSessions!Next]_(ServesSessions!vars)
<1> SUFFICES ASSUME ReactorInv, DescriptorInv, DeliveryInv, ResultKept, [Next]_vars
             PROVE  ServesSessions!Next \/ UNCHANGED ServesSessions!vars
  OBVIOUS
<1>1. ASSUME NEW c \in Conns, PeerConnect(c) \/ PeerSend(c) \/ PeerClose(c)
      PROVE  ServesSessions!Next
  BY <1>1, PeerInSession
<1>2. ASSUME NEW w \in Rings, Worker(w) \/ WaitFails(w)
      PROVE  ServesSessions!Next \/ UNCHANGED ServesSessions!vars
  <2>1. CASE HandleAccept(w)
    BY <2>1, AcceptInSession
  <2>2. CASE Go(w, "closing", "closed") /\ OnClosed(w)
    BY <2>2, CloseInSession
  <2>3. CASE OnReaded(w)
    BY <2>3, ReadInSession
  <2>4. CASE \/ StartEfd(w) \/ StartAccept(w) \/ AcceptAgain(w) \/ AcceptRead(w)
             \/ ReadAgain(w) \/ ReadRest(w)
    <3>1. SessionsStay
      BY <2>4 DEF SessionsStay, StartEfd, StartAccept, AcceptAgain, AcceptRead, ReadAgain,
                  ReadRest, rest, outside, app
    <3> QED BY <3>1, StayInSession
  <2>5. CASE \/ Ready(w) \/ WaitFails(w) \/ ReapFailure(w) \/ ReapStop(w) \/ Reap(w)
             \/ DispatchRead(w) \/ CloseFd(w) \/ HandleWrite(w) \/ Delete(w) \/ Exit(w)
    <3>1. SessionsStay
      BY <2>5 DEF SessionsStay, Ready, WaitFails, ReapFailure, ReapStop, ReapedStop, Reap,
                  DispatchRead, CloseFd, HandleWrite, OnWrote, Delete, Exit, outside, app
    <3> QED BY <3>1, StayInSession
  <2> QED BY <1>2, <2>1, <2>2, <2>3, <2>4, <2>5 DEF Worker, Accept, HandleClose
<1>3. ASSUME NEW r \in Rings, Complete(r)
      PROVE  UNCHANGED ServesSessions!vars
  <2>1. SessionsStay
    BY <1>3 DEF SessionsStay, Complete, CompleteAccept, CompleteData, CompleteEnd,
                CompleteEfd, CompleteWrite, Post, app
  <2> QED BY <2>1, StayInSession
<1>4. CASE Send \/ Submit \/ Stop \/ OwnerStep \/ UNCHANGED vars
  <2>1. SessionsStay
    BY <1>4 DEF SessionsStay, Send, Submit, Stop, OwnerStep, StartTask, StopSignal, SignalUpTo,
                StopDrained, Destroy, DestroyWait, DestroyFree, vars, outside, app
  <2> QED BY <2>1, StayInSession
<1> QED BY <1>1, <1>2, <1>3, <1>4 DEF Next

(* The callbacks of every connection follow the protocol of Sessions,      *)
(* whatever the order of completions, the rings used and the failures:     *)
(* on_connected once, then the messages in the order they were sent, and   *)
(* on_closed last, after everything the peer sent before it closed.        *)
THEOREM CallbacksInOrder == Spec /\ []ResultKept => SessionsKept
<1>1. Spec => ServesSessions!Init
  BY SessionsInit, PTL DEF Spec
<1>2. Spec /\ []ResultKept
        => [][ServesSessions!Next]_(ServesSessions!vars)
  BY SessionsNext, ReactorInvariant, DescriptorInvariant, DeliveryInvariant, PTL DEF Spec
<1> QED BY <1>1, <1>2, PTL DEF SessionsKept, ServesSessions!Spec

(* Every variable keeps to its values; in particular a worker holds a      *)
(* request in the handlers only, and calls on_readed for a connection the  *)
(* application knows.                                                      *)
THEOREM ReactorTypes == Spec /\ []ResultKept => []TypeOK
<1>1. /\ ReactorInv /\ CountInv /\ DescriptorInv /\ DeliveryInv /\ wrote <= sends
      => TypeOK
  <2> SUFFICES ASSUME ReactorInv, CountInv, DescriptorInv, DeliveryInv, wrote <= sends
               PROVE  TypeOK
    OBVIOUS
  <2>1. RingInv /\ HeapInv /\ OutsideInv /\ OwnerInv /\ RestInv /\ FdInv
    BY DEF ReactorInv, DescriptorInv
  <2>2. ASSUME NEW q \in DOMAIN heap
        PROVE  heap[q].fd \in Fds \cup {ACCEPT_FD} \cup {EFD(r) : r \in Rings}
    <3>1. heap[q].fd = q[2] /\ q[1] \in Kinds
      BY <2>1 DEF HeapInv, Addresses
    <3> QED BY <2>1, <3>1 DEF FdInv, Kinds, CountInv, KindInv
  <2>3. \A c \in Conns : 0 <= taken[c] /\ taken[c] <= sent[c]
    BY <2>1 DEF OutsideInv, RestInv
  <2>4. torn \subseteq Conns
    BY DEF DeliveryInv, GotInv
  <2> QED BY <2>1, <2>2, <2>3, <2>4
          DEF TypeOK, RingInv, OutsideInv, OwnerInv, RestInv
<1> QED BY <1>1, ReactorInvariant, CountInvariant, DescriptorInvariant,
           DeliveryInvariant, ConfirmedOnce, PTL
=============================================================================
