---------------------------- MODULE DescriptorProofs ----------------------------
(***************************************************************************)
(* Theorems of Reactor about descriptors, as long as the kernel writes     *)
(* over no result that a handler still reads (ResultKept): one request or  *)
(* one handler at a time has a descriptor, the baton, and what the         *)
(* application was told of a descriptor is the connection behind it.       *)
(*                                                                         *)
(* That bounds what a completion queue can hold, so that ResultKept itself *)
(* is a theorem as long as the queues have that room (RoomLeft).           *)
(***************************************************************************)
EXTENDS ReactorProofs

(* The descriptors of requests: a read that is not about a connection is   *)
(* about the eventfd of its ring.                                          *)
FdInv ==
  /\ \A q \in DOMAIN heap : q[1] = "accept" => q[2] = ACCEPT_FD
  /\ \A q \in DOMAIN heap : q[1] = "read" =>
       q[2] \in Fds \/ \E r \in Rings : q[2] = EFD(r)
  /\ \A r \in Rings : \A q \in Held(r) :
       q[1] = "read" => q[2] \in Fds \cup {EFD(r)}

(* What the results in the queues and in the hands of the workers can be.  *)
ResultOf(w) ==
  /\ wpc[w] \in AcceptPlaces => cqres[w] \in Fds
  /\ wpc[w] \in ReadPlaces => cur[w][2] \in Fds /\ cqres[w] >= 0
  /\ wpc[w] \in {"closing", "closed"} => cqres[w] = 0
  /\ wpc[w] \in {"data", "read_again"} => cqres[w] > 0

ResultInv ==
  /\ \A r \in Rings : \A i \in DOMAIN cq[r] :
       cq[r][i].req[1] = "accept" => cq[r][i].res \in Fds \cup {-1}
  /\ \A w \in Rings : ResultOf(w)

(* The descriptor an entry of a completion queue is about, and the one a   *)
(* handler works on: an accept, on the descriptor it gave.                 *)
About(e) == IF e.req[1] = "accept" THEN e.res ELSE e.req[2]

Working(w) == IF wpc[w] \in AcceptPlaces THEN cqres[w] ELSE cur[w][2]

(* What has descriptor f: the reads the kernel holds, the entries of a     *)
(* kind, the handlers in some places.                                      *)
Waits(f) == {q \in UNION {inflight[r] : r \in Rings} : q[1] = "read" /\ q[2] = f}

Entries(f, kind) ==
  {u \in UNION {{r} \X DOMAIN cq[r] : r \in Rings} :
     /\ cq[u[1]][u[2]].req[1] = kind
     /\ About(cq[u[1]][u[2]]) = f}

Hands(f, places) == {w \in Rings : wpc[w] \in places /\ Working(w) = f}

(* A handler knows the connection is open but before on_connected, and     *)
(* after on_closed.                                                        *)
Fresh == {"accept", "closed"}
Known == (AcceptPlaces \cup ReadPlaces) \ Fresh

Posted(f)  == Entries(f, "accept") \cup Entries(f, "read")
Handled(f) == Hands(f, Fresh) \cup Hands(f, Known)

Single(S) == \A x, y \in S : x = y

(* The baton of a descriptor is in one place, and only an open one has it. *)
BatonOf(f) ==
  /\ Single(Waits(f)) /\ Single(Posted(f)) /\ Single(Handled(f))
  /\ Waits(f) = {} \/ Posted(f) = {}
  /\ Waits(f) = {} \/ Handled(f) = {}
  /\ Posted(f) = {} \/ Handled(f) = {}
  /\ file[f] = None => Waits(f) = {} /\ Posted(f) = {} /\ Handled(f) = {}

(* The application knows a descriptor from on_connected to on_closed, as   *)
(* the connection behind it.                                               *)
ToldOf(f) ==
  /\ told[f] \in {None, file[f]}
  /\ Entries(f, "accept") # {} \/ Hands(f, Fresh) # {} => told[f] = None
  /\ Waits(f) # {} \/ Entries(f, "read") # {} \/ Hands(f, Known) # {} =>
       told[f] = file[f]

BatonInv == \A f \in Fds : BatonOf(f) /\ ToldOf(f)

(* A message goes to the connection it was given for, before and after it  *)
(* is submitted, as long as that one is open; the read of an eventfd is    *)
(* about no connection.                                                    *)
SentInv ==
  /\ RightWhileOpen
  /\ \A k \in calls : /\ k.fd \in Fds /\ k.conn # None
                     /\ k.conn \in {told[k.fd]} \cup ended
  /\ \A q \in DOMAIN heap :
       q[1] = "read" /\ heap[q].conn # None => q[2] \in Fds

(* The rest of TypeOK.                                                     *)
RestInv ==
  /\ \A c \in Conns : taken[c] <= sent[c]
  /\ \A r \in Rings : Len(cq[r]) <= CqSize
  /\ ended \subseteq Conns
  /\ DOMAIN got = Conns \cup {None} /\ got[None] = <<>>
  /\ status \in 0 .. 2

DescriptorInv ==
  /\ FdInv /\ ResultInv /\ BatonInv /\ SentInv /\ RestInv

(* The accept and the read of an eventfd are in one place of one ring.     *)
Key(q)  == <<q[1], q[2]>>
Accept0 == <<"accept", ACCEPT_FD>>
Efd(r)  == <<"read", EFD(r)>>

Asked(r, key)  == {q \in inflight[r] : Key(q) = key}
Answer(r, key) == {i \in DOMAIN cq[r] : Key(cq[r][i].req) = key}

Armed(r, key) ==
  /\ Single(Asked(r, key)) /\ Single(Answer(r, key))
  /\ Asked(r, key) = {} \/ Answer(r, key) = {}

Unarmed(r, key) == Asked(r, key) = {} /\ Answer(r, key) = {}

Accepting == {"add_accept"} \cup AcceptPlaces

Unasked == {"none", "queued"}
Still   == Unasked \cup {"add_accept", "accept", "accept_again"}

ArmOf(r) ==
  /\ Armed(r, Accept0) /\ Armed(r, Efd(r))
  /\ wpc[r] \in Accepting => r = 0
  /\ wpc[r] \in Unasked => Unarmed(r, Efd(r))
  /\ r # 0 \/ wpc[r] \in Still => Unarmed(r, Accept0)

ArmInv == \A r \in Rings : ArmOf(r)

-----------------------------------------------------------------------------
(* What has a descriptor, before and after a step.                         *)

(* What the rings hold, as far as descriptors are concerned.               *)
LEMMA RingsSame ==
  ASSUME inflight' = inflight, cq' = cq
  PROVE  /\ \A f : Waits(f)' = Waits(f)
         /\ \A f, k : Entries(f, k)' = Entries(f, k)
         /\ \A f : Posted(f)' = Posted(f)
         /\ cur' = cur => \A r \in Rings : Held(r)' = Held(r)
BY DEF Waits, Entries, Posted, About, Held

(* A request is added to a ring.                                           *)
LEMMA WaitsInsert ==
  ASSUME RingInv, NEW sel \in Rings, NEW q,
         inflight' = [inflight EXCEPT ![sel] = @ \cup {q}], cq' = cq
  PROVE  /\ \A f : Waits(f)' = IF q[1] = "read" /\ q[2] = f
                               THEN Waits(f) \cup {q} ELSE Waits(f)
         /\ \A f, k : Entries(f, k)' = Entries(f, k)
         /\ \A f : Posted(f)' = Posted(f)
         /\ cur' = cur => \A r \in Rings :
              Held(r)' = IF r = sel THEN Held(r) \cup {q} ELSE Held(r)
<1>1. \A r \in Rings : inflight'[r] = IF r = sel THEN inflight[r] \cup {q} ELSE inflight[r]
  BY DEF RingInv
<1>2. \A f : Waits(f)' = IF q[1] = "read" /\ q[2] = f
                         THEN Waits(f) \cup {q} ELSE Waits(f)
  BY <1>1 DEF Waits
<1>3. \A f, k : Entries(f, k)' = Entries(f, k)
  BY DEF Entries, About
<1>4. \A f : Posted(f)' = Posted(f)
  BY <1>3 DEF Posted
<1>5. cur' = cur => \A r \in Rings :
        Held(r)' = IF r = sel THEN Held(r) \cup {q} ELSE Held(r)
  BY <1>1 DEF Held
<1> QED BY <1>2, <1>3, <1>4, <1>5

(* A request completed leaves the ring for the end of a queue.             *)
LEMMA WaitsPost ==
  ASSUME RingInv, HoldInv, NEW r \in Rings, NEW q, NEW x \in Int, Post(r, q, x)
  PROVE  /\ \A f : Waits(f)' = Waits(f) \ {q}
         /\ \A f, k : Entries(f, k)' =
              IF q[1] = k /\ f = IF k = "accept" THEN x ELSE q[2]
              THEN Entries(f, k) \cup {<<r, Len(cq[r]) + 1>>}
              ELSE Entries(f, k)
         /\ \A s \in Rings : Held(s)' = Held(s)
<1> DEFINE E == [req : Addresses, res : Int]
           e == [req |-> q, res |-> x]
<1>1. /\ q \in inflight[r] /\ q \in Addresses
      /\ inflight' = [inflight EXCEPT ![r] = @ \ {q}]
      /\ cq' = [cq EXCEPT ![r] = Append(@, e)]
      /\ cur' = cur
  BY DEF Post, workers, RingInv
<1>2. \A s \in Rings : inflight'[s] = IF s = r THEN inflight[s] \ {q} ELSE inflight[s]
  BY <1>1 DEF RingInv
<1>3. \A s \in Rings \ {r} : q \notin inflight[s]
  BY <1>1 DEF HoldInv, Owned
<1>4. \A f : Waits(f)' = Waits(f) \ {q}
  <2>1. UNION {inflight'[s] : s \in Rings}
          = (UNION {inflight[s] : s \in Rings}) \ {q}
    <3>1. \A p : (\E s \in Rings : p \in inflight'[s])
                  <=> (p # q /\ \E s \in Rings : p \in inflight[s])
      BY <1>2, <1>3
    <3> QED BY <3>1
  <2> QED BY <2>1 DEF Waits
<1>5. cq[r] \in Seq(E) /\ e \in E /\ cq'[r] = Append(cq[r], e)
  BY <1>1 DEF RingInv
<1>6. e.req = q /\ e.res = x
  OBVIOUS
<1> HIDE DEF e, E
<1>7. /\ DOMAIN cq[r] = 1 .. Len(cq[r]) /\ Len(cq[r]) \in Nat
      /\ DOMAIN cq'[r] = 1 .. Len(cq[r]) + 1
      /\ \A i \in 1 .. Len(cq[r]) : cq'[r][i] = cq[r][i]
      /\ cq'[r][Len(cq[r]) + 1] = e
  <2>1. Append(cq[r], e) \in Seq(E) /\ Len(Append(cq[r], e)) = Len(cq[r]) + 1
    BY <1>5, AppendProperties
  <2>2. /\ \A i \in 1 .. Len(cq[r]) : Append(cq[r], e)[i] = cq[r][i]
        /\ Append(cq[r], e)[Len(cq[r]) + 1] = e
    BY <1>5, AppendProperties
  <2> QED BY <1>5, <2>1, <2>2, LenProperties
<1>8. \A s \in Rings \ {r} : cq'[s] = cq[s]
  BY <1>1 DEF RingInv
<1>9. DOMAIN cq'[r] = (DOMAIN cq[r]) \cup {Len(cq[r]) + 1}
  BY <1>7
<1>10. ASSUME NEW f, NEW k
       PROVE  Entries(f, k)' =
                IF q[1] = k /\ f = IF k = "accept" THEN x ELSE q[2]
                THEN Entries(f, k) \cup {<<r, Len(cq[r]) + 1>>}
                ELSE Entries(f, k)
  <2> DEFINE In(s, i)  == cq[s][i].req[1] = k /\ About(cq[s][i]) = f
             InN(s, i) == cq'[s][i].req[1] = k /\ About(cq'[s][i]) = f
  <2>1. Entries(f, k) = {u \in UNION {{s} \X DOMAIN cq[s] : s \in Rings} : In(u[1], u[2])}
    BY DEF Entries
  <2>2. Entries(f, k)' = {u \in UNION {{s} \X DOMAIN cq'[s] : s \in Rings} : InN(u[1], u[2])}
    BY DEF Entries, About
  <2>3. \A s \in Rings \ {r} : \A i \in DOMAIN cq[s] : InN(s, i) <=> In(s, i)
    BY <1>8 DEF About
  <2>4. \A i \in DOMAIN cq[r] : InN(r, i) <=> In(r, i)
    BY <1>7 DEF About
  <2>5. InN(r, Len(cq[r]) + 1) <=> q[1] = k /\ f = IF k = "accept" THEN x ELSE q[2]
    BY <1>6, <1>7 DEF About
  <2> HIDE DEF In, InN
  <2>6. \A u : u \in Entries(f, k)' <=>
          \/ u \in Entries(f, k)
          \/ u = <<r, Len(cq[r]) + 1>> /\ InN(r, Len(cq[r]) + 1)
    <3>1. \A u : u \in Entries(f, k) <=>
            \E s \in Rings : \E i \in DOMAIN cq[s] : u = <<s, i>> /\ In(s, i)
      BY <2>1
    <3>2. \A u : u \in Entries(f, k)' <=>
            \E s \in Rings : \E i \in DOMAIN cq'[s] : u = <<s, i>> /\ InN(s, i)
      BY <2>2
    <3> QED BY <1>8, <1>9, <2>3, <2>4, <3>1, <3>2
  <2> QED BY <2>5, <2>6
<1>11. \A s \in Rings : Held(s)' = Held(s)
  <2>1. \A s \in Rings : Held(s) = inflight[s] \cup Queue(s) \cup ({cur[s]} \ {None})
    BY DEF Held, Queue
  <2>2. \A s \in Rings : Held(s)' = inflight'[s] \cup Queue(s)' \cup ({cur'[s]} \ {None})
    BY DEF Held, Queue
  <2>3. Queue(r)' = Queue(r) \cup {q} /\ \A s \in Rings \ {r} : Queue(s)' = Queue(s)
    BY <1>1, QueuePost DEF e
  <2> SUFFICES ASSUME NEW s \in Rings
               PROVE  inflight'[s] \cup Queue(s)' = inflight[s] \cup Queue(s)
    BY <1>1, <2>1, <2>2
  <2>4. CASE s = r
    BY <1>1, <1>2, <2>3, <2>4
  <2>5. CASE s # r
    BY <1>2, <2>3, <2>5
  <2> QED BY <2>4, <2>5
<1> QED BY <1>4, <1>10, <1>11

(* The first entry of a queue is taken, the others move up.                *)
LEMMA EntriesTake ==
  ASSUME RingInv, NEW w \in Rings, cq[w] # <<>>,
         cq' = [cq EXCEPT ![w] = Tail(@)]
  PROVE  /\ \A f, k : /\ <<w, 1>> \in Entries(f, k) <=>
                          /\ Head(cq[w]).req[1] = k
                          /\ About(Head(cq[w])) = f
                      /\ Entries(f, k)' # {} => Entries(f, k) \ {<<w, 1>>} # {}
         /\ \A f : Single(Posted(f)) => Single(Posted(f)')
         /\ \A s \in Rings : {cq'[s][i].req : i \in DOMAIN cq'[s]}
                               \subseteq {cq[s][i].req : i \in DOMAIN cq[s]}
         /\ \A s \in Rings : \A i \in DOMAIN cq'[s] :
              \E j \in DOMAIN cq[s] : cq'[s][i] = cq[s][j]
         /\ \A s \in Rings : Len(cq'[s]) <= Len(cq[s])
         /\ Head(cq[w]) = cq[w][1] /\ 1 \in DOMAIN cq[w]
<1> DEFINE E == [req : Addresses, res : Int]
           n == Len(cq[w])
<1>1. cq[w] \in Seq(E) /\ cq'[w] = Tail(cq[w])
  BY DEF RingInv
<1> HIDE DEF E
<1>2. n \in Nat \ {0}
  BY <1>1, EmptySeq
<1>3. DOMAIN cq[w] = 1 .. n /\ Head(cq[w]) = cq[w][1]
  BY <1>1, <1>2, LenProperties
<1>4. /\ Tail(cq[w]) \in Seq(E) /\ Len(Tail(cq[w])) = n - 1
      /\ \A i \in 1 .. Len(Tail(cq[w])) : Tail(cq[w])[i] = cq[w][i + 1]
  BY <1>1, HeadTailProperties
<1>5. /\ DOMAIN cq'[w] = 1 .. n - 1 /\ Len(cq'[w]) = n - 1
      /\ \A i \in 1 .. n - 1 : cq'[w][i] = cq[w][i + 1]
  BY <1>1, <1>4, LenProperties
<1>6. \A s \in Rings \ {w} : cq'[s] = cq[s]
  BY DEF RingInv
<1> DEFINE old(u) == IF u[1] = w THEN <<w, u[2] + 1>> ELSE u
<1> HIDE DEF n
<1>7. ASSUME NEW f, NEW k, NEW s \in Rings, NEW i \in DOMAIN cq'[s],
             cq'[s][i].req[1] = k, About(cq'[s][i]) = f
      PROVE  /\ <<s, IF s = w THEN i + 1 ELSE i>> \in Entries(f, k)
             /\ s = w => i + 1 # 1
  <2>1. CASE s = w
    <3>1. i + 1 \in DOMAIN cq[w] /\ cq'[s][i] = cq[w][i + 1] /\ i + 1 # 1
      BY <1>2, <1>3, <1>5, <2>1
    <3> QED BY <1>7, <2>1, <3>1 DEF Entries
  <2>2. CASE s # w
    <3>1. cq'[s] = cq[s]
      BY <1>6, <2>2
    <3> QED BY <1>7, <2>2, <3>1 DEF Entries
  <2> QED BY <2>1, <2>2
<1>8. ASSUME NEW f, NEW k, NEW u \in Entries(f, k)'
      PROVE  \E s \in Rings : \E i \in DOMAIN cq'[s] :
               /\ u = <<s, i>> /\ cq'[s][i].req[1] = k /\ About(cq'[s][i]) = f
  BY DEF Entries, About
<1>9. ASSUME NEW f, NEW k
      PROVE  /\ <<w, 1>> \in Entries(f, k) <=>
                  Head(cq[w]).req[1] = k /\ About(Head(cq[w])) = f
             /\ Entries(f, k)' # {} => Entries(f, k) \ {<<w, 1>>} # {}
  <2>1. <<w, 1>> \in Entries(f, k) <=> cq[w][1].req[1] = k /\ About(cq[w][1]) = f
    <3>1. 1 \in DOMAIN cq[w]
      BY <1>2, <1>3
    <3>2. <<w, 1>> \in UNION {{r} \X DOMAIN cq[r] : r \in Rings}
      BY <3>1
    <3> QED BY <3>2 DEF Entries
  <2>2. ASSUME NEW u \in Entries(f, k)'
        PROVE  Entries(f, k) \ {<<w, 1>>} # {}
    <3>1. PICK s \in Rings : \E i \in DOMAIN cq'[s] :
            /\ u = <<s, i>> /\ cq'[s][i].req[1] = k /\ About(cq'[s][i]) = f
      BY <1>8
    <3>2. PICK i \in DOMAIN cq'[s] : cq'[s][i].req[1] = k /\ About(cq'[s][i]) = f
      BY <3>1
    <3>3. /\ <<s, IF s = w THEN i + 1 ELSE i>> \in Entries(f, k)
          /\ s = w => i + 1 # 1
      BY <1>7, <3>2
    <3> QED BY <3>3
  <2> QED BY <1>3, <2>1, <2>2
<1>10. ASSUME NEW f, Single(Posted(f))
       PROVE  Single(Posted(f)')
  <2> SUFFICES ASSUME NEW u \in Posted(f)', NEW v \in Posted(f)'
               PROVE  u = v
    BY DEF Single
  <2>1. ASSUME NEW k, NEW x \in Entries(f, k)', Entries(f, k) \subseteq Posted(f)
        PROVE  \E s \in Rings : \E i \in DOMAIN cq'[s] :
                 x = <<s, i>> /\ <<s, IF s = w THEN i + 1 ELSE i>> \in Posted(f)
    <3>1. PICK s \in Rings : \E i \in DOMAIN cq'[s] :
            /\ x = <<s, i>> /\ cq'[s][i].req[1] = k /\ About(cq'[s][i]) = f
      BY <1>8, <2>1
    <3>2. PICK i \in DOMAIN cq'[s] :
            x = <<s, i>> /\ cq'[s][i].req[1] = k /\ About(cq'[s][i]) = f
      BY <3>1
    <3>3. <<s, IF s = w THEN i + 1 ELSE i>> \in Entries(f, k)
      BY <1>7, <3>2
    <3> QED BY <2>1, <3>2, <3>3
  <2>2. /\ Entries(f, "accept") \subseteq Posted(f) /\ Entries(f, "read") \subseteq Posted(f)
        /\ u \in Entries(f, "accept")' \/ u \in Entries(f, "read")'
        /\ v \in Entries(f, "accept")' \/ v \in Entries(f, "read")'
    BY DEF Posted
  <2>3. PICK s \in Rings : \E i \in DOMAIN cq'[s] :
          u = <<s, i>> /\ <<s, IF s = w THEN i + 1 ELSE i>> \in Posted(f)
    BY <2>1, <2>2
  <2>4. PICK i \in DOMAIN cq'[s] :
          u = <<s, i>> /\ <<s, IF s = w THEN i + 1 ELSE i>> \in Posted(f)
    BY <2>3
  <2>5. PICK t \in Rings : \E j \in DOMAIN cq'[t] :
          v = <<t, j>> /\ <<t, IF t = w THEN j + 1 ELSE j>> \in Posted(f)
    BY <2>1, <2>2
  <2>6. PICK j \in DOMAIN cq'[t] :
          v = <<t, j>> /\ <<t, IF t = w THEN j + 1 ELSE j>> \in Posted(f)
    BY <2>5
  <2>7. <<s, IF s = w THEN i + 1 ELSE i>> = <<t, IF t = w THEN j + 1 ELSE j>>
    BY <1>10, <2>4, <2>6 DEF Single
  <2>8. s = t
    BY <2>7
  <2>9. s = w => i \in Int /\ j \in Int
    BY <1>2, <1>5, <2>8
  <2> QED BY <2>4, <2>6, <2>7, <2>8, <2>9
<1>11. /\ \A s \in Rings : \A i \in DOMAIN cq'[s] :
            \E j \in DOMAIN cq[s] : cq'[s][i] = cq[s][j]
       /\ \A s \in Rings : Len(cq'[s]) <= Len(cq[s])
  <2> SUFFICES ASSUME NEW s \in Rings
               PROVE  /\ \A i \in DOMAIN cq'[s] :
                           \E j \in DOMAIN cq[s] : cq'[s][i] = cq[s][j]
                      /\ Len(cq'[s]) <= Len(cq[s])
    OBVIOUS
  <2>1. CASE s = w
    <3>1. \A i \in DOMAIN cq'[w] : i + 1 \in DOMAIN cq[w] /\ cq'[w][i] = cq[w][i + 1]
      BY <1>2, <1>3, <1>5
    <3>2. Len(cq'[w]) <= Len(cq[w])
      BY <1>2, <1>5 DEF n
    <3> QED BY <2>1, <3>1, <3>2
  <2>2. CASE s # w
    <3>1. cq'[s] = cq[s]
      BY <1>6, <2>2
    <3>2. Len(cq[s]) \in Nat
      BY LenProperties DEF RingInv
    <3> QED BY <3>1, <3>2
  <2> QED BY <2>1, <2>2
<1>12. \A s \in Rings : {cq'[s][i].req : i \in DOMAIN cq'[s]}
                          \subseteq {cq[s][i].req : i \in DOMAIN cq[s]}
  BY <1>11
<1>13. Head(cq[w]) = cq[w][1] /\ 1 \in DOMAIN cq[w]
  BY <1>2, <1>3
<1> QED BY <1>9, <1>10, <1>11, <1>12, <1>13

(* Only worker w moves.                                                    *)
LEMMA HandsMove ==
  ASSUME NEW w \in Rings,
         \A v \in Rings \ {w} : wpc'[v] = wpc[v] /\ cur'[v] = cur[v]
                                /\ cqres'[v] = cqres[v]
  PROVE  \A f, P :
           /\ Hands(f, P)' \ {w} = Hands(f, P) \ {w}
           /\ w \in Hands(f, P)' <=> wpc'[w] \in P /\ Working(w)' = f
           /\ w \in Hands(f, P) <=> wpc[w] \in P /\ Working(w) = f
BY DEF Hands, Working

(* A step that gives nobody a descriptor.                                  *)
LEMMA BatonKeep ==
  ASSUME NEW f \in Fds, BatonOf(f), ToldOf(f),
         file'[f] = file[f], told'[f] = told[f],
         Waits(f)' \subseteq Waits(f),
         Single(Posted(f)) => Single(Posted(f)'),
         \A k \in {"accept", "read"} : Entries(f, k)' # {} => Entries(f, k) # {},
         Hands(f, Fresh)' \subseteq Hands(f, Fresh),
         Hands(f, Known)' \subseteq Hands(f, Known)
  PROVE  BatonOf(f)' /\ ToldOf(f)'
<1>1. /\ Posted(f)' = Entries(f, "accept")' \cup Entries(f, "read")'
      /\ Handled(f)' = Hands(f, Fresh)' \cup Hands(f, Known)'
  BY DEF Posted, Handled, Fresh, Known, AcceptPlaces, ReadPlaces
<1>2. Posted(f)' # {} => Posted(f) # {}
  BY <1>1 DEF Posted
<1>3. Handled(f)' \subseteq Handled(f)
  BY <1>1 DEF Handled
<1>4. Single(Waits(f)') /\ Single(Handled(f)')
  BY <1>3 DEF BatonOf, Single
<1>5. BatonOf(f)'
  BY <1>2, <1>3, <1>4 DEF BatonOf, Single
<1>6. ToldOf(f)'
  BY DEF ToldOf, Fresh, Known, AcceptPlaces, ReadPlaces
<1> QED BY <1>5, <1>6

(* The places in which a worker has a descriptor.                          *)
Busy == AcceptPlaces \cup ReadPlaces

(* A worker comes by no descriptor, and learns nothing of the one it has.  *)
HandKeeps(v) ==
  wpc'[v] \in Busy =>
    /\ wpc[v] \in Busy /\ Working(v)' = Working(v)
    /\ wpc'[v] \in Fresh <=> wpc[v] \in Fresh

(* Then no descriptor comes into new hands.                                *)
LEMMA HandsKeep ==
  ASSUME \A v \in Rings : HandKeeps(v)
  PROVE  \A f : /\ Hands(f, Fresh)' \subseteq Hands(f, Fresh)
                /\ Hands(f, Known)' \subseteq Hands(f, Known)
<1>1. Fresh \subseteq Busy /\ Known = Busy \ Fresh
  BY DEF Fresh, Known, Busy, AcceptPlaces, ReadPlaces
<1> QED BY <1>1 DEF Hands, HandKeeps

(* Neither a ring nor a descriptor changes.                                *)
LEMMA BatonSteady ==
  ASSUME BatonInv, UNCHANGED <<inflight, cq, file, told>>,
         \A v \in Rings : HandKeeps(v)
  PROVE  BatonInv'
<1> SUFFICES ASSUME NEW f \in Fds
             PROVE  BatonOf(f)' /\ ToldOf(f)'
  BY DEF BatonInv
<1>1. Waits(f)' = Waits(f) /\ Posted(f)' = Posted(f)
      /\ \A k : Entries(f, k)' = Entries(f, k)
  BY RingsSame
<1>2. BatonOf(f) /\ ToldOf(f)
  BY DEF BatonInv
<1>3. Hands(f, Fresh)' \subseteq Hands(f, Fresh) /\ Hands(f, Known)' \subseteq Hands(f, Known)
  BY HandsKeep
<1> QED BY <1>1, <1>2, <1>3, BatonKeep

(* A request is added that reads no connection.                            *)
LEMMA BatonInsert ==
  ASSUME RingInv, BatonInv, NEW sel \in Rings, NEW q,
         inflight' = [inflight EXCEPT ![sel] = @ \cup {q}], cq' = cq,
         q[1] = "read" => q[2] \notin Fds,
         UNCHANGED <<file, told>>, \A v \in Rings : HandKeeps(v)
  PROVE  BatonInv'
<1> SUFFICES ASSUME NEW f \in Fds
             PROVE  BatonOf(f)' /\ ToldOf(f)'
  BY DEF BatonInv
<1>1. Waits(f)' = Waits(f) /\ Posted(f)' = Posted(f)
      /\ \A k : Entries(f, k)' = Entries(f, k)
  BY WaitsInsert
<1>2. BatonOf(f) /\ ToldOf(f)
  BY DEF BatonInv
<1>3. Hands(f, Fresh)' \subseteq Hands(f, Fresh) /\ Hands(f, Known)' \subseteq Hands(f, Known)
  BY HandsKeep
<1> QED BY <1>1, <1>2, <1>3, BatonKeep

(* A handler passes the descriptor it works on to a request that reads it. *)
LEMMA BatonPass ==
  ASSUME RingInv, BatonInv, NEW sel \in Rings, NEW q,
         inflight' = [inflight EXCEPT ![sel] = @ \cup {q}], cq' = cq,
         UNCHANGED <<file, told, cur, cqres>>,
         NEW w \in Rings, wpc[w] \in Known, Working(w) = q[2], q[1] = "read",
         wpc'[w] = "delete", \A v \in Rings \ {w} : wpc'[v] = wpc[v]
  PROVE  BatonInv'
<1> SUFFICES ASSUME NEW f \in Fds
             PROVE  BatonOf(f)' /\ ToldOf(f)'
  BY DEF BatonInv
<1>1. Waits(f)' = IF q[2] = f THEN Waits(f) \cup {q} ELSE Waits(f)
  BY WaitsInsert
<1>2. Posted(f)' = Posted(f) /\ \A k : Entries(f, k)' = Entries(f, k)
  BY WaitsInsert
<1>3. BatonOf(f) /\ ToldOf(f)
  BY DEF BatonInv
<1>4. \A v \in Rings : HandKeeps(v)
  BY DEF HandKeeps, Busy, AcceptPlaces, ReadPlaces, Working
<1>5. Hands(f, Fresh)' \subseteq Hands(f, Fresh) /\ Hands(f, Known)' \subseteq Hands(f, Known)
  BY <1>4, HandsKeep
<1>6. CASE q[2] # f
  BY <1>1, <1>2, <1>3, <1>5, <1>6, BatonKeep
<1>7. CASE q[2] = f
  <2>1. w \in Hands(f, Known) /\ w \in Handled(f)
    BY <1>7 DEF Hands, Handled
  <2>2. Waits(f) = {} /\ Posted(f) = {} /\ Handled(f) = {w} /\ file[f] # None
    BY <1>3, <2>1 DEF BatonOf, Single
  <2>3. w \notin Hands(f, Fresh)' /\ w \notin Hands(f, Known)'
    BY DEF Hands, Fresh, Known, AcceptPlaces, ReadPlaces
  <2>4. Hands(f, Fresh)' = {} /\ Hands(f, Known)' = {}
    BY <1>5, <2>2, <2>3 DEF Handled
  <2>5. Handled(f)' = Hands(f, Fresh)' \cup Hands(f, Known)'
    BY DEF Handled, Fresh, Known, AcceptPlaces, ReadPlaces
  <2>6. Entries(f, "accept")' = {} /\ Entries(f, "read")' = {} /\ Posted(f)' = {}
    BY <1>2, <2>2 DEF Posted
  <2>7. Waits(f)' = {q} /\ Handled(f)' = {}
    BY <1>1, <1>7, <2>2, <2>4, <2>5
  <2>8. told[f] = file[f]
    BY <1>3, <2>1 DEF ToldOf
  <2>9. BatonOf(f)'
    BY <2>2, <2>6, <2>7 DEF BatonOf, Single
  <2>10. ToldOf(f)'
    BY <2>4, <2>6, <2>8 DEF ToldOf, Fresh, Known, AcceptPlaces, ReadPlaces
  <2> QED BY <2>9, <2>10
<1> QED BY <1>6, <1>7

(* A request completes: a read keeps its descriptor.                       *)
LEMMA BatonPost ==
  ASSUME RingInv, HoldInv, BatonInv, NEW r \in Rings, NEW q, NEW x \in Int,
         Post(r, q, x), file' = file, q[1] = "accept" => x \notin Fds
  PROVE  BatonInv'
<1> SUFFICES ASSUME NEW f \in Fds
             PROVE  BatonOf(f)' /\ ToldOf(f)'
  BY DEF BatonInv
<1>1. Waits(f)' = Waits(f) \ {q}
  BY WaitsPost
<1>2. \A k : Entries(f, k)' =
              IF q[1] = k /\ f = IF k = "accept" THEN x ELSE q[2]
              THEN Entries(f, k) \cup {<<r, Len(cq[r]) + 1>>}
              ELSE Entries(f, k)
  BY WaitsPost
<1>3. BatonOf(f) /\ ToldOf(f)
  BY DEF BatonInv
<1>4. UNCHANGED <<told, wpc, cur, cqres>> /\ q \in inflight[r]
  BY DEF Post, workers, app
<1>5. Hands(f, Fresh)' = Hands(f, Fresh) /\ Hands(f, Known)' = Hands(f, Known)
  BY <1>4 DEF Hands, Working, Fresh, Known, AcceptPlaces, ReadPlaces
<1>6. Entries(f, "accept")' = Entries(f, "accept")
  BY <1>2
<1>7. Posted(f)' = Entries(f, "accept")' \cup Entries(f, "read")'
  BY DEF Posted
<1>8. CASE ~(q[1] = "read" /\ q[2] = f)
  <2>1. Entries(f, "read")' = Entries(f, "read")
    BY <1>2, <1>8
  <2>2. Posted(f)' = Posted(f)
    BY <1>6, <1>7, <2>1 DEF Posted
  <2> QED BY <1>1, <1>3, <1>4, <1>5, <1>6, <2>1, <2>2, BatonKeep
<1>9. CASE q[1] = "read" /\ q[2] = f
  <2>1. q \in Waits(f)
    BY <1>4, <1>9 DEF Waits
  <2>2. Waits(f) = {q} /\ Posted(f) = {} /\ Handled(f) = {} /\ file[f] # None
    BY <1>3, <2>1 DEF BatonOf, Single
  <2>3. Waits(f)' = {} /\ Entries(f, "accept")' = {} /\ Single(Posted(f)')
    BY <1>1, <1>2, <1>6, <1>7, <2>2 DEF Posted, Single
  <2>4. Hands(f, Fresh)' = {} /\ Hands(f, Known)' = {} /\ Handled(f)' = {}
    BY <1>5, <2>2 DEF Handled, Fresh, Known, AcceptPlaces, ReadPlaces
  <2>5. told[f] = file[f]
    BY <1>3, <2>1 DEF ToldOf
  <2>6. BatonOf(f)'
    BY <2>2, <2>3, <2>4 DEF BatonOf, Single
  <2>7. ToldOf(f)'
    BY <1>4, <2>3, <2>4, <2>5 DEF ToldOf, Fresh, Known, AcceptPlaces, ReadPlaces
  <2> QED BY <2>6, <2>7
<1> QED BY <1>8, <1>9

(* A connection is accepted on a descriptor nobody has.                    *)
LEMMA BatonAccepted ==
  ASSUME RingInv, HoldInv, OutsideInv, BatonInv, NEW r \in Rings, NEW q, NEW g \in Fds,
         Post(r, q, g), q[1] = "accept", file[g] = None, NEW c \in Conns,
         file' = [file EXCEPT ![g] = c], g \in Int
  PROVE  BatonInv'
<1> SUFFICES ASSUME NEW f \in Fds
             PROVE  BatonOf(f)' /\ ToldOf(f)'
  BY DEF BatonInv
<1>1. Waits(f)' = Waits(f) \ {q}
  BY WaitsPost
<1>2. \A k : Entries(f, k)' =
              IF q[1] = k /\ f = IF k = "accept" THEN g ELSE q[2]
              THEN Entries(f, k) \cup {<<r, Len(cq[r]) + 1>>}
              ELSE Entries(f, k)
  BY WaitsPost
<1>3. BatonOf(f) /\ ToldOf(f)
  BY DEF BatonInv
<1>4. UNCHANGED <<told, wpc, cur, cqres>> /\ q \in inflight[r]
  BY DEF Post, workers, app
<1>5. Hands(f, Fresh)' = Hands(f, Fresh) /\ Hands(f, Known)' = Hands(f, Known)
  BY <1>4 DEF Hands, Working, Fresh, Known, AcceptPlaces, ReadPlaces
<1>6. Entries(f, "read")' = Entries(f, "read")
  BY <1>2
<1>7. Posted(f)' = Entries(f, "accept")' \cup Entries(f, "read")'
  BY DEF Posted
<1>8. CASE f # g
  <2>1. Entries(f, "accept")' = Entries(f, "accept")
    BY <1>2, <1>8
  <2>2. Posted(f)' = Posted(f)
    BY <1>6, <1>7, <2>1 DEF Posted
  <2>3. file'[f] = file[f]
    BY <1>8 DEF OutsideInv
  <2> QED BY <1>1, <1>3, <1>4, <1>5, <1>6, <2>1, <2>2, <2>3, BatonKeep
<1>9. CASE f = g
  <2>1. Waits(f) = {} /\ Posted(f) = {} /\ Handled(f) = {} /\ told[f] = None
    BY <1>3, <1>9 DEF BatonOf, ToldOf
  <2>2. Waits(f)' = {} /\ Entries(f, "read")' = {} /\ Single(Posted(f)')
    BY <1>1, <1>2, <1>6, <1>7, <2>1 DEF Posted, Single
  <2>3. Hands(f, Fresh)' = {} /\ Hands(f, Known)' = {} /\ Handled(f)' = {}
    BY <1>5, <2>1 DEF Handled, Fresh, Known, AcceptPlaces, ReadPlaces
  <2>4. file'[f] = c /\ c # None
    BY <1>9, ReactorAssumption DEF OutsideInv
  <2>5. BatonOf(f)'
    BY <2>2, <2>3, <2>4 DEF BatonOf, Single
  <2>6. ToldOf(f)'
    BY <1>4, <2>1, <2>2, <2>3 DEF ToldOf, Fresh, Known, AcceptPlaces, ReadPlaces
  <2> QED BY <2>5, <2>6
<1> QED BY <1>8, <1>9

(* A worker takes the first entry of its queue, and what it is about.      *)
LEMMA BatonTaken ==
  ASSUME RingInv, BatonInv, NEW w \in Rings, wpc[w] = "wait", cq[w] # <<>>,
         cq' = [cq EXCEPT ![w] = Tail(@)], UNCHANGED <<inflight, file, told>>,
         NEW e, e = Head(cq[w]), e.req[1] \in Kinds,
         wpc' = [wpc EXCEPT ![w] = e.req[1]], cur' = [cur EXCEPT ![w] = e.req],
         cqres' = [cqres EXCEPT ![w] = e.res]
  PROVE  BatonInv'
<1> SUFFICES ASSUME NEW f \in Fds
             PROVE  BatonOf(f)' /\ ToldOf(f)'
  BY DEF BatonInv
<1>1. BatonOf(f) /\ ToldOf(f)
  BY DEF BatonInv
<1>2. /\ \A k : <<w, 1>> \in Entries(f, k) <=> (e.req[1] = k /\ About(e) = f)
      /\ \A k : Entries(f, k)' # {} => Entries(f, k) \ {<<w, 1>>} # {}
      /\ Single(Posted(f)) => Single(Posted(f)')
  BY ZenonT(30), EntriesTake
<1>3. Waits(f)' = Waits(f)
  BY DEF Waits
<1>4. /\ wpc'[w] = e.req[1] /\ cur'[w] = e.req /\ cqres'[w] = e.res
      /\ \A v \in Rings \ {w} : wpc'[v] = wpc[v] /\ cur'[v] = cur[v]
                                /\ cqres'[v] = cqres[v]
  BY DEF RingInv
<1>5. \A P : /\ Hands(f, P)' \ {w} = Hands(f, P) \ {w}
             /\ w \in Hands(f, P)' <=> wpc'[w] \in P /\ Working(w)' = f
             /\ w \in Hands(f, P) <=> wpc[w] \in P /\ Working(w) = f
  BY <1>4, HandsMove
<1>6. e.req[1] \in {"accept", "read"} => Working(w)' = About(e)
  BY <1>4 DEF Working, About, AcceptPlaces
<1>7. /\ e.req[1] \in Fresh <=> e.req[1] = "accept"
      /\ e.req[1] \in Known <=> e.req[1] = "read"
  BY DEF Fresh, Known, AcceptPlaces, ReadPlaces, Kinds
<1>8. /\ Hands(f, Fresh)' \subseteq Hands(f, Fresh) \cup {w}
      /\ Hands(f, Known)' \subseteq Hands(f, Known) \cup {w}
      /\ w \in Hands(f, Fresh)' <=> e.req[1] = "accept" /\ About(e) = f
      /\ w \in Hands(f, Known)' <=> e.req[1] = "read" /\ About(e) = f
  <2>1. Hands(f, Fresh)' \subseteq Hands(f, Fresh) \cup {w}
    <3>1. Hands(f, Fresh)' \ {w} = Hands(f, Fresh) \ {w}
      BY <1>5 DEF Fresh
    <3> QED BY <3>1
  <2>2. Hands(f, Known)' \subseteq Hands(f, Known) \cup {w}
    <3>1. Hands(f, Known)' \ {w} = Hands(f, Known) \ {w}
      BY <1>5 DEF Known, Fresh, AcceptPlaces, ReadPlaces
    <3> QED BY <3>1
  <2>3. w \in Hands(f, Fresh)' <=> wpc'[w] \in Fresh /\ Working(w)' = f
    BY <1>5 DEF Fresh
  <2>4. w \in Hands(f, Known)' <=> wpc'[w] \in Known /\ Working(w)' = f
    BY <1>5 DEF Known, Fresh, AcceptPlaces, ReadPlaces
  <2> QED BY <1>4, <1>6, <1>7, <2>1, <2>2, <2>3, <2>4
<1>9. CASE ~(e.req[1] \in {"accept", "read"} /\ About(e) = f)
  <2>1. Hands(f, Fresh)' \subseteq Hands(f, Fresh) /\ Hands(f, Known)' \subseteq Hands(f, Known)
    BY <1>8, <1>9
  <2>2. \A k \in {"accept", "read"} : Entries(f, k)' # {} => Entries(f, k) # {}
    <3>1. \A k : Entries(f, k)' # {} => Entries(f, k) \ {<<w, 1>>} # {}
      BY <1>2
    <3>2. \A k : Entries(f, k)' # {} => Entries(f, k) # {}
      BY <3>1
    <3> QED BY <3>2
  <2> QED BY <1>1, <1>2, <1>3, <2>1, <2>2, BatonKeep
<1>10. CASE e.req[1] \in {"accept", "read"} /\ About(e) = f
  <2>1. <<w, 1>> \in Entries(f, e.req[1]) /\ <<w, 1>> \in Posted(f)
    <3>1. \A k : <<w, 1>> \in Entries(f, k) <=> e.req[1] = k /\ About(e) = f
      BY <1>2
    <3>2. <<w, 1>> \in Entries(f, e.req[1])
      BY <1>10, <3>1
    <3> QED BY <1>10, <3>2 DEF Posted
  <2>2. /\ Waits(f) = {} /\ Posted(f) = {<<w, 1>>} /\ Handled(f) = {}
        /\ file[f] # None
    BY <1>1, <2>1 DEF BatonOf, Single
  <2>3. Entries(f, "accept")' = {} /\ Entries(f, "read")' = {} /\ Posted(f)' = {}
    <3>1. Entries(f, "accept") \subseteq {<<w, 1>>} /\ Entries(f, "read") \subseteq {<<w, 1>>}
      BY <2>2 DEF Posted
    <3>2. \A k : Entries(f, k)' # {} => Entries(f, k) \ {<<w, 1>>} # {}
      BY <1>2
    <3>3. Entries(f, "accept")' = {} /\ Entries(f, "read")' = {}
      BY <3>1, <3>2
    <3> QED BY <3>3 DEF Posted
  <2>4. Hands(f, Fresh) = {} /\ Hands(f, Known) = {}
    BY <2>2 DEF Handled
  <2>5. Handled(f)' = Hands(f, Fresh)' \cup Hands(f, Known)'
    BY DEF Handled, Fresh, Known, AcceptPlaces, ReadPlaces
  <2>6. BatonOf(f)'
    BY <1>3, <1>8, <2>2, <2>3, <2>4, <2>5 DEF BatonOf, Single
  <2>7. CASE e.req[1] = "accept"
    <3>1. told[f] = None /\ Hands(f, Known)' = {}
      BY <1>1, <1>8, <2>1, <2>4, <2>7 DEF ToldOf
    <3> QED BY <1>3, <2>2, <2>3, <2>6, <3>1 DEF ToldOf, Known, Fresh, AcceptPlaces, ReadPlaces
  <2>8. CASE e.req[1] = "read"
    <3>1. told[f] = file[f] /\ Hands(f, Fresh)' = {}
      BY <1>1, <1>8, <2>1, <2>4, <2>8 DEF ToldOf
    <3> QED BY <1>3, <2>2, <2>3, <2>6, <3>1 DEF ToldOf, Known, Fresh, AcceptPlaces, ReadPlaces
  <2> QED BY <1>10, <2>7, <2>8
<1> QED BY <1>9, <1>10

(* on_connected and on_closed: the worker goes on with the descriptor, and *)
(* the application is told what there is to know of it now.                *)
LEMMA BatonTurn ==
  ASSUME OutsideInv, BatonInv, UNCHANGED <<inflight, cq, file>>,
         NEW w \in Rings, wpc[w] \in Busy, wpc'[w] \in Busy, Working(w)' = Working(w),
         Working(w) \in Fds,
         \A v \in Rings \ {w} : wpc'[v] = wpc[v] /\ cur'[v] = cur[v]
                                /\ cqres'[v] = cqres[v],
         NEW t, told' = [told EXCEPT ![Working(w)] = t],
         wpc'[w] \in Fresh => t = None,
         wpc'[w] \in Known => t = file[Working(w)]
  PROVE  BatonInv'
<1> SUFFICES ASSUME NEW f \in Fds
             PROVE  BatonOf(f)' /\ ToldOf(f)'
  BY DEF BatonInv
<1>1. BatonOf(f) /\ ToldOf(f)
  BY DEF BatonInv
<1>2. Waits(f)' = Waits(f) /\ Posted(f)' = Posted(f)
      /\ \A k : Entries(f, k)' = Entries(f, k)
  BY RingsSame
<1>3. \A P : /\ Hands(f, P)' \ {w} = Hands(f, P) \ {w}
             /\ w \in Hands(f, P)' <=> wpc'[w] \in P /\ Working(w)' = f
             /\ w \in Hands(f, P) <=> wpc[w] \in P /\ Working(w) = f
  BY HandsMove
<1>4. /\ Hands(f, Fresh)' \ {w} = Hands(f, Fresh) \ {w}
      /\ w \in Hands(f, Fresh)' <=> wpc'[w] \in Fresh /\ Working(w)' = f
  BY <1>3 DEF Fresh
<1>5. /\ Hands(f, Known)' \ {w} = Hands(f, Known) \ {w}
      /\ w \in Hands(f, Known)' <=> wpc'[w] \in Known /\ Working(w)' = f
  BY <1>3 DEF Known, Fresh, AcceptPlaces, ReadPlaces
<1>6. Handled(f)' = Hands(f, Fresh)' \cup Hands(f, Known)'
  BY DEF Handled, Fresh, Known, AcceptPlaces, ReadPlaces
<1>7. Busy = Fresh \cup Known /\ Fresh \cap Known = {}
  BY DEF Busy, Fresh, Known, AcceptPlaces, ReadPlaces
<1>8. CASE Working(w) # f
  <2>1. w \notin Hands(f, Fresh)' /\ w \notin Hands(f, Known)'
    BY <1>4, <1>5, <1>8
  <2>2. Hands(f, Fresh)' \subseteq Hands(f, Fresh) /\ Hands(f, Known)' \subseteq Hands(f, Known)
    BY <1>4, <1>5, <2>1
  <2>3. told'[f] = told[f]
    BY <1>8 DEF OutsideInv
  <2> QED BY <1>1, <1>2, <2>2, <2>3, BatonKeep
<1>9. CASE Working(w) = f
  <2>1. w \in Handled(f)
    BY <1>3, <1>7, <1>9 DEF Handled
  <2>2. Waits(f) = {} /\ Posted(f) = {} /\ Handled(f) = {w} /\ file[f] # None
    BY <1>1, <2>1 DEF BatonOf, Single
  <2>3. Hands(f, Fresh) \subseteq {w} /\ Hands(f, Known) \subseteq {w}
    BY <2>2 DEF Handled
  <2>4. Hands(f, Fresh)' \subseteq {w} /\ Hands(f, Known)' \subseteq {w}
    BY <1>4, <1>5, <2>3
  <2>5. Entries(f, "accept")' = {} /\ Entries(f, "read")' = {}
    BY <1>2, <2>2 DEF Posted
  <2>6. BatonOf(f)'
    BY <1>2, <1>6, <2>2, <2>4 DEF BatonOf, Single
  <2>7. told'[f] = t
    BY <1>9 DEF OutsideInv
  <2>8. CASE wpc'[w] \in Fresh
    <3>1. t = None /\ Hands(f, Known)' = {}
      BY <1>5, <1>7, <2>4, <2>8
    <3> QED BY <1>2, <2>2, <2>5, <2>6, <2>7, <3>1
            DEF ToldOf, Known, Fresh, AcceptPlaces, ReadPlaces
  <2>9. CASE wpc'[w] \in Known
    <3>1. t = file[f] /\ Hands(f, Fresh)' = {}
      BY <1>4, <1>7, <1>9, <2>4, <2>9
    <3> QED BY <1>2, <2>2, <2>5, <2>6, <2>7, <3>1
            DEF ToldOf, Known, Fresh, AcceptPlaces, ReadPlaces
  <2> QED BY <1>7, <2>8, <2>9
<1> QED BY <1>8, <1>9

(* close(): the descriptor is free, and nobody has it.                     *)
LEMMA BatonClosed ==
  ASSUME OutsideInv, BatonInv, UNCHANGED <<inflight, cq, told, cur, cqres>>,
         NEW w \in Rings, wpc[w] = "closed", wpc'[w] = "delete",
         Working(w) \in Fds, \A v \in Rings \ {w} : wpc'[v] = wpc[v],
         file' = [file EXCEPT ![Working(w)] = None]
  PROVE  BatonInv'
<1> SUFFICES ASSUME NEW f \in Fds
             PROVE  BatonOf(f)' /\ ToldOf(f)'
  BY DEF BatonInv
<1>1. BatonOf(f) /\ ToldOf(f)
  BY DEF BatonInv
<1>2. Waits(f)' = Waits(f) /\ Posted(f)' = Posted(f)
      /\ \A k : Entries(f, k)' = Entries(f, k)
  BY RingsSame
<1>3. \A v \in Rings : HandKeeps(v)
  BY DEF HandKeeps, Busy, AcceptPlaces, ReadPlaces, Working
<1>4. Hands(f, Fresh)' \subseteq Hands(f, Fresh) /\ Hands(f, Known)' \subseteq Hands(f, Known)
  BY <1>3, HandsKeep
<1>5. CASE Working(w) # f
  <2>1. file'[f] = file[f]
    BY <1>5 DEF OutsideInv
  <2> QED BY <1>1, <1>2, <1>4, <2>1, BatonKeep
<1>6. CASE Working(w) = f
  <2>1. w \in Hands(f, Fresh) /\ w \in Handled(f)
    BY <1>6 DEF Hands, Handled, Fresh
  <2>2. Waits(f) = {} /\ Posted(f) = {} /\ Handled(f) = {w} /\ told[f] = None
    BY <1>1, <2>1 DEF BatonOf, ToldOf, Single
  <2>3. w \notin Hands(f, Fresh)' /\ w \notin Hands(f, Known)'
    BY DEF Hands, Fresh, Known, AcceptPlaces, ReadPlaces
  <2>4. Hands(f, Fresh)' = {} /\ Hands(f, Known)' = {}
    BY <1>4, <2>2, <2>3 DEF Handled
  <2>5. Handled(f)' = {}
    BY <2>4 DEF Handled, Fresh, Known, AcceptPlaces, ReadPlaces
  <2>6. Entries(f, "accept")' = {} /\ Entries(f, "read")' = {}
    BY <1>2, <2>2 DEF Posted
  <2>7. BatonOf(f)'
    BY <1>2, <2>2, <2>5 DEF BatonOf, Single
  <2>8. ToldOf(f)'
    BY <1>2, <2>2, <2>4, <2>6 DEF ToldOf, Known, Fresh, AcceptPlaces, ReadPlaces
  <2> QED BY <2>7, <2>8
<1> QED BY <1>5, <1>6

-----------------------------------------------------------------------------
(* The baton, step by step.                                                *)

(* The request in the hands of a worker is allocated, and Fd and Result    *)
(* are those of the request.                                               *)
LEMMA InHand ==
  ASSUME ReactorInv, ResultKept, NEW w \in Rings, wpc[w] \in Handling
  PROVE  /\ cur[w] \in DOMAIN heap /\ cur[w] \in Held(w) /\ cur[w] \in Addresses
         /\ Fd(w) = cur[w][2] /\ heap[cur[w]].type = cur[w][1]
         /\ heap[cur[w]] \in Content /\ Result(w) = cqres[w]
<1>1. cur[w] # None /\ cur[w] \in Addresses
  BY DEF ReactorInv, RingInv
<1>2. cur[w] \in DOMAIN heap /\ cur[w] \in Held(w)
  BY <1>1 DEF ReactorInv, HoldInv, Owned, Held
<1>3. heap[cur[w]].fd = cur[w][2] /\ heap[cur[w]].type = cur[w][1]
      /\ heap[cur[w]] \in Content
  BY <1>2 DEF ReactorInv, HeapInv
<1> QED BY <1>1, <1>2, <1>3 DEF Fd, ResultKept

(* A worker that goes elsewhere leaves the others where they are.          *)
LEMMA GoKeeps ==
  ASSUME RingInv, NEW w \in Rings, NEW from, NEW to, Go(w, from, to),
         UNCHANGED <<cur, cqres>>,
         to \notin Busy \/
           /\ from \in Busy /\ (from \in AcceptPlaces <=> to \in AcceptPlaces)
           /\ to \in Fresh <=> from \in Fresh
  PROVE  \A v \in Rings : HandKeeps(v)
<1>1. wpc[w] = from /\ wpc'[w] = to /\ \A v \in Rings \ {w} : wpc'[v] = wpc[v]
  BY DEF Go, RingInv
<1>2. Working(w)' = IF to \in AcceptPlaces THEN cqres[w] ELSE cur[w][2]
  BY <1>1 DEF Working, AcceptPlaces
<1>3. Working(w) = IF from \in AcceptPlaces THEN cqres[w] ELSE cur[w][2]
  BY <1>1 DEF Working
<1>4. HandKeeps(w)
  BY <1>1, <1>2, <1>3 DEF HandKeeps
<1>5. ASSUME NEW v \in Rings \ {w}
      PROVE  HandKeeps(v)
  <2>1. wpc'[v] = wpc[v] /\ Working(v)' = Working(v)
    BY <1>1 DEF Working, AcceptPlaces
  <2> QED BY <2>1 DEF HandKeeps
<1> QED BY <1>4, <1>5

(* The handlers: only on_connected, on_closed and close() do something to  *)
(* a descriptor.                                                           *)
LEMMA BatonHandlers ==
  ASSUME ReactorInv, ResultInv, BatonInv, ResultKept, NEW w \in Rings, HandlerStep(w)
  PROVE  BatonInv'
<1>1. RingInv /\ OutsideInv
  BY DEF ReactorInv
<1>2. ASSUME NEW from, NEW to, Go(w, from, to), UNCHANGED <<cur, cqres, file, told>>,
             UNCHANGED <<inflight, cq>>,
             to \notin Busy \/
               /\ from \in Busy /\ (from \in AcceptPlaces <=> to \in AcceptPlaces)
               /\ to \in Fresh <=> from \in Fresh
      PROVE  BatonInv'
  BY <1>1, <1>2, GoKeeps, BatonSteady
<1>3. ASSUME NEW from, NEW to, Go(w, from, to), UNCHANGED <<cur, cqres>>
      PROVE  /\ wpc[w] = from /\ wpc'[w] = to
             /\ \A v \in Rings \ {w} : wpc'[v] = wpc[v] /\ cur'[v] = cur[v]
                                       /\ cqres'[v] = cqres[v]
  BY <1>1, <1>3 DEF Go, RingInv
<1>4. CASE Ready(w) \/ HandleWrite(w) \/ Exit(w)
  <2>1. PICK from, to : Go(w, from, to) /\ to \in {"wait", "delete", "done"}
    BY <1>4 DEF Ready, HandleWrite, Exit
  <2>2. UNCHANGED <<cur, cqres, file, told, inflight, cq>>
    BY <1>4 DEF Ready, HandleWrite, OnWrote, Exit, outside, ringv, app
  <2> QED BY <1>2, <2>1, <2>2 DEF Busy, AcceptPlaces, ReadPlaces
<1>5. CASE DispatchRead(w)
  <2>1. PICK to \in {"closing", "data"} : Go(w, "read", to)
    BY <1>5 DEF DispatchRead
  <2>2. UNCHANGED <<cur, cqres, file, told, inflight, cq>>
    BY <1>5 DEF DispatchRead, outside, ringv
  <2> QED BY <1>2, <2>1, <2>2 DEF Busy, AcceptPlaces, ReadPlaces, Fresh
<1>6. CASE OnReaded(w)
  <2>1. Go(w, "data", "read_again")
    BY <1>6 DEF OnReaded
  <2>2. UNCHANGED <<cur, cqres, file, told, inflight, cq>>
    BY <1>6 DEF OnReaded, outside, ringv
  <2> QED BY <1>2, <2>1, <2>2 DEF Busy, AcceptPlaces, ReadPlaces, Fresh
<1>7. CASE HandleAccept(w)
  <2>1. /\ Go(w, "accept", "accept_again") /\ UNCHANGED <<cur, cqres, file, inflight, cq>>
        /\ told' = [told EXCEPT ![Result(w)] = File(Result(w))]
    BY <1>7 DEF HandleAccept, OnConnected, outside, ringv
  <2>2. /\ wpc[w] = "accept" /\ wpc'[w] = "accept_again"
        /\ \A v \in Rings \ {w} : wpc'[v] = wpc[v] /\ cur'[v] = cur[v]
                                  /\ cqres'[v] = cqres[v]
    BY <1>3, <2>1
  <2>3. Result(w) = cqres[w] /\ cqres[w] \in Fds
    BY <2>2, InHand DEF Handling, ResultInv, ResultOf, AcceptPlaces
  <2>4. Working(w) = cqres[w] /\ Working(w)' = cqres[w]
    BY <2>1, <2>2 DEF Working, AcceptPlaces
  <2>5. told' = [told EXCEPT ![Working(w)] = file[Working(w)]]
    BY <2>1, <2>3, <2>4 DEF File
  <2> QED BY <1>1, <2>1, <2>2, <2>3, <2>4, <2>5, BatonTurn
          DEF Busy, AcceptPlaces, ReadPlaces, Fresh
<1>8. CASE Go(w, "closing", "closed") /\ OnClosed(w)
  <2>1. /\ UNCHANGED <<cur, cqres, file, inflight, cq>>
        /\ told' = [told EXCEPT ![Fd(w)] = None]
    BY <1>8 DEF OnClosed, outside, ringv
  <2>2. /\ wpc[w] = "closing" /\ wpc'[w] = "closed"
        /\ \A v \in Rings \ {w} : wpc'[v] = wpc[v] /\ cur'[v] = cur[v]
                                  /\ cqres'[v] = cqres[v]
    BY <1>3, <1>8, <2>1
  <2>3. Fd(w) = cur[w][2] /\ cur[w][2] \in Fds
    BY <2>2, InHand DEF Handling, ResultInv, ResultOf, ReadPlaces
  <2>4. Working(w) = cur[w][2] /\ Working(w)' = cur[w][2]
    BY <2>1, <2>2 DEF Working, AcceptPlaces
  <2> QED BY <1>1, <2>1, <2>2, <2>3, <2>4, BatonTurn
          DEF Busy, Known, AcceptPlaces, ReadPlaces, Fresh
<1>9. CASE Go(w, "closed", IF Result(w) > 0 THEN "data" ELSE "delete") /\ CloseFd(w)
  <2>1. /\ UNCHANGED <<cur, cqres, told, inflight, cq>>
        /\ file' = [file EXCEPT ![Fd(w)] = None]
    BY <1>9 DEF CloseFd, ringv, app
  <2>2. wpc[w] = "closed"
    BY <1>9 DEF Go
  <2>3. Result(w) = 0 /\ Fd(w) = cur[w][2] /\ cur[w][2] \in Fds
    BY <2>2, InHand DEF Handling, ResultInv, ResultOf, ReadPlaces
  <2>4. Go(w, "closed", "delete")
    BY <1>9, <2>3
  <2>5. wpc'[w] = "delete" /\ \A v \in Rings \ {w} : wpc'[v] = wpc[v]
    BY <1>3, <2>1, <2>4
  <2>6. Working(w) = cur[w][2]
    BY <2>2 DEF Working, AcceptPlaces
  <2> QED BY <1>1, <2>1, <2>2, <2>3, <2>5, <2>6, BatonClosed
<1> QED BY <1>4, <1>5, <1>6, <1>7, <1>8, <1>9 DEF HandlerStep, HandleClose

(* The adders: a handler passes its descriptor on, once.                   *)
LEMMA BatonAdds ==
  ASSUME ReactorInv, KindInv, ResultInv, BatonInv, ResultKept, NEW w \in Rings, Adds(w)
  PROVE  BatonInv'
<1>1. RingInv /\ OutsideInv /\ HeapInv
  BY DEF ReactorInv
<1>2. PICK sel \in Rings, r \in Content, others \in [DOMAIN heap -> Content] :
        /\ Fill(others) /\ Insert(sel, r, others) /\ UNCHANGED rest
        /\ \/ StartEfd(w) /\ sel = w /\ r = Request("read", EFD(w), None, <<>>)
           \/ /\ StartAccept(w) \/ AcceptAgain(w)
              /\ r = Request("accept", ACCEPT_FD, None, <<>>)
           \/ AcceptRead(w) /\ r = Request("read", Result(w), File(Result(w)), <<>>)
           \/ ReadAgain(w) /\ r = Request("read", Fd(w), File(Fd(w)), <<>>)
           \/ /\ ReadRest(w)
              /\ r = [heap[cur[w]] EXCEPT !.conn = File(Fd(w)), !.prev = TRUE]
              /\ others = [heap EXCEPT ![cur[w]].prev = TRUE]
        /\ ~ReadRest(w) => others = heap
  BY AddsFill
<1>3. /\ inflight' = [inflight EXCEPT ![sel] = @ \cup {Malloc(r)}] /\ cq' = cq
      /\ Malloc(r)[1] = r.type /\ Malloc(r)[2] = r.fd
  BY <1>1, <1>2, InsertHeap, MallocIsFresh
<1>4. UNCHANGED <<file, told, cur, cqres>>
  BY <1>2 DEF rest, outside, app
<1>5. CASE StartEfd(w) \/ StartAccept(w) \/ AcceptAgain(w)
  <2>1. PICK from, to :
          /\ Go(w, from, to)
          /\ \/ to \in {"add_accept", "ready"}
             \/ from = "accept_again" /\ to = "accept_read"
    BY <1>5 DEF StartEfd, StartAccept, AcceptAgain
  <2>2. \A v \in Rings : HandKeeps(v)
    <3>1. to \notin Busy \/
           /\ from \in Busy /\ (from \in AcceptPlaces <=> to \in AcceptPlaces)
           /\ to \in Fresh <=> from \in Fresh
      BY <2>1 DEF Busy, AcceptPlaces, ReadPlaces, Fresh
    <3> QED BY <1>1, <1>4, <2>1, <3>1, GoKeeps
  <2>3. r.type = "read" => r.fd \notin Fds
    <3>1. ~AcceptRead(w) /\ ~ReadAgain(w) /\ ~ReadRest(w)
      BY <1>5 DEF StartEfd, StartAccept, AcceptAgain, AcceptRead, ReadAgain, ReadRest, Go
    <3>2. \/ r = Request("read", EFD(w), None, <<>>)
          \/ r = Request("accept", ACCEPT_FD, None, <<>>)
      BY <1>2, <3>1
    <3>3. EFD(w) \notin Fds
      BY ReactorAssumption DEF EFD, Rings
    <3> QED BY <3>2, <3>3 DEF Request
  <2>4. Malloc(r)[1] = "read" => Malloc(r)[2] \notin Fds
    BY <1>3, <2>3
  <2> QED BY <1>1, <1>3, <1>4, <2>2, <2>4, BatonInsert
<1>6. CASE AcceptRead(w) \/ ReadAgain(w) \/ ReadRest(w)
  <2>1. PICK from \in {"accept_read", "read_again", "data"} :
          Go(w, from, "delete") /\ (from = "accept_read" <=> AcceptRead(w))
    BY <1>6 DEF AcceptRead, ReadAgain, ReadRest, Go
  <2>2. /\ wpc[w] = from /\ wpc'[w] = "delete"
        /\ \A v \in Rings \ {w} : wpc'[v] = wpc[v]
    BY <1>1, <2>1 DEF Go, RingInv
  <2>3. wpc[w] \in Handling /\ wpc[w] \in Known
    BY <2>2 DEF Handling, Known, Fresh, AcceptPlaces, ReadPlaces
  <2>4. /\ Fd(w) = cur[w][2] /\ Result(w) = cqres[w]
        /\ heap[cur[w]].type = cur[w][1] /\ heap[cur[w]] \in Content
        /\ heap[cur[w]].fd = Fd(w)
    BY <2>3, InHand DEF Fd
  <2>5. r.type = "read" /\ r.fd = Working(w)
    <3>1. CASE AcceptRead(w)
      <4>1. from = "accept_read"
        BY <2>1, <3>1
      <4>2. ~ReadAgain(w) /\ ~ReadRest(w) /\ ~StartEfd(w) /\ ~StartAccept(w) /\ ~AcceptAgain(w)
        BY <4>1, <2>2 DEF ReadAgain, ReadRest, StartEfd, StartAccept, AcceptAgain, Go
      <4>3. r = Request("read", Result(w), File(Result(w)), <<>>)
        BY <1>2, <4>2
      <4> QED BY <2>2, <2>4, <4>1, <4>3 DEF Request, Working, AcceptPlaces
    <3>2. CASE ~AcceptRead(w)
      <4>1. from \in {"read_again", "data"}
        BY <2>1, <3>2
      <4>2. ~StartEfd(w) /\ ~StartAccept(w) /\ ~AcceptAgain(w)
        BY <4>1, <2>2 DEF StartEfd, StartAccept, AcceptAgain, Go
      <4>3. Working(w) = Fd(w) /\ cur[w][1] = "read"
        BY <2>2, <2>4, <4>1 DEF Working, AcceptPlaces, ReadPlaces, KindInv
      <4>4. \/ r = Request("read", Fd(w), File(Fd(w)), <<>>)
            \/ r = [heap[cur[w]] EXCEPT !.conn = File(Fd(w)), !.prev = TRUE]
        BY <1>2, <3>2, <4>2
      <4>5. CASE r = Request("read", Fd(w), File(Fd(w)), <<>>)
        BY <4>3, <4>5 DEF Request
      <4>6. CASE r = [heap[cur[w]] EXCEPT !.conn = File(Fd(w)), !.prev = TRUE]
        <5>1. r.type = heap[cur[w]].type /\ r.fd = heap[cur[w]].fd
          BY <2>4, <4>6 DEF Content
        <5> QED BY <2>4, <4>3, <5>1
      <4> QED BY <4>4, <4>5, <4>6
    <3> QED BY <3>1, <3>2
  <2>6. Malloc(r)[1] = "read" /\ Working(w) = Malloc(r)[2]
    BY <1>3, <2>5
  <2> QED BY <1>1, <1>3, <1>4, <2>2, <2>3, <2>6, BatonPass
<1> QED BY <1>5, <1>6 DEF Adds

(* The kernel completes a request.                                         *)
LEMMA BatonComplete ==
  ASSUME ReactorInv, KindInv, FdInv, BatonInv, NEW r \in Rings, Complete(r)
  PROVE  BatonInv'
<1>1. RingInv /\ OutsideInv /\ HeapInv /\ HoldInv
  BY DEF ReactorInv
<1>2. PICK q \in inflight[r] :
        \/ CompleteAccept(r, q) \/ CompleteData(r, q) \/ CompleteEnd(r, q)
        \/ CompleteEfd(r, q)    \/ CompleteWrite(r, q)
  BY DEF Complete
<1>3. q \in DOMAIN heap /\ heap[q].type = q[1] /\ heap[q].fd = q[2]
  BY <1>1 DEF HoldInv, Owned, HeapInv
<1>4. ASSUME NEW x \in Int, Post(r, q, x), file' = file,
             q[1] = "accept" => x \notin Fds
      PROVE  BatonInv'
  BY <1>1, <1>4, BatonPost
<1>5. CASE CompleteAccept(r, q)
  <2>1. q[1] = "accept"
    BY <1>3, <1>5 DEF CompleteAccept
  <2>2. CASE FreeFds = {} /\ Post(r, q, -1) /\ file' = file
    <3>1. -1 \in Int /\ -1 \notin Fds
      BY ReactorAssumption
    <3> QED BY <1>4, <2>2, <3>1
  <2>3. ASSUME NEW c \in backlog, FreeFds # {},
               file' = [file EXCEPT ![Least(FreeFds)] = c],
               Post(r, q, Least(FreeFds))
        PROVE  BatonInv'
    <3>1. FreeFds \in SUBSET Nat
      BY ReactorAssumption DEF FreeFds
    <3>2. Least(FreeFds) \in FreeFds
      BY <2>3, <3>1, LeastIs
    <3>3. PICK g : g = Least(FreeFds)
      OBVIOUS
    <3>4. g \in Fds /\ file[g] = None /\ g \in Int
      BY <3>1, <3>2, <3>3 DEF FreeFds
    <3>5. c \in Conns
      BY <1>1 DEF OutsideInv
    <3> QED BY <1>1, <2>1, <2>3, <3>3, <3>4, <3>5, BatonAccepted
  <2> QED BY <1>5, <2>2, <2>3 DEF CompleteAccept
<1>6. CASE CompleteData(r, q)
  <2>1. PICK room \in Rooms(q) : \E n \in 1 .. room : Post(r, q, n)
    BY <1>6 DEF CompleteData
  <2>2. PICK n \in 1 .. room : Post(r, q, n)
    BY <2>1
  <2>3. file' = file /\ q[1] = "read" /\ n \in Int
    BY <1>3, <1>6 DEF CompleteData
  <2> QED BY <1>4, <2>2, <2>3
<1>7. CASE CompleteEnd(r, q)
  <2>1. file' = file /\ q[1] = "read" /\ (Post(r, q, 0) \/ Post(r, q, -1))
    BY <1>3, <1>7 DEF CompleteEnd
  <2>2. 0 \in Int /\ -1 \in Int
    OBVIOUS
  <2> QED BY <1>4, <2>1, <2>2
<1>8. CASE CompleteEfd(r, q)
  <2>1. file' = file /\ q[2] = EFD(r) /\ Post(r, q, 1)
    BY <1>3, <1>8 DEF CompleteEfd
  <2>2. q[1] # "accept"
    BY <1>3, <2>1 DEF FdInv, EFD, ACCEPT_FD, Rings
  <2> QED BY <1>4, <2>1, <2>2
<1>9. CASE CompleteWrite(r, q)
  <2>1. PICK x \in WriteResults(heap[q].conn) : Post(r, q, x)
    BY <1>9 DEF CompleteWrite
  <2>2. file' = file /\ q[1] = "write"
    BY <1>3, <1>9 DEF CompleteWrite
  <2>3. x \in Int
    BY <2>1 DEF WriteResults
  <2> QED BY <1>4, <2>1, <2>2, <2>3
<1> QED BY <1>2, <1>5, <1>6, <1>7, <1>8, <1>9

(* The rest of a worker's loop.                                            *)
LEMMA BatonReap ==
  ASSUME ReactorInv, BatonInv, NEW w \in Rings, Reap(w)
  PROVE  BatonInv'
<1>1. RingInv /\ HeapInv
  BY DEF ReactorInv
<1>2. /\ wpc[w] = "wait" /\ cq[w] # <<>>
      /\ wpc' = [wpc EXCEPT ![w] = heap[Head(cq[w]).req].type]
      /\ cq' = [cq EXCEPT ![w] = Tail(@)]
      /\ cur' = [cur EXCEPT ![w] = Head(cq[w]).req]
      /\ cqres' = [cqres EXCEPT ![w] = Head(cq[w]).res]
      /\ UNCHANGED <<inflight, file, told>>
  BY DEF Reap, Go, outside, app
<1>3. PICK e : e = Head(cq[w])
  OBVIOUS
<1>4. e.req \in Queue(w) /\ e.req \in Addresses
  BY <1>1, <1>2, <1>3, QueueHead
<1>5. e.req \in DOMAIN heap
  BY <1>2, <1>4 DEF ReactorInv, HoldInv, Owned, Alive
<1>6. heap[e.req].type = e.req[1] /\ e.req[1] \in Kinds
  BY <1>1, <1>4, <1>5 DEF HeapInv, Addresses
<1>7. /\ wpc' = [wpc EXCEPT ![w] = e.req[1]] /\ cur' = [cur EXCEPT ![w] = e.req]
      /\ cqres' = [cqres EXCEPT ![w] = e.res]
  BY <1>2, <1>3, <1>6
<1> QED BY <1>1, <1>2, <1>3, <1>6, <1>7, BatonTaken

(* The end of a turn of the event loop passes no baton on.                 *)
LEMMA BatonLoop ==
  ASSUME ReactorInv, BatonInv, NEW w \in Rings,
         ReapStop(w) \/ ReapFailure(w) \/ WaitFails(w) \/ Delete(w)
  PROVE  BatonInv'
<1>1. RingInv
  BY DEF ReactorInv
<1>2. UNCHANGED <<inflight, file, told>>
  BY DEF ReapStop, ReapedStop, ReapFailure, WaitFails, Delete, outside, ringv, app
<1>3. \A v \in Rings : HandKeeps(v)
  <2>1. PICK from, to : Go(w, from, to) /\ to \in {"exit", "dead", "wait"}
    BY DEF ReapStop, ReapedStop, ReapFailure, WaitFails, Delete
  <2>2. wpc'[w] = to /\ \A v \in Rings \ {w} : wpc'[v] = wpc[v]
    BY <1>1, <2>1 DEF Go, RingInv
  <2>3. \A v \in Rings \ {w} : cur'[v] = cur[v] /\ cqres'[v] = cqres[v]
    BY <1>1 DEF ReapStop, ReapedStop, ReapFailure, WaitFails, Delete, RingInv
  <2>4. HandKeeps(w)
    BY <2>1, <2>2 DEF HandKeeps, Busy, AcceptPlaces, ReadPlaces
  <2>5. ASSUME NEW v \in Rings \ {w}
        PROVE  HandKeeps(v)
    <3>1. Working(v)' = Working(v)
      BY <2>2, <2>3 DEF Working, AcceptPlaces
    <3> QED BY <2>2, <3>1 DEF HandKeeps
  <2> QED BY <2>4, <2>5
<1>4. CASE cq' = cq
  BY <1>2, <1>3, <1>4, BatonSteady
<1>5. CASE ReapStop(w)
  <2>1. cq[w] # <<>> /\ cq' = [cq EXCEPT ![w] = Tail(@)]
    BY <1>5 DEF ReapStop, ReapedStop
  <2> SUFFICES ASSUME NEW f \in Fds
               PROVE  BatonOf(f)' /\ ToldOf(f)'
    BY DEF BatonInv
  <2>2. BatonOf(f) /\ ToldOf(f)
    BY DEF BatonInv
  <2>3. /\ \A k : Entries(f, k)' # {} => Entries(f, k) \ {<<w, 1>>} # {}
        /\ Single(Posted(f)) => Single(Posted(f)')
    BY ZenonT(30), <1>1, <2>1, EntriesTake
  <2>4. Waits(f)' = Waits(f)
    BY <1>2 DEF Waits
  <2>5. \A k \in {"accept", "read"} : Entries(f, k)' # {} => Entries(f, k) # {}
    <3>1. \A k : Entries(f, k)' # {} => Entries(f, k) # {}
      BY <2>3
    <3> QED BY <3>1
  <2>6. Hands(f, Fresh)' \subseteq Hands(f, Fresh) /\ Hands(f, Known)' \subseteq Hands(f, Known)
    BY <1>3, HandsKeep
  <2> QED BY <1>2, <2>2, <2>3, <2>4, <2>5, <2>6, BatonKeep
<1> QED BY <1>4, <1>5 DEF ReapFailure, WaitFails, Delete, ringv

(* Peers, the owner, the ends of a loop, and steps of other parts.         *)
LEMMA BatonOthers ==
  ASSUME ReactorInv, BatonInv,
         \/ \E c \in Conns : PeerConnect(c) \/ PeerSend(c) \/ PeerClose(c)
         \/ OwnerGoes \/ UNCHANGED vars
  PROVE  BatonInv'
<1>1. UNCHANGED <<inflight, cq, file, told, cur, cqres>>
  BY DEF PeerConnect, PeerSend, PeerClose, Peer, OwnerGoes, StartTask, Stop, StopSignal,
         SignalUpTo, StopDrained, Destroy, DestroyWait, vars, outside, ringv,
         workers, app
<1>2. wpc' = wpc \/ wpc' = [wpc EXCEPT ![oi] = "queued"]
  BY DEF PeerConnect, PeerSend, PeerClose, Peer, OwnerGoes, StartTask, Stop, StopSignal,
         SignalUpTo, StopDrained, Destroy, DestroyWait, vars, workers
<1>3. \A v \in Rings : wpc'[v] = wpc[v] \/ wpc'[v] = "queued"
  BY <1>2 DEF ReactorInv, RingInv
<1>4. \A v \in Rings : HandKeeps(v)
  BY <1>1, <1>3 DEF HandKeeps, Busy, Working, AcceptPlaces, ReadPlaces
<1> QED BY <1>1, <1>4, BatonSteady

(* The rings are closed.                                                   *)
LEMMA BatonFree ==
  ASSUME ReactorInv, BatonInv, DestroyFree
  PROVE  BatonInv'
<1>1. /\ inflight' = [r \in Rings |-> {}] /\ cq' = [r \in Rings |-> <<>>]
      /\ UNCHANGED <<file, told, wpc, cur, cqres>>
  BY DEF DestroyFree, outside, workers, app
<1> SUFFICES ASSUME NEW f \in Fds
             PROVE  BatonOf(f)' /\ ToldOf(f)'
  BY DEF BatonInv
<1>2. Waits(f)' = {}
  BY <1>1 DEF Waits
<1>3. \A k : Entries(f, k)' = {}
  BY <1>1 DEF Entries
<1>4. Posted(f)' = {}
  BY <1>3 DEF Posted
<1>5. Hands(f, Fresh)' = Hands(f, Fresh) /\ Hands(f, Known)' = Hands(f, Known)
  BY <1>1 DEF Hands, Working, Fresh, Known, AcceptPlaces, ReadPlaces
<1> QED BY <1>1, <1>2, <1>3, <1>4, <1>5, BatonKeep DEF BatonInv, Single

(* A call of saurion_send adds a write.                                    *)
LEMMA SubmitAdds ==
  ASSUME ReactorInv, Submit
  PROVE  \E k \in calls, sel \in Rings, r \in Content :
           /\ r.type = "write" /\ r.fd = k.fd /\ r.conn = file[k.fd] /\ r.want = k.conn
           /\ r.data = <<>> /\ r.prev = FALSE
           /\ Insert(sel, r, heap) /\ Fill(heap)
           /\ calls' = calls \ {k}
           /\ UNCHANGED <<prevs, outside, workers, owner, told, got, torn, ended>>
<1>1. PICK k \in calls, sel \in Rings :
        /\ Insert(sel, Message(k), heap) /\ UNCHANGED prevs
        /\ calls' = calls \ {k}
  BY SubmitIs
<1>2. UNCHANGED <<outside, workers, owner, told, got, torn, ended>>
  BY SubmitIs
<1>3. /\ Message(k) \in Content
      /\ Message(k).type = "write" /\ Message(k).fd = k.fd
      /\ Message(k).conn = file[k.fd] /\ Message(k).want = k.conn
      /\ Message(k).data = <<>> /\ Message(k).prev = FALSE
  BY MessageContent DEF ReactorInv
<1>4. Fill(heap)
  BY FillSame DEF ReactorInv
<1> QED BY <1>1, <1>2, <1>3, <1>4

(* A request of saurion_send reads nothing.                                *)
LEMMA BatonSend ==
  ASSUME ReactorInv, BatonInv, Submit
  PROVE  BatonInv'
<1>1. RingInv /\ HeapInv
  BY DEF ReactorInv
<1>2. PICK k \in calls, sel \in Rings, r \in Content :
        /\ r.type = "write" /\ Insert(sel, r, heap) /\ Fill(heap)
        /\ UNCHANGED <<outside, workers, told>>
  BY SubmitAdds
<1>3. /\ inflight' = [inflight EXCEPT ![sel] = @ \cup {Malloc(r)}] /\ cq' = cq
      /\ Malloc(r)[1] = "write"
  BY <1>1, <1>2, InsertHeap, MallocIsFresh
<1>4. UNCHANGED <<file, told, wpc, cur, cqres>>
  BY <1>2 DEF outside, workers
<1>5. \A v \in Rings : HandKeeps(v)
  BY <1>4 DEF HandKeeps, Working, AcceptPlaces
<1> QED BY <1>1, <1>3, <1>4, <1>5, BatonInsert

-----------------------------------------------------------------------------
(* The other parts, step by step.                                          *)

(* A request that is left as it is, but for what was read and whether it   *)
(* is carried over.                                                        *)
Left(p) ==
  /\ heap'[p].type = heap[p].type /\ heap'[p].conn = heap[p].conn
  /\ heap'[p].want = heap[p].want

(* No call begins, and a connection is forgotten only when it is reported  *)
(* closed.                                                                 *)
Remembers ==
  /\ calls' \subseteq calls
  /\ ended \subseteq ended'
  /\ \A f \in Fds : told[f] \in {None, told'[f]} \cup ended'

(* A step that tells the application nothing and calls nothing.            *)
LEMMA RemembersSame ==
  ASSUME calls' \subseteq calls, UNCHANGED <<told, ended>>
  PROVE  Remembers
BY DEF Remembers

(* Nothing is added, and no ring comes by a request.                       *)
LEMMA FdKeep ==
  ASSUME FdInv, SentInv, Remembers,
         DOMAIN heap' \subseteq DOMAIN heap,
         \A p \in DOMAIN heap' : Left(p),
         \A r \in Rings : Held(r)' \subseteq Held(r)
  PROVE  FdInv' /\ SentInv'
<1>1. FdInv'
  BY DEF FdInv, EFD
<1>2. RightWhileOpen'
  BY DEF SentInv, RightWhileOpen, Remembers, Left
<1>3. SentInv'
  BY <1>2 DEF SentInv, Remembers, Left
<1> QED BY <1>1, <1>3

(* A request is added.                                                     *)
LEMMA FdInsert ==
  ASSUME HeapInv, RingInv, FdInv, SentInv, Remembers,
         NEW sel \in Rings, NEW r \in Content, NEW others,
         Fill(others), Insert(sel, r, others), cur' = cur,
         r.type = "accept" => r.fd = ACCEPT_FD,
         r.type = "read" => r.fd \in Fds \cup {EFD(sel)},
         r.type = "write" => r.conn = r.want \/ r.want \in ended,
         r.type = "read" /\ r.conn # None => r.fd \in Fds
  PROVE  FdInv' /\ SentInv'
<1> DEFINE q == Malloc(r)
<1>1. /\ DOMAIN heap' = DOMAIN heap \cup {q} /\ q \notin DOMAIN heap
      /\ inflight' = [inflight EXCEPT ![sel] = @ \cup {q}] /\ cq' = cq
  BY InsertHeap
<1>2. q[1] = r.type /\ q[2] = r.fd
  BY MallocIsFresh
<1>3. heap' = [p \in DOMAIN others \cup {q} |-> IF p = q THEN r ELSE others[p]]
  BY DEF Insert
<1>4. DOMAIN others = DOMAIN heap
  BY DEF Fill
<1> HIDE DEF q
<1>5. \A s \in Rings : Held(s)' = IF s = sel THEN Held(s) \cup {q} ELSE Held(s)
  BY <1>1, WaitsInsert
<1>6. FdInv'
  BY <1>1, <1>2, <1>5 DEF FdInv, EFD
<1>7. heap'[q] = r /\ \A p \in DOMAIN heap : heap'[p] = others[p]
  BY <1>1, <1>3, <1>4
<1>8. \A p \in DOMAIN heap : Left(p)
  BY <1>7 DEF Fill, Left
<1>9. RightWhileOpen'
  BY <1>1, <1>7, <1>8 DEF SentInv, RightWhileOpen, Remembers, Left
<1>10. \A p \in DOMAIN heap' : p[1] = "read" /\ heap'[p].conn # None => p[2] \in Fds
  BY <1>1, <1>2, <1>7, <1>8 DEF SentInv, Left
<1> QED BY <1>6, <1>9, <1>10 DEF SentInv, Remembers

(* No entry is posted, and workers come by nothing.                        *)
LEMMA ResultKeep ==
  ASSUME ResultInv,
         \A s \in Rings : \A i \in DOMAIN cq'[s] :
           \E j \in DOMAIN cq[s] : cq'[s][i] = cq[s][j],
         \A v \in Rings :
           \/ wpc'[v] = wpc[v] /\ cur'[v] = cur[v] /\ cqres'[v] = cqres[v]
           \/ ResultOf(v)'
  PROVE  ResultInv'
<1>1. \A r \in Rings : \A i \in DOMAIN cq'[r] :
        cq'[r][i].req[1] = "accept" => cq'[r][i].res \in Fds \cup {-1}
  BY DEF ResultInv
<1>2. \A v \in Rings : ResultOf(v)'
  BY DEF ResultInv, ResultOf, AcceptPlaces, ReadPlaces
<1> QED BY <1>1, <1>2 DEF ResultInv

(* Steps in which only what is named changes.                              *)
LEMMA PlainSteady ==
  ASSUME DescriptorInv, UNCHANGED <<inflight, cq, heap, cur, cqres, taken>>,
         UNCHANGED <<told, calls, ended, got>>,
         \A v \in Rings : wpc'[v] = wpc[v] \/ wpc'[v] \notin Busy,
         \A c \in Conns : taken[c] <= sent'[c],
         status' \in 0 .. 2
  PROVE  FdInv' /\ ResultInv' /\ SentInv' /\ RestInv'
<1>1. FdInv' /\ SentInv'
  BY DEF DescriptorInv, FdInv, SentInv, RightWhileOpen, Held, EFD
<1>2. ResultInv'
  <2>1. \A v \in Rings : ResultOf(v)'
    BY DEF DescriptorInv, ResultInv, ResultOf, Busy, AcceptPlaces, ReadPlaces
  <2> QED BY <2>1 DEF DescriptorInv, ResultInv
<1>3. RestInv'
  BY DEF DescriptorInv, RestInv
<1> QED BY <1>1, <1>2, <1>3

(* Peers, the owner, and steps of other parts.                             *)
LEMMA PlainOthers ==
  ASSUME ReactorInv, DescriptorInv,
         \/ \E c \in Conns : PeerConnect(c) \/ PeerSend(c) \/ PeerClose(c)
         \/ OwnerGoes \/ UNCHANGED vars
  PROVE  FdInv' /\ ResultInv' /\ SentInv' /\ RestInv'
<1>1. UNCHANGED <<inflight, cq, heap, cur, cqres, taken, told, calls, ended, got, status>>
  BY DEF PeerConnect, PeerSend, PeerClose, Peer, OwnerGoes, StartTask, Stop, StopSignal,
         SignalUpTo, StopDrained, Destroy, DestroyWait, vars, outside, ringv,
         workers, app, reqs, owner
<1>2. wpc' = wpc \/ wpc' = [wpc EXCEPT ![oi] = "queued"]
  BY DEF PeerConnect, PeerSend, PeerClose, Peer, OwnerGoes, StartTask, Stop, StopSignal,
         SignalUpTo, StopDrained, Destroy, DestroyWait, vars, workers
<1>3. \A v \in Rings : wpc'[v] = wpc[v] \/ wpc'[v] \notin Busy
  BY <1>2 DEF ReactorInv, RingInv, Busy, AcceptPlaces, ReadPlaces
<1>4. sent' = sent \/ \E c \in Conns : sent' = [sent EXCEPT ![c] = @ + 1]
  BY DEF PeerConnect, PeerSend, PeerClose, Peer, OwnerGoes, StartTask, Stop, StopSignal,
         SignalUpTo, StopDrained, Destroy, DestroyWait, vars, outside
<1>5. \A c \in Conns : taken[c] <= sent'[c]
  <2>1. \A c \in Conns : taken[c] \in Nat /\ sent[c] \in Nat /\ taken[c] <= sent[c]
    BY DEF ReactorInv, OutsideInv, DescriptorInv, RestInv
  <2>2. \A c \in Conns : sent'[c] = sent[c] \/ sent'[c] = sent[c] + 1
    BY <1>4 DEF ReactorInv, OutsideInv
  <2> QED BY <2>1, <2>2
<1>6. status' \in 0 .. 2
  BY <1>1 DEF DescriptorInv, RestInv
<1> QED BY <1>1, <1>3, <1>5, <1>6, PlainSteady

(* A worker goes to another place with what it has.                        *)
LEMMA PlainGo ==
  ASSUME ReactorInv, DescriptorInv, NEW w \in Rings, NEW from, NEW to, Go(w, from, to),
         Remembers,
         UNCHANGED <<inflight, cq, cur, cqres>>, DOMAIN heap' = DOMAIN heap,
         \A p \in DOMAIN heap : Left(p),
         to \in Busy => ResultOf(w)'
  PROVE  FdInv' /\ ResultInv' /\ SentInv'
<1>1. \A v \in Rings : wpc'[v] = IF v = w THEN to ELSE wpc[v]
  BY DEF Go, ReactorInv, RingInv
<1>2. \A r \in Rings : Held(r)' = Held(r)
  BY RingsSame
<1>3. FdInv' /\ SentInv'
  BY <1>2, FdKeep DEF DescriptorInv
<1>4. \A v \in Rings : \/ wpc'[v] = wpc[v] /\ cur'[v] = cur[v] /\ cqres'[v] = cqres[v]
                       \/ ResultOf(v)'
  <2>1. to \notin Busy => ResultOf(w)'
    BY <1>1 DEF ResultOf, Busy, AcceptPlaces, ReadPlaces
  <2> QED BY <1>1, <2>1
<1>5. ResultInv'
  BY <1>4, ResultKeep DEF DescriptorInv
<1> QED BY <1>3, <1>5

(* The application knows the connection a handler works on, or not yet.    *)
LEMMA KnownConn ==
  ASSUME ReactorInv, DescriptorInv, ResultKept, NEW w \in Rings,
         wpc[w] \in ReadPlaces \ {"closed"}
  PROVE  Fd(w) \in Fds /\ told[Fd(w)] = file[Fd(w)] /\ told[Fd(w)] \in Conns
<1> DEFINE f == Fd(w)
<1>1. f = cur[w][2] /\ f \in Fds
  BY InHand DEF Handling, ReadPlaces, DescriptorInv, ResultInv, ResultOf
<1>2. Working(w) = f /\ wpc[w] \in Known
  BY <1>1 DEF Working, AcceptPlaces, ReadPlaces, Known, Fresh
<1> HIDE DEF f
<1>3. w \in Hands(f, Known) /\ w \in Handled(f)
  BY <1>2 DEF Hands, Handled
<1>4. BatonOf(f) /\ ToldOf(f)
  BY <1>1 DEF DescriptorInv, BatonInv
<1>5. told[f] = file[f] /\ file[f] # None
  BY <1>3, <1>4 DEF BatonOf, ToldOf
<1>6. file[f] \in Conns
  BY <1>1, <1>5 DEF ReactorInv, OutsideInv
<1> QED BY <1>1, <1>5, <1>6 DEF f

(* The handlers call on_connected for a descriptor that is not known, and  *)
(* on_closed.                                                              *)
LEMMA HandlersRemember ==
  ASSUME ReactorInv, DescriptorInv, ResultKept, NEW w \in Rings, HandlerStep(w)
  PROVE  Remembers
<1>1. calls' = calls
  BY DEF HandlerStep, Ready, HandleAccept, OnConnected, DispatchRead, HandleClose, OnClosed,
         CloseFd, OnReaded, HandleWrite, OnWrote, Exit, app
<1>2. told \in [Fds -> Conns \cup {None}]
  BY DEF ReactorInv, OutsideInv
<1>3. CASE HandleAccept(w)
  <2>1. /\ wpc[w] = "accept" /\ ended' = ended
        /\ told' = [told EXCEPT ![Result(w)] = File(Result(w))]
    BY <1>3 DEF HandleAccept, OnConnected, Go
  <2>2. PICK g : g = Result(w)
    OBVIOUS
  <2>3. g = cqres[w] /\ g \in Fds /\ Working(w) = g
    BY <2>1, <2>2, InHand
       DEF Handling, DescriptorInv, ResultInv, ResultOf, AcceptPlaces, Working
  <2>4. w \in Hands(g, Fresh)
    BY <2>1, <2>3 DEF Hands, Fresh
  <2>5. told[g] = None
    BY <2>3, <2>4 DEF DescriptorInv, BatonInv, ToldOf
  <2> QED BY <1>1, <1>2, <2>1, <2>2, <2>5 DEF Remembers
<1>4. CASE HandleClose(w)
  <2>1. CASE OnClosed(w)
    <3>1. /\ told' = [told EXCEPT ![Fd(w)] = None]
          /\ ended' = ended \cup {told[Fd(w)]}
      BY <2>1 DEF OnClosed
    <3> QED BY <1>1, <1>2, <3>1 DEF Remembers
  <2>2. CASE CloseFd(w)
    BY <2>2, RemembersSame DEF CloseFd, app
  <2> QED BY <1>4, <2>1, <2>2 DEF HandleClose
<1>5. CASE UNCHANGED <<told, ended>>
  BY <1>1, <1>5, RemembersSame
<1> QED BY <1>3, <1>4, <1>5 DEF HandlerStep, Ready, DispatchRead, OnReaded, HandleWrite,
        OnWrote, Exit, app

(* A handler keeps its descriptor and its result to what they can be.      *)
LEMMA PlainHandlers ==
  ASSUME ReactorInv, DescriptorInv, ResultKept, NEW w \in Rings, HandlerStep(w)
  PROVE  FdInv' /\ ResultInv' /\ SentInv' /\ RestInv'
<1>1. RingInv /\ OutsideInv /\ HeapInv
  BY DEF ReactorInv
<1>2. UNCHANGED <<inflight, cq, cur, cqres, sent, taken>>
  BY DEF HandlerStep, Ready, HandleAccept, OnConnected, DispatchRead, HandleClose, OnClosed,
         CloseFd, OnReaded, HandleWrite, OnWrote, Exit, outside, ringv
<1>3. heap' = heap \/ heap' = [heap EXCEPT ![cur[w]].prev = FALSE]
  BY DEF HandlerStep, Ready, HandleAccept, OnConnected, DispatchRead, HandleClose, OnClosed,
         CloseFd, OnReaded, HandleWrite, OnWrote, Exit, reqs
<1>4. DOMAIN heap' = DOMAIN heap /\ \A p \in DOMAIN heap : Left(p)
  <2>1. \A p \in DOMAIN heap : heap[p] \in Content
    BY <1>1 DEF HeapInv
  <2>2. CASE heap' = heap
    BY <2>2 DEF Left
  <2>3. CASE heap' = [heap EXCEPT ![cur[w]].prev = FALSE]
    BY <2>1, <2>3 DEF Left, Content
  <2> QED BY <1>3, <2>2, <2>3
<1>5. PICK from, to :
        /\ Go(w, from, to)
        /\ \/ to \in {"wait", "delete", "done"}
           \/ from = "accept" /\ to = "accept_again"
           \/ from = "read" /\ to = IF Result(w) < 1 THEN "closing" ELSE "data"
           \/ from = "closing" /\ to = "closed"
           \/ from = "closed" /\ to = IF Result(w) > 0 THEN "data" ELSE "delete"
           \/ from = "data" /\ to = "read_again"
  BY DEF HandlerStep, Ready, HandleAccept, DispatchRead, HandleClose, OnReaded,
         HandleWrite, Exit
<1>6. wpc[w] = from /\ wpc'[w] = to
  BY <1>1, <1>5 DEF Go, RingInv
<1>7. to \in Busy => ResultOf(w)'
  <2>1. SUFFICES ASSUME to \in Busy
                 PROVE  ResultOf(w)'
    OBVIOUS
  <2>2. from \in {"accept", "read", "closing", "closed", "data"}
    BY <1>5, <2>1 DEF Busy, AcceptPlaces, ReadPlaces
  <2>3. Result(w) = cqres[w]
    BY <1>6, <2>2, InHand DEF Handling
  <2>4. ResultOf(w) /\ cqres[w] \in Int
    BY <1>1 DEF DescriptorInv, ResultInv, RingInv
  <2> QED BY <1>2, <1>5, <1>6, <2>1, <2>2, <2>3, <2>4
          DEF ResultOf, AcceptPlaces, ReadPlaces, Busy
<1>8. FdInv' /\ ResultInv' /\ SentInv'
  BY <1>2, <1>4, <1>5, <1>7, HandlersRemember, PlainGo
<1>9. RestInv'
  <2>1. /\ \A c \in Conns : taken'[c] <= sent'[c]
        /\ \A r \in Rings : Len(cq'[r]) <= CqSize
    BY <1>2 DEF DescriptorInv, RestInv
  <2>2. status' \in 0 .. 2
    <3>1. status' \in {status, 1, 2}
      BY DEF HandlerStep, Ready, HandleAccept, OnConnected, DispatchRead, HandleClose,
             OnClosed, CloseFd, OnReaded, HandleWrite, OnWrote, Exit, owner
    <3> QED BY <3>1 DEF DescriptorInv, RestInv
  <2>3. ended' \subseteq Conns
    <3>1. ended' = ended \/ (wpc[w] = "closing" /\ ended' = ended \cup {told[Fd(w)]})
      BY DEF HandlerStep, Ready, HandleAccept, OnConnected, DispatchRead, HandleClose,
             OnClosed, CloseFd, OnReaded, HandleWrite, OnWrote, Exit, app, Go
    <3>2. wpc[w] = "closing" => told[Fd(w)] \in Conns
      BY KnownConn DEF ReadPlaces
    <3> QED BY <3>1, <3>2 DEF DescriptorInv, RestInv
  <2>4. DOMAIN got' = Conns \cup {None} /\ got'[None] = <<>>
    <3>1. \/ got' = got
          \/ /\ wpc[w] = "data"
             /\ got' = [got EXCEPT ![told[Fd(w)]] = @ \o heap[cur[w]].data]
      BY DEF HandlerStep, Ready, HandleAccept, OnConnected, DispatchRead, HandleClose,
             OnClosed, CloseFd, OnReaded, HandleWrite, OnWrote, Exit, app, Go
    <3>2. wpc[w] = "data" => told[Fd(w)] \in Conns /\ told[Fd(w)] # None
      BY KnownConn, ReactorAssumption DEF ReadPlaces
    <3> QED BY <3>1, <3>2 DEF DescriptorInv, RestInv
  <2> QED BY <2>1, <2>2, <2>3, <2>4 DEF RestInv
<1> QED BY <1>8, <1>9

(* The adders of a worker and of saurion_send.                             *)
LEMMA PlainAdds ==
  ASSUME ReactorInv, KindInv, DescriptorInv, ResultKept, NEW w \in Rings, Adds(w)
  PROVE  FdInv' /\ ResultInv' /\ SentInv' /\ RestInv'
<1>1. RingInv /\ OutsideInv /\ HeapInv
  BY DEF ReactorInv
<1>2. PICK sel \in Rings, r \in Content, others \in [DOMAIN heap -> Content] :
        /\ Fill(others) /\ Insert(sel, r, others) /\ UNCHANGED rest
        /\ \/ StartEfd(w) /\ sel = w /\ r = Request("read", EFD(w), None, <<>>)
           \/ /\ StartAccept(w) \/ AcceptAgain(w)
              /\ r = Request("accept", ACCEPT_FD, None, <<>>)
           \/ AcceptRead(w) /\ r = Request("read", Result(w), File(Result(w)), <<>>)
           \/ ReadAgain(w) /\ r = Request("read", Fd(w), File(Fd(w)), <<>>)
           \/ /\ ReadRest(w)
              /\ r = [heap[cur[w]] EXCEPT !.conn = File(Fd(w)), !.prev = TRUE]
              /\ others = [heap EXCEPT ![cur[w]].prev = TRUE]
        /\ ~ReadRest(w) => others = heap
  BY AddsFill
<1>3. UNCHANGED <<cur, cqres, sent, taken, status, told, calls, ended, got>>
  BY <1>2 DEF rest, outside, app, owner
<1>4. cq' = cq
  BY <1>1, <1>2, InsertHeap
<1>5. /\ r.type = "accept" => r.fd = ACCEPT_FD
      /\ r.type = "read" => r.fd \in Fds \cup {EFD(sel)}
      /\ r.type # "write" /\ (r.conn # None => r.fd \in Fds)
  <2>1. CASE StartEfd(w) /\ sel = w /\ r = Request("read", EFD(w), None, <<>>)
    BY <2>1 DEF Request
  <2>2. CASE r = Request("accept", ACCEPT_FD, None, <<>>)
    BY <2>2 DEF Request
  <2>3. CASE AcceptRead(w) /\ r = Request("read", Result(w), File(Result(w)), <<>>)
    <3>1. wpc[w] = "accept_read"
      BY <2>3 DEF AcceptRead, Go
    <3>2. Result(w) \in Fds
      BY <3>1, InHand DEF Handling, DescriptorInv, ResultInv, ResultOf, AcceptPlaces
    <3> QED BY <2>3, <3>2 DEF Request
  <2>4. CASE ReadAgain(w) /\ r = Request("read", Fd(w), File(Fd(w)), <<>>)
    <3>1. wpc[w] = "read_again"
      BY <2>4 DEF ReadAgain, Go
    <3>2. Fd(w) \in Fds
      BY <3>1, KnownConn DEF ReadPlaces
    <3> QED BY <2>4, <3>2 DEF Request
  <2>5. CASE /\ ReadRest(w)
             /\ r = [heap[cur[w]] EXCEPT !.conn = File(Fd(w)), !.prev = TRUE]
    <3>1. wpc[w] = "data"
      BY <2>5 DEF ReadRest, Go
    <3>2. Fd(w) \in Fds
      BY <3>1, KnownConn DEF ReadPlaces
    <3>3. heap[cur[w]] \in Content /\ heap[cur[w]].type = "read" /\ heap[cur[w]].fd = Fd(w)
      BY <3>1, InHand DEF Handling, KindInv, ReadPlaces, Fd
    <3>4. r.type = heap[cur[w]].type /\ r.fd = heap[cur[w]].fd
      BY <2>5, <3>3 DEF Content
    <3> QED BY <3>2, <3>3, <3>4
  <2> QED BY <1>2, <2>1, <2>2, <2>3, <2>4, <2>5
<1>6. FdInv' /\ SentInv'
  BY <1>1, <1>2, <1>3, <1>5, RemembersSame, FdInsert DEF DescriptorInv
<1>7. ResultInv'
  <2>1. PICK from, to :
          /\ Go(w, from, to)
          /\ \/ to \in {"add_accept", "ready", "delete"}
             \/ from = "accept_again" /\ to = "accept_read"
    BY DEF Adds, StartEfd, StartAccept, AcceptAgain, AcceptRead, ReadAgain, ReadRest
  <2>2. wpc[w] = from /\ wpc'[w] = to /\ \A v \in Rings \ {w} : wpc'[v] = wpc[v]
    BY <1>1, <2>1 DEF Go, RingInv
  <2>3. ResultOf(w)'
    BY <1>3, <2>1, <2>2 DEF DescriptorInv, ResultInv, ResultOf, AcceptPlaces, ReadPlaces
  <2> QED BY <1>3, <1>4, <2>2, <2>3, ResultKeep DEF DescriptorInv
<1>8. RestInv'
  BY <1>3, <1>4 DEF DescriptorInv, RestInv
<1> QED BY <1>6, <1>7, <1>8

(* saurion_send is called for the connection the application knows.        *)
LEMMA PlainCall ==
  ASSUME ReactorInv, DescriptorInv, Send
  PROVE  FdInv' /\ ResultInv' /\ SentInv' /\ RestInv'
<1>1. UNCHANGED <<inflight, cq, heap, cur, cqres, wpc, taken, sent, status, told, ended, got>>
  BY DEF Send, outside, ringv, reqs, workers, owner
<1>2. PICK f \in Fds : /\ told[f] # None
                       /\ calls' = calls \cup {[no |-> sends', fd |-> f, conn |-> told[f]]}
  BY DEF Send
<1>3. FdInv'
  BY <1>1 DEF DescriptorInv, FdInv, Held, EFD
<1>4. RightWhileOpen'
  BY <1>1 DEF DescriptorInv, SentInv, RightWhileOpen
<1>5. SentInv'
  BY <1>1, <1>2, <1>4 DEF DescriptorInv, SentInv
<1>6. ResultInv'
  BY <1>1, ResultKeep DEF DescriptorInv
<1>7. RestInv'
  BY <1>1 DEF DescriptorInv, RestInv
<1> QED BY <1>3, <1>5, <1>6, <1>7

(* It writes to that connection, or was told of its end meanwhile.         *)
LEMMA PlainSend ==
  ASSUME ReactorInv, DescriptorInv, Submit
  PROVE  FdInv' /\ ResultInv' /\ SentInv' /\ RestInv'
<1>1. RingInv /\ HeapInv
  BY DEF ReactorInv
<1>2. PICK k \in calls, sel \in Rings, r \in Content :
        /\ r.type = "write" /\ r.conn = file[k.fd] /\ r.want = k.conn
        /\ Insert(sel, r, heap) /\ Fill(heap)
        /\ calls' = calls \ {k}
        /\ UNCHANGED <<outside, workers, status, told, got, ended>>
  BY SubmitAdds DEF owner
<1>3. UNCHANGED <<wpc, cur, cqres, sent, taken>>
  BY <1>2 DEF outside, workers
<1>4. cq' = cq
  BY <1>1, <1>2, InsertHeap
<1>5. r.conn = r.want \/ r.want \in ended
  <2>1. k.fd \in Fds /\ k.conn # None /\ k.conn \in {told[k.fd]} \cup ended
    BY DEF DescriptorInv, SentInv
  <2>2. told[k.fd] \in {None, file[k.fd]}
    BY <2>1 DEF DescriptorInv, BatonInv, ToldOf
  <2> QED BY <1>2, <2>1, <2>2
<1>6. Remembers
  BY <1>2, RemembersSame
<1>7. FdInv' /\ SentInv'
  BY <1>1, <1>2, <1>3, <1>5, <1>6, FdInsert DEF DescriptorInv
<1>8. ResultInv'
  BY <1>3, <1>4, ResultKeep DEF DescriptorInv
<1>9. RestInv'
  BY <1>2, <1>3, <1>4 DEF DescriptorInv, RestInv
<1> QED BY <1>7, <1>8, <1>9

(* The kernel posts what each request can come to.                         *)
LEMMA CompletePosts ==
  ASSUME ReactorInv, DescriptorInv, NEW r \in Rings, Complete(r)
  PROVE  \E q \in inflight[r], x \in Int :
           /\ Post(r, q, x) /\ (q[1] = "accept" => x \in Fds \cup {-1})
           /\ DOMAIN heap' = DOMAIN heap /\ \A p \in DOMAIN heap : Left(p)
           /\ \A c \in Conns : taken'[c] <= sent[c]
<1>1. RingInv /\ OutsideInv /\ HeapInv /\ HoldInv
  BY DEF ReactorInv
<1>2. PICK q \in inflight[r] :
        \/ CompleteAccept(r, q) \/ CompleteData(r, q) \/ CompleteEnd(r, q)
        \/ CompleteEfd(r, q)    \/ CompleteWrite(r, q)
  BY DEF Complete
<1>3. q \in DOMAIN heap /\ heap[q].type = q[1] /\ heap[q].fd = q[2] /\ heap[q] \in Content
  BY <1>1 DEF HoldInv, Owned, HeapInv
<1>4. ASSUME NEW x \in Int, Post(r, q, x), q[1] = "accept" => x \in Fds \cup {-1},
             heap' = heap, taken' = taken
      PROVE  \E y \in Int :
           /\ Post(r, q, y) /\ (q[1] = "accept" => y \in Fds \cup {-1})
           /\ DOMAIN heap' = DOMAIN heap /\ \A p \in DOMAIN heap : Left(p)
           /\ \A c \in Conns : taken'[c] <= sent[c]
  BY <1>4 DEF Left, DescriptorInv, RestInv
<1>5. CASE CompleteAccept(r, q)
  <2>1. heap' = heap /\ taken' = taken
    BY <1>5 DEF CompleteAccept
  <2>2. FreeFds \in SUBSET Nat /\ (FreeFds # {} => Least(FreeFds) \in FreeFds)
    <3>1. FreeFds \in SUBSET Nat
      BY ReactorAssumption DEF FreeFds
    <3> QED BY <3>1, LeastIs
  <2>3. \/ FreeFds # {} /\ Post(r, q, Least(FreeFds))
        \/ Post(r, q, -1)
    BY <1>5 DEF CompleteAccept
  <2>4. PICK x \in Int : Post(r, q, x) /\ x \in Fds \cup {-1}
    <3>1. CASE FreeFds # {} /\ Post(r, q, Least(FreeFds))
      BY <2>2, <3>1 DEF FreeFds
    <3>2. CASE Post(r, q, -1)
      BY <3>2
    <3> QED BY <2>3, <3>1, <3>2
  <2> QED BY <1>4, <2>1, <2>4
<1>6. CASE CompleteData(r, q)
  <2>1. PICK room \in Rooms(q) : \E n \in 1 .. room :
          /\ n <= sent[heap[q].conn] - taken[heap[q].conn]
          /\ heap' = [heap EXCEPT ![q].data = @ \o Segments(heap[q].conn, n)]
          /\ taken' = [taken EXCEPT ![heap[q].conn] = @ + n]
          /\ Post(r, q, n)
    BY <1>6 DEF CompleteData
  <2>2. PICK n \in 1 .. room :
          /\ n <= sent[heap[q].conn] - taken[heap[q].conn]
          /\ heap' = [heap EXCEPT ![q].data = @ \o Segments(heap[q].conn, n)]
          /\ taken' = [taken EXCEPT ![heap[q].conn] = @ + n]
          /\ Post(r, q, n)
    BY <2>1
  <2>3. q[1] = "read" /\ heap[q].conn \in Conns /\ n \in Int
    BY <1>3, <1>6 DEF CompleteData, Content
  <2>4. \A p \in DOMAIN heap : heap[p] \in Content
    BY <1>1 DEF HeapInv
  <2>5. DOMAIN heap' = DOMAIN heap /\ \A p \in DOMAIN heap : Left(p)
    <3>1. PICK d : d = heap[q].data \o Segments(heap[q].conn, n)
      OBVIOUS
    <3>2. heap' = [heap EXCEPT ![q].data = d]
      BY <2>2, <3>1
    <3> QED BY <1>3, <2>4, <3>2 DEF Left, Content
  <2>6. \A c \in Conns : taken'[c] <= sent[c]
    BY <1>1, <2>2, <2>3 DEF OutsideInv, DescriptorInv, RestInv
  <2> QED BY <2>2, <2>3, <2>5, <2>6
<1>7. CASE CompleteEnd(r, q)
  <2>1. /\ heap' = heap /\ taken' = taken /\ q[1] = "read"
        /\ Post(r, q, 0) \/ Post(r, q, -1)
    BY <1>3, <1>7 DEF CompleteEnd
  <2>2. 0 \in Int /\ -1 \in Int
    OBVIOUS
  <2> QED BY <1>4, <2>1, <2>2
<1>8. CASE CompleteEfd(r, q)
  <2>1. heap' = heap /\ taken' = taken /\ q[2] = EFD(r) /\ Post(r, q, 1)
    BY <1>3, <1>8 DEF CompleteEfd
  <2>2. q[1] # "accept"
    BY <1>3, <2>1 DEF DescriptorInv, FdInv, EFD, ACCEPT_FD, Rings
  <2> QED BY <1>4, <2>1, <2>2
<1>9. CASE CompleteWrite(r, q)
  <2>1. PICK x \in WriteResults(heap[q].conn) : Post(r, q, x)
    BY <1>9 DEF CompleteWrite
  <2>2. heap' = heap /\ taken' = taken /\ q[1] = "write"
    BY <1>3, <1>9 DEF CompleteWrite
  <2>3. x \in Int
    BY <2>1 DEF WriteResults
  <2> QED BY <1>4, <2>1, <2>2, <2>3
<1> QED BY <1>2, <1>5, <1>6, <1>7, <1>8, <1>9

(* A completion gives a descriptor, a count of segments or a failure.      *)
LEMMA PlainComplete ==
  ASSUME ReactorInv, DescriptorInv, NEW r \in Rings, Complete(r)
  PROVE  FdInv' /\ ResultInv' /\ SentInv' /\ RestInv'
<1>1. RingInv /\ HoldInv
  BY DEF ReactorInv
<1>2. PICK q \in inflight[r], x \in Int :
        /\ Post(r, q, x) /\ (q[1] = "accept" => x \in Fds \cup {-1})
        /\ DOMAIN heap' = DOMAIN heap /\ \A p \in DOMAIN heap : Left(p)
        /\ \A c \in Conns : taken'[c] <= sent[c]
  BY CompletePosts
<1>3. /\ UNCHANGED <<wpc, cur, cqres, sent, status, told, calls, ended, got>>
      /\ Len(cq[r]) < CqSize /\ q \in Addresses
      /\ cq' = [cq EXCEPT ![r] = Append(@, [req |-> q, res |-> x])]
  BY <1>1, <1>2 DEF Post, workers, app, RingInv
<1>4. FdInv' /\ SentInv'
  <2>1. \A s \in Rings : Held(s)' = Held(s)
    BY <1>1, <1>2, WaitsPost
  <2> QED BY <1>2, <1>3, <2>1, RemembersSame, FdKeep DEF DescriptorInv
<1> DEFINE E == [req : Addresses, res : Int]
           e == [req |-> q, res |-> x]
<1>5. cq[r] \in Seq(E) /\ e \in E /\ cq'[r] = Append(cq[r], e)
  BY <1>1, <1>3 DEF RingInv
<1>6. e.req = q /\ e.res = x
  OBVIOUS
<1> HIDE DEF e, E
<1>7. /\ Len(cq[r]) \in Nat /\ Len(cq'[r]) = Len(cq[r]) + 1
      /\ DOMAIN cq[r] = 1 .. Len(cq[r]) /\ DOMAIN cq'[r] = 1 .. Len(cq[r]) + 1
      /\ \A i \in 1 .. Len(cq[r]) : cq'[r][i] = cq[r][i]
      /\ cq'[r][Len(cq[r]) + 1] = e
  <2>1. Append(cq[r], e) \in Seq(E) /\ Len(Append(cq[r], e)) = Len(cq[r]) + 1
    BY <1>5, AppendProperties
  <2>2. /\ \A i \in 1 .. Len(cq[r]) : Append(cq[r], e)[i] = cq[r][i]
        /\ Append(cq[r], e)[Len(cq[r]) + 1] = e
    BY <1>5, AppendProperties
  <2> QED BY <1>5, <2>1, <2>2, LenProperties
<1>8. \A s \in Rings \ {r} : cq'[s] = cq[s]
  BY <1>1, <1>3 DEF RingInv
<1>9. ResultInv'
  <2>1. ASSUME NEW s \in Rings, NEW i \in DOMAIN cq'[s], cq'[s][i].req[1] = "accept"
        PROVE  cq'[s][i].res \in Fds \cup {-1}
    <3>1. CASE s # r
      BY <1>8, <2>1, <3>1 DEF DescriptorInv, ResultInv
    <3>2. CASE s = r /\ i \in 1 .. Len(cq[r])
      BY <1>7, <2>1, <3>2 DEF DescriptorInv, ResultInv
    <3>3. CASE s = r /\ i = Len(cq[r]) + 1
      BY <1>2, <1>6, <1>7, <2>1, <3>3
    <3>4. s = r => i \in 1 .. Len(cq[r]) \/ i = Len(cq[r]) + 1
      BY <1>7, <2>1
    <3> QED BY <3>1, <3>2, <3>3, <3>4
  <2>2. \A v \in Rings : ResultOf(v)'
    BY <1>3 DEF DescriptorInv, ResultInv, ResultOf, AcceptPlaces, ReadPlaces
  <2> QED BY <2>1, <2>2 DEF ResultInv
<1>10. RestInv'
  <2>1. \A s \in Rings : Len(cq'[s]) <= CqSize
    BY <1>3, <1>7, <1>8, ReactorAssumption DEF DescriptorInv, RestInv
  <2> QED BY <1>2, <1>3, <2>1 DEF DescriptorInv, RestInv
<1> QED BY <1>4, <1>9, <1>10

(* A worker takes an entry.                                                *)
LEMMA PlainReap ==
  ASSUME ReactorInv, DescriptorInv, NEW w \in Rings, Reap(w)
  PROVE  FdInv' /\ ResultInv' /\ SentInv' /\ RestInv'
<1>1. RingInv /\ HeapInv
  BY DEF ReactorInv
<1>2. /\ wpc[w] = "wait" /\ cq[w] # <<>> /\ Head(cq[w]).res >= 0
      /\ heap[Head(cq[w]).req].fd # EFD(w)
      /\ wpc' = [wpc EXCEPT ![w] = heap[Head(cq[w]).req].type]
      /\ cq' = [cq EXCEPT ![w] = Tail(@)]
      /\ cur' = [cur EXCEPT ![w] = Head(cq[w]).req]
      /\ cqres' = [cqres EXCEPT ![w] = Head(cq[w]).res]
      /\ UNCHANGED <<inflight, heap, taken, sent, status, told, calls, ended, got>>
  BY DEF Reap, Go, outside, app, reqs, owner
<1>3. PICK e : e = Head(cq[w])
  OBVIOUS
<1>4. e.req \in Queue(w) /\ e.req \in Addresses /\ e.res \in Int
  BY <1>1, <1>2, <1>3, QueueHead
<1>5. e.req \in DOMAIN heap
  BY <1>2, <1>4 DEF ReactorInv, HoldInv, Owned, Alive
<1>6. heap[e.req].type = e.req[1] /\ e.req[1] \in Kinds /\ heap[e.req].fd = e.req[2]
  BY <1>1, <1>4, <1>5 DEF HeapInv, Addresses
<1>7. /\ wpc'[w] = e.req[1] /\ cur'[w] = e.req /\ cqres'[w] = e.res
      /\ \A v \in Rings \ {w} : wpc'[v] = wpc[v] /\ cur'[v] = cur[v]
                                /\ cqres'[v] = cqres[v]
  BY <1>1, <1>2, <1>3, <1>6 DEF RingInv
<1>8. /\ \A s \in Rings : {cq'[s][i].req : i \in DOMAIN cq'[s]}
                            \subseteq {cq[s][i].req : i \in DOMAIN cq[s]}
      /\ \A s \in Rings : \A i \in DOMAIN cq'[s] :
           \E j \in DOMAIN cq[s] : cq'[s][i] = cq[s][j]
      /\ \A s \in Rings : Len(cq'[s]) <= Len(cq[s])
      /\ e = cq[w][1] /\ 1 \in DOMAIN cq[w]
  BY <1>1, <1>2, <1>3, EntriesTake
<1>9. e.req \in Held(w)
  BY <1>4 DEF Queue, Held
<1>10. FdInv' /\ SentInv'
  <2>1. ASSUME NEW s \in Rings
        PROVE  Held(s)' \subseteq Held(s)
    <3>1. CASE s = w
      BY <1>2, <1>7, <1>8, <1>9, <3>1 DEF Held
    <3>2. CASE s # w
      <4>1. cur'[s] = cur[s] /\ inflight'[s] = inflight[s]
        BY <1>2, <1>7, <3>2
      <4> QED BY <1>8, <4>1 DEF Held
    <3> QED BY <3>1, <3>2
  <2>2. DOMAIN heap' \subseteq DOMAIN heap /\ \A p \in DOMAIN heap' : Left(p)
    BY <1>2 DEF Left
  <2> QED BY <1>2, <2>1, <2>2, RemembersSame, FdKeep DEF DescriptorInv
<1>11. ResultOf(w)'
  <2>1. e.req[1] = "accept" => e.res \in Fds
    BY <1>2, <1>3, <1>8 DEF DescriptorInv, ResultInv
  <2>2. e.req[1] = "read" => e.req[2] \in Fds
    BY <1>2, <1>3, <1>6, <1>9 DEF DescriptorInv, FdInv
  <2>3. e.res >= 0
    BY <1>2, <1>3
  <2> QED BY <1>6, <1>7, <2>1, <2>2, <2>3 DEF ResultOf, AcceptPlaces, ReadPlaces, Kinds
<1>12. ResultInv'
  BY <1>7, <1>8, <1>11, ResultKeep DEF DescriptorInv
<1>13. RestInv'
  <2>1. \A s \in Rings : Len(cq[s]) \in Nat /\ Len(cq'[s]) \in Nat
    <3>1. cq' \in [Rings -> Seq([req : Addresses, res : Int])]
      BY <1>1, <1>2, QueueTake
    <3> HIDE DEF Addresses
    <3> QED BY <1>1, <3>1, LenProperties DEF RingInv
  <2>2. \A s \in Rings : Len(cq'[s]) <= CqSize
    BY <1>8, <2>1, ReactorAssumption DEF DescriptorInv, RestInv
  <2> QED BY <1>2, <2>2 DEF DescriptorInv, RestInv
<1> QED BY <1>10, <1>12, <1>13

(* The ends of a loop, and the deletion of a request.                      *)
LEMMA PlainLoop ==
  ASSUME ReactorInv, DescriptorInv, NEW w \in Rings,
         ReapStop(w) \/ ReapFailure(w) \/ WaitFails(w) \/ Delete(w)
  PROVE  FdInv' /\ ResultInv' /\ SentInv' /\ RestInv'
<1>1. RingInv /\ HeapInv
  BY DEF ReactorInv
<1>2. UNCHANGED <<inflight, taken, sent, status, told, calls, ended, got>>
  BY DEF ReapStop, ReapedStop, ReapFailure, WaitFails, Delete, outside, ringv, app, owner
<1>3. PICK to : Go(w, wpc[w], to) /\ to \in {"exit", "dead", "wait"}
  BY DEF ReapStop, ReapedStop, ReapFailure, WaitFails, Delete, Go
<1>4. wpc'[w] = to /\ \A v \in Rings \ {w} : wpc'[v] = wpc[v]
  BY <1>1, <1>3 DEF Go, RingInv
<1>5. \A v \in Rings \ {w} : cur'[v] = cur[v] /\ cqres'[v] = cqres[v]
  BY <1>1 DEF ReapStop, ReapedStop, ReapFailure, WaitFails, Delete, RingInv
<1>6. \A s \in Rings : cur'[s] = cur[s] \/ cur'[s] = None
  BY <1>1 DEF ReapStop, ReapedStop, ReapFailure, WaitFails, Delete, RingInv
<1>7. DOMAIN heap' \subseteq DOMAIN heap /\ \A p \in DOMAIN heap' : Left(p)
  <2>1. heap' = heap \/ \E q : heap' = Free(q)
    BY DEF ReapStop, ReapedStop, ReapFailure, WaitFails, Delete, ListDelete, reqs
  <2>2. CASE heap' = heap
    BY <2>2 DEF Left
  <2>3. ASSUME NEW q, heap' = Free(q)
        PROVE  DOMAIN heap' \subseteq DOMAIN heap /\ \A p \in DOMAIN heap' : Left(p)
    BY <2>3 DEF Free, Restrict, Left
  <2> QED BY <2>1, <2>2, <2>3
<1>8. /\ \A s \in Rings : {cq'[s][i].req : i \in DOMAIN cq'[s]}
                            \subseteq {cq[s][i].req : i \in DOMAIN cq[s]}
      /\ \A s \in Rings : \A i \in DOMAIN cq'[s] :
           \E j \in DOMAIN cq[s] : cq'[s][i] = cq[s][j]
      /\ \A s \in Rings : Len(cq'[s]) <= CqSize
  <2>1. CASE cq' = cq
    BY <2>1 DEF DescriptorInv, RestInv
  <2>2. CASE ReapStop(w)
    <3>1. cq[w] # <<>> /\ cq' = [cq EXCEPT ![w] = Tail(@)]
      BY <2>2 DEF ReapStop, ReapedStop
    <3>2. \A s \in Rings : Len(cq[s]) \in Nat /\ Len(cq'[s]) \in Nat
      <4>1. cq' \in [Rings -> Seq([req : Addresses, res : Int])]
        BY <1>1, <3>1, QueueTake
      <4> HIDE DEF Addresses
      <4> QED BY <1>1, <4>1, LenProperties DEF RingInv
    <3>3. \A s \in Rings : Len(cq'[s]) <= Len(cq[s])
      BY <1>1, <3>1, EntriesTake
    <3>4. \A s \in Rings : Len(cq'[s]) <= CqSize
      BY <3>2, <3>3, ReactorAssumption DEF DescriptorInv, RestInv
    <3> QED BY <1>1, <3>1, <3>4, EntriesTake
  <2> QED BY <2>1, <2>2 DEF ReapFailure, WaitFails, Delete, ringv
<1>9. \A s \in Rings : Held(s)' \subseteq Held(s)
  BY <1>2, <1>6, <1>8 DEF Held
<1>10. FdInv' /\ SentInv'
  BY <1>2, <1>7, <1>9, RemembersSame, FdKeep DEF DescriptorInv
<1>11. ResultInv'
  <2>1. ResultOf(w)'
    BY <1>3, <1>4 DEF ResultOf, AcceptPlaces, ReadPlaces
  <2> QED BY <1>4, <1>5, <1>8, <2>1, ResultKeep DEF DescriptorInv
<1>12. RestInv'
  BY <1>2, <1>8 DEF DescriptorInv, RestInv
<1> QED BY <1>10, <1>11, <1>12

(* saurion_destroy leaves nothing in the rings.                            *)
LEMMA PlainFree ==
  ASSUME ReactorInv, DescriptorInv, DestroyFree
  PROVE  FdInv' /\ ResultInv' /\ SentInv' /\ RestInv'
<1>1. /\ inflight' = [r \in Rings |-> {}] /\ cq' = [r \in Rings |-> <<>>]
      /\ heap' = Restrict(heap, DOMAIN heap \ BagToSet(list))
      /\ UNCHANGED <<wpc, cur, cqres, taken, sent, status, told, calls, ended, got>>
  BY DEF DestroyFree, ListFree, outside, workers, app
<1>2. \A s \in Rings : Held(s)' \subseteq Held(s)
  BY <1>1 DEF Held
<1>3. DOMAIN heap' \subseteq DOMAIN heap /\ \A p \in DOMAIN heap' : Left(p)
  BY <1>1 DEF Restrict, Left
<1>4. FdInv' /\ SentInv'
  BY <1>1, <1>2, <1>3, RemembersSame, FdKeep DEF DescriptorInv
<1>5. ResultInv'
  BY <1>1, ResultKeep DEF DescriptorInv
<1>6. RestInv'
  <2>1. \A s \in Rings : Len(cq'[s]) <= CqSize
    BY <1>1, ReactorAssumption
  <2> QED BY <1>1, <2>1 DEF DescriptorInv, RestInv
<1> QED BY <1>4, <1>5, <1>6

-----------------------------------------------------------------------------
(* The accept and the eventfds, step by step.                              *)

(* A request is added to a ring.                                           *)
LEMMA AskedInsert ==
  ASSUME RingInv, NEW sel \in Rings, NEW q,
         inflight' = [inflight EXCEPT ![sel] = @ \cup {q}], cq' = cq
  PROVE  \A s \in Rings : \A key :
           /\ Asked(s, key)' = IF s = sel /\ Key(q) = key THEN Asked(s, key) \cup {q}
                               ELSE Asked(s, key)
           /\ Answer(s, key)' = Answer(s, key)
<1>1. \A s \in Rings : inflight'[s] = IF s = sel THEN inflight[s] \cup {q} ELSE inflight[s]
  BY DEF RingInv
<1> QED BY <1>1 DEF Asked, Answer, Key

(* A request completes.                                                    *)
LEMMA AskedPost ==
  ASSUME RingInv, NEW r \in Rings, NEW q, NEW x \in Int, Post(r, q, x)
  PROVE  /\ \A s \in Rings : \A key :
              /\ Asked(s, key)' = IF s = r THEN Asked(s, key) \ {q} ELSE Asked(s, key)
              /\ Answer(s, key)' = IF s = r /\ Key(q) = key
                                   THEN Answer(s, key) \cup {Len(cq[r]) + 1}
                                   ELSE Answer(s, key)
         /\ \A key : Key(q) = key => q \in Asked(r, key)
<1> DEFINE E == [req : Addresses, res : Int]
           e == [req |-> q, res |-> x]
<1>1. /\ q \in inflight[r] /\ q \in Addresses
      /\ inflight' = [inflight EXCEPT ![r] = @ \ {q}]
      /\ cq' = [cq EXCEPT ![r] = Append(@, e)]
  BY DEF Post, RingInv
<1>2. \A s \in Rings : inflight'[s] = IF s = r THEN inflight[s] \ {q} ELSE inflight[s]
  BY <1>1 DEF RingInv
<1>3. cq[r] \in Seq(E) /\ e \in E /\ cq'[r] = Append(cq[r], e)
  BY <1>1 DEF RingInv
<1>4. e.req = q
  OBVIOUS
<1> HIDE DEF e, E
<1>5. /\ DOMAIN cq[r] = 1 .. Len(cq[r]) /\ Len(cq[r]) \in Nat
      /\ DOMAIN cq'[r] = 1 .. Len(cq[r]) + 1
      /\ \A i \in 1 .. Len(cq[r]) : cq'[r][i] = cq[r][i]
      /\ cq'[r][Len(cq[r]) + 1] = e
  <2>1. Append(cq[r], e) \in Seq(E) /\ Len(Append(cq[r], e)) = Len(cq[r]) + 1
    BY <1>3, AppendProperties
  <2>2. /\ \A i \in 1 .. Len(cq[r]) : Append(cq[r], e)[i] = cq[r][i]
        /\ Append(cq[r], e)[Len(cq[r]) + 1] = e
    BY <1>3, AppendProperties
  <2> QED BY <1>3, <2>1, <2>2, LenProperties
<1>6. DOMAIN cq'[r] = (DOMAIN cq[r]) \cup {Len(cq[r]) + 1}
  BY <1>5
<1>7. \A s \in Rings \ {r} : cq'[s] = cq[s]
  BY <1>1 DEF RingInv
<1>8. ASSUME NEW s \in Rings, NEW key
      PROVE  Asked(s, key)' = IF s = r THEN Asked(s, key) \ {q} ELSE Asked(s, key)
  BY <1>2 DEF Asked, Key
<1>9. ASSUME NEW s \in Rings, NEW key
      PROVE  Answer(s, key)' = IF s = r /\ Key(q) = key
                               THEN Answer(s, key) \cup {Len(cq[r]) + 1}
                               ELSE Answer(s, key)
  <2>1. CASE s # r
    BY <1>7, <2>1 DEF Answer, Key
  <2>2. CASE s = r
    BY <1>4, <1>5, <1>6, <2>2 DEF Answer, Key
  <2> QED BY <2>1, <2>2
<1>10. \A key : Key(q) = key => q \in Asked(r, key)
  BY <1>1 DEF Asked
<1> QED BY <1>8, <1>9, <1>10

(* The first entry of a queue is taken.                                    *)
LEMMA AnswerTake ==
  ASSUME RingInv, NEW w \in Rings, cq[w] # <<>>,
         cq' = [cq EXCEPT ![w] = Tail(@)]
  PROVE  /\ \A s \in Rings : \A key : Single(Answer(s, key)) =>
              /\ Single(Answer(s, key)')
              /\ Answer(s, key)' # {} => Answer(s, key) # {}
         /\ \A key : Key(Head(cq[w]).req) = key =>
              /\ Answer(w, key) # {}
              /\ Single(Answer(w, key)) => Answer(w, key)' = {}
<1> DEFINE E == [req : Addresses, res : Int]
           n == Len(cq[w])
<1>1. cq[w] \in Seq(E) /\ cq'[w] = Tail(cq[w])
  BY DEF RingInv
<1> HIDE DEF E
<1>2. n \in Nat \ {0}
  BY <1>1, EmptySeq
<1>3. DOMAIN cq[w] = 1 .. n /\ Head(cq[w]) = cq[w][1]
  BY <1>1, <1>2, LenProperties
<1>4. /\ Tail(cq[w]) \in Seq(E) /\ Len(Tail(cq[w])) = n - 1
      /\ \A i \in 1 .. Len(Tail(cq[w])) : Tail(cq[w])[i] = cq[w][i + 1]
  BY <1>1, HeadTailProperties
<1>5. /\ DOMAIN cq'[w] = 1 .. n - 1
      /\ \A i \in 1 .. n - 1 : cq'[w][i] = cq[w][i + 1]
  BY <1>1, <1>4, LenProperties
<1> HIDE DEF n
<1>6. \A s \in Rings \ {w} : cq'[s] = cq[s]
  BY DEF RingInv
<1>7. ASSUME NEW key, NEW i \in Answer(w, key)'
      PROVE  i \in 1 .. n - 1 /\ i + 1 \in Answer(w, key)
  <2>1. i \in DOMAIN cq'[w] /\ Key(cq'[w][i].req) = key
    BY <1>7 DEF Answer, Key
  <2>2. i \in 1 .. n - 1 /\ cq'[w][i] = cq[w][i + 1]
    BY <1>5, <2>1
  <2>3. i + 1 \in DOMAIN cq[w]
    BY <1>2, <1>3, <2>2
  <2> QED BY <2>1, <2>2, <2>3 DEF Answer
<1>8. ASSUME NEW key, Single(Answer(w, key))
      PROVE  /\ Single(Answer(w, key)')
             /\ Answer(w, key)' # {} => Answer(w, key) # {}
  <2>1. ASSUME NEW i \in Answer(w, key)', NEW j \in Answer(w, key)'
        PROVE  i = j
    <3>1. /\ i \in 1 .. n - 1 /\ i + 1 \in Answer(w, key)
          /\ j \in 1 .. n - 1 /\ j + 1 \in Answer(w, key)
      BY <1>7
    <3>2. i + 1 = j + 1
      BY <1>8, <3>1 DEF Single
    <3> QED BY <1>2, <3>1, <3>2
  <2>2. Single(Answer(w, key)')
    BY <2>1 DEF Single
  <2> QED BY <1>7, <2>2
<1>9. ASSUME NEW s \in Rings, NEW key, Single(Answer(s, key))
      PROVE  /\ Single(Answer(s, key)')
             /\ Answer(s, key)' # {} => Answer(s, key) # {}
  <2>1. CASE s = w
    BY <1>8, <1>9, <2>1
  <2>2. CASE s # w
    <3>1. Answer(s, key)' = Answer(s, key)
      BY <1>6, <2>2 DEF Answer, Key
    <3> QED BY <1>9, <3>1
  <2> QED BY <2>1, <2>2
<1>10. ASSUME NEW key, Key(Head(cq[w]).req) = key
       PROVE  /\ Answer(w, key) # {}
              /\ Single(Answer(w, key)) => Answer(w, key)' = {}
  <2>1. 1 \in Answer(w, key)
    BY <1>2, <1>3, <1>10 DEF Answer
  <2>2. ASSUME Single(Answer(w, key)), NEW i \in Answer(w, key)'
        PROVE  FALSE
    <3>1. i \in 1 .. n - 1 /\ i + 1 \in Answer(w, key)
      BY <1>7, <2>2
    <3>2. i + 1 = 1
      BY <2>1, <2>2, <3>1 DEF Single
    <3> QED BY <1>2, <3>1, <3>2
  <2> QED BY <2>1, <2>2
<1> QED BY <1>9, <1>10

(* A step that arms neither in a ring, and moves its worker.               *)
PlaceKeeps(v) ==
  /\ wpc'[v] \in Accepting => wpc[v] \in Accepting
  /\ wpc'[v] \in Unasked => wpc[v] \in Unasked
  /\ wpc'[v] \in Still => wpc[v] \in Still

KeyKeeps(v, key) ==
  /\ Asked(v, key)' \subseteq Asked(v, key)
  /\ Single(Answer(v, key)) => Single(Answer(v, key)')
  /\ Single(Answer(v, key)) => (Answer(v, key)' # {} => Answer(v, key) # {})

(* What is armed once, or not at all, stays so in such a step.             *)
LEMMA ArmKeeps ==
  ASSUME NEW key, NEW r, KeyKeeps(r, key)
  PROVE  /\ Armed(r, key) => Armed(r, key)'
         /\ Armed(r, key) /\ Unarmed(r, key) => Unarmed(r, key)'
<1>1. Single(Asked(r, key)) => Single(Asked(r, key)')
  BY DEF Single, KeyKeeps
<1> QED BY <1>1 DEF Armed, Unarmed, KeyKeeps

(* The accept and the eventfd of a ring stay armed as they should be.      *)
LEMMA ArmKeep ==
  ASSUME NEW r, ArmOf(r), PlaceKeeps(r), KeyKeeps(r, Accept0), KeyKeeps(r, Efd(r))
  PROVE  ArmOf(r)'
<1>1. /\ Armed(r, Accept0) => Armed(r, Accept0)'
      /\ Armed(r, Accept0) /\ Unarmed(r, Accept0) => Unarmed(r, Accept0)'
  BY ArmKeeps
<1>2. /\ Armed(r, Efd(r)) => Armed(r, Efd(r))'
      /\ Armed(r, Efd(r)) /\ Unarmed(r, Efd(r)) => Unarmed(r, Efd(r))'
  BY ArmKeeps
<1> QED BY <1>1, <1>2
        DEF ArmOf, PlaceKeeps, Accept0, Efd, EFD, Accepting, Unasked, Still, AcceptPlaces

(* A step that leaves the rings alone arms nothing.                        *)
LEMMA ArmSteady ==
  ASSUME ArmInv, inflight' = inflight, cq' = cq, \A v \in Rings : PlaceKeeps(v)
  PROVE  ArmInv'
<1>1. \A s, key : Asked(s, key)' = Asked(s, key) /\ Answer(s, key)' = Answer(s, key)
  BY DEF Asked, Answer, Key
<1>2. \A s, key : KeyKeeps(s, key)
  BY <1>1 DEF KeyKeeps
<1> QED BY <1>2, ArmKeep DEF ArmInv

(* A request for neither is added.                                         *)
LEMMA ArmInsert ==
  ASSUME RingInv, ArmInv, NEW sel \in Rings, NEW q,
         inflight' = [inflight EXCEPT ![sel] = @ \cup {q}], cq' = cq,
         \A v \in Rings : PlaceKeeps(v),
         Key(q) # Accept0, \A r \in Rings : Key(q) # Efd(r)
  PROVE  ArmInv'
<1>1. \A s \in Rings : \A key :
        /\ Asked(s, key)' = IF s = sel /\ Key(q) = key THEN Asked(s, key) \cup {q}
                            ELSE Asked(s, key)
        /\ Answer(s, key)' = Answer(s, key)
  BY AskedInsert
<1>2. \A s \in Rings : KeyKeeps(s, Accept0) /\ KeyKeeps(s, Efd(s))
  BY <1>1 DEF KeyKeeps
<1> QED BY <1>2, ArmKeep DEF ArmInv

(* The accept, or the read of its eventfd, is armed in a ring without.     *)
LEMMA ArmArms ==
  ASSUME RingInv, ArmInv, NEW w \in Rings, NEW q, NEW key \in {Accept0, Efd(w)},
         inflight' = [inflight EXCEPT ![w] = @ \cup {q}], cq' = cq,
         Key(q) = key, Unarmed(w, key),
         \A v \in Rings \ {w} : wpc'[v] = wpc[v],
         wpc'[w] \in Accepting => w = 0,
         wpc'[w] \notin Unasked,
         wpc'[w] \in Still => wpc[w] \in Still /\ key # Accept0,
         key = Accept0 => w = 0
  PROVE  ArmInv'
<1>1. \A s \in Rings : \A k :
        /\ Asked(s, k)' = IF s = w /\ Key(q) = k THEN Asked(s, k) \cup {q}
                          ELSE Asked(s, k)
        /\ Answer(s, k)' = Answer(s, k)
  BY AskedInsert
<1>2. ASSUME NEW s \in Rings \ {w}
      PROVE  ArmOf(s)'
  <2>1. PlaceKeeps(s)
    BY DEF PlaceKeeps
  <2>2. KeyKeeps(s, Accept0) /\ KeyKeeps(s, Efd(s))
    BY <1>1 DEF KeyKeeps
  <2> QED BY <2>1, <2>2, ArmKeep DEF ArmInv
<1>3. ASSUME NEW k, Armed(w, k), k # key \/ Unarmed(w, k)
      PROVE  /\ Armed(w, k)'
             /\ k # key /\ Unarmed(w, k) => Unarmed(w, k)'
  <2>1. CASE k # key
    <3>1. Asked(w, k)' = Asked(w, k) /\ Answer(w, k)' = Answer(w, k)
      BY <1>1, <2>1
    <3> QED BY <1>3, <3>1 DEF Armed, Unarmed
  <2>2. CASE k = key
    <3>1. Asked(w, k)' = {q} /\ Answer(w, k)' = {}
      BY <1>1, <1>3, <2>2 DEF Unarmed
    <3> QED BY <2>2, <3>1 DEF Armed, Single
  <2> QED BY <2>1, <2>2
<1>4. ArmOf(w)
  BY DEF ArmInv
<1>5. /\ Armed(w, Accept0)' /\ Armed(w, Efd(w))'
      /\ key # Accept0 /\ Unarmed(w, Accept0) => Unarmed(w, Accept0)'
  BY <1>3, <1>4 DEF ArmOf
<1>6. w # 0 \/ wpc'[w] \in Still => Unarmed(w, Accept0)'
  BY <1>4, <1>5 DEF ArmOf
<1>7. ArmOf(w)'
  BY <1>5, <1>6 DEF ArmOf, Accept0, Efd, EFD, Accepting, Unasked, Still, AcceptPlaces
<1> QED BY <1>2, <1>7 DEF ArmInv

(* add_accept comes when the last accept was handled, add_efd once.        *)
LEMMA ArmAdds ==
  ASSUME ReactorInv, KindInv, DescriptorInv, ArmInv, ResultKept, NEW w \in Rings, Adds(w)
  PROVE  ArmInv'
<1>1. RingInv /\ OutsideInv /\ HeapInv
  BY DEF ReactorInv
<1>2. PICK sel \in Rings, r \in Content, others \in [DOMAIN heap -> Content] :
        /\ Fill(others) /\ Insert(sel, r, others) /\ UNCHANGED rest
        /\ \/ StartEfd(w) /\ sel = w /\ r = Request("read", EFD(w), None, <<>>)
           \/ /\ StartAccept(w) \/ AcceptAgain(w)
              /\ r = Request("accept", ACCEPT_FD, None, <<>>)
           \/ AcceptRead(w) /\ r = Request("read", Result(w), File(Result(w)), <<>>)
           \/ ReadAgain(w) /\ r = Request("read", Fd(w), File(Fd(w)), <<>>)
           \/ /\ ReadRest(w)
              /\ r = [heap[cur[w]] EXCEPT !.conn = File(Fd(w)), !.prev = TRUE]
              /\ others = [heap EXCEPT ![cur[w]].prev = TRUE]
        /\ ~ReadRest(w) => others = heap
  BY AddsFill
<1> DEFINE q == Malloc(r)
<1>3. /\ inflight' = [inflight EXCEPT ![sel] = @ \cup {q}] /\ cq' = cq
      /\ Key(q) = <<r.type, r.fd>>
  BY <1>1, <1>2, InsertHeap, MallocIsFresh DEF Key
<1> HIDE DEF q
<1>4. ArmOf(w)
  BY DEF ArmInv
<1>5. CASE StartEfd(w) /\ sel = w /\ r = Request("read", EFD(w), None, <<>>)
  <2>1. /\ wpc[w] = "queued" /\ wpc'[w] = IF w = 0 THEN "add_accept" ELSE "ready"
        /\ \A v \in Rings \ {w} : wpc'[v] = wpc[v]
    BY <1>1, <1>5 DEF StartEfd, Go, RingInv
  <2>2. Key(q) = Efd(w)
    BY <1>3, <1>5 DEF Request, Efd
  <2>3. Unarmed(w, Efd(w))
    BY <1>4, <2>1 DEF ArmOf, Unasked
  <2>4. /\ wpc'[w] \in Accepting => w = 0
        /\ wpc'[w] \notin Unasked
        /\ wpc[w] \in Still
        /\ Efd(w) # Accept0
    BY <2>1 DEF Accepting, AcceptPlaces, Unasked, Still, Efd, Accept0
  <2>5. inflight' = [inflight EXCEPT ![w] = @ \cup {q}] /\ cq' = cq
    BY <1>3, <1>5
  <2> QED BY <1>1, <2>1, <2>2, <2>3, <2>4, <2>5, ArmArms
<1>6. CASE /\ StartAccept(w) \/ AcceptAgain(w)
           /\ r = Request("accept", ACCEPT_FD, None, <<>>)
  <2>1. /\ wpc[w] \in {"add_accept", "accept_again"} /\ wpc'[w] \in {"ready", "accept_read"}
        /\ \A v \in Rings \ {w} : wpc'[v] = wpc[v]
    BY <1>1, <1>6 DEF StartAccept, AcceptAgain, Go, RingInv
  <2>2. Key(q) = Accept0
    BY <1>3, <1>6 DEF Request, Accept0
  <2>3. Unarmed(w, Accept0) /\ w = 0
    BY <1>4, <2>1 DEF ArmOf, Still, Accepting, AcceptPlaces
  <2>4. wpc'[w] \notin Unasked /\ wpc'[w] \notin Still
    BY <2>1 DEF Unasked, Still
  <2>5. Insert(0, r, heap)
    BY <1>6 DEF StartAccept, AcceptAgain, AddAccept, Add
  <2>6. inflight' = [inflight EXCEPT ![w] = @ \cup {q}] /\ cq' = cq
    BY <2>3, <2>5 DEF Insert, q
  <2> QED BY <1>1, <2>1, <2>2, <2>3, <2>4, <2>6, ArmArms
<1>7. ASSUME AcceptRead(w) \/ ReadAgain(w) \/ ReadRest(w),
             r.fd \in Fds
      PROVE  ArmInv'
  <2>1. /\ wpc'[w] = "delete" /\ \A v \in Rings \ {w} : wpc'[v] = wpc[v]
    BY <1>1, <1>7 DEF AcceptRead, ReadAgain, ReadRest, Go, RingInv
  <2>2. \A v \in Rings : PlaceKeeps(v)
    BY <2>1 DEF PlaceKeeps, Accepting, AcceptPlaces, Unasked, Still
  <2>3. Key(q) # Accept0 /\ \A s \in Rings : Key(q) # Efd(s)
    <3>1. r.fd # ACCEPT_FD /\ \A s \in Rings : r.fd # EFD(s)
      BY <1>7, ReactorAssumption DEF ACCEPT_FD, EFD, Rings
    <3> QED BY <1>3, <3>1 DEF Accept0, Efd
  <2> QED BY <1>1, <1>3, <2>2, <2>3, ArmInsert
<1>8. CASE AcceptRead(w) /\ r = Request("read", Result(w), File(Result(w)), <<>>)
  <2>1. wpc[w] = "accept_read"
    BY <1>8 DEF AcceptRead, Go
  <2>2. Result(w) \in Fds
    BY <2>1, InHand DEF Handling, DescriptorInv, ResultInv, ResultOf, AcceptPlaces
  <2> QED BY <1>7, <1>8, <2>2 DEF Request
<1>9. CASE ReadAgain(w) /\ r = Request("read", Fd(w), File(Fd(w)), <<>>)
  <2>1. wpc[w] = "read_again"
    BY <1>9 DEF ReadAgain, Go
  <2>2. Fd(w) \in Fds
    BY <2>1, KnownConn DEF ReadPlaces
  <2> QED BY <1>7, <1>9, <2>2 DEF Request
<1>10. CASE /\ ReadRest(w)
            /\ r = [heap[cur[w]] EXCEPT !.conn = File(Fd(w)), !.prev = TRUE]
  <2>1. wpc[w] = "data"
    BY <1>10 DEF ReadRest, Go
  <2>2. Fd(w) \in Fds
    BY <2>1, KnownConn DEF ReadPlaces
  <2>3. heap[cur[w]] \in Content /\ heap[cur[w]].fd = Fd(w)
    BY <2>1, InHand DEF Handling, Fd
  <2>4. r.fd = heap[cur[w]].fd
    BY <1>10, <2>3 DEF Content
  <2> QED BY <1>7, <1>10, <2>2, <2>3, <2>4
<1> QED BY <1>2, <1>5, <1>6, <1>8, <1>9, <1>10

(* saurion_send arms neither.                                              *)
LEMMA ArmSend ==
  ASSUME ReactorInv, ArmInv, Submit
  PROVE  ArmInv'
<1>1. RingInv /\ HeapInv
  BY DEF ReactorInv
<1>2. PICK k \in calls, sel \in Rings, r \in Content :
        /\ r.type = "write" /\ Insert(sel, r, heap) /\ Fill(heap)
        /\ UNCHANGED <<outside, workers, told>>
  BY SubmitAdds
<1>3. /\ inflight' = [inflight EXCEPT ![sel] = @ \cup {Malloc(r)}] /\ cq' = cq
      /\ Malloc(r)[1] = "write"
  BY <1>1, <1>2, InsertHeap, MallocIsFresh
<1>4. \A v \in Rings : PlaceKeeps(v)
  BY <1>2 DEF workers, PlaceKeeps
<1>5. Key(Malloc(r)) # Accept0 /\ \A s \in Rings : Key(Malloc(r)) # Efd(s)
  BY <1>3 DEF Key, Accept0, Efd
<1> QED BY <1>1, <1>3, <1>4, <1>5, ArmInsert

(* A completed accept leaves the ring for its completion queue.            *)
LEMMA ArmComplete ==
  ASSUME ReactorInv, DescriptorInv, ArmInv, NEW r \in Rings, Complete(r)
  PROVE  ArmInv'
<1>1. RingInv
  BY DEF ReactorInv
<1>2. PICK q \in inflight[r], x \in Int : Post(r, q, x)
  BY CompletePosts
<1>3. wpc' = wpc
  BY <1>2 DEF Post, workers
<1>4. ASSUME NEW s \in Rings, NEW key, Armed(s, key)
      PROVE  /\ Armed(s, key)'
             /\ Unarmed(s, key) => Unarmed(s, key)'
  <2>1. /\ Asked(s, key)' = IF s = r THEN Asked(s, key) \ {q} ELSE Asked(s, key)
        /\ Answer(s, key)' = IF s = r /\ Key(q) = key
                             THEN Answer(s, key) \cup {Len(cq[r]) + 1}
                             ELSE Answer(s, key)
        /\ Key(q) = key => q \in Asked(r, key)
    BY <1>1, <1>2, AskedPost
  <2>2. CASE s = r /\ Key(q) = key
    <3>1. Asked(s, key) = {q} /\ Answer(s, key) = {}
      BY <1>4, <2>1, <2>2 DEF Armed, Single
    <3>2. Asked(s, key)' = {} /\ Answer(s, key)' = {Len(cq[r]) + 1}
      BY <2>1, <2>2, <3>1
    <3>3. ~Unarmed(s, key)
      BY <3>1 DEF Unarmed
    <3> QED BY <3>2, <3>3 DEF Armed, Single
  <2>3. CASE ~(s = r /\ Key(q) = key)
    <3>1. Asked(s, key)' \subseteq Asked(s, key) /\ Answer(s, key)' = Answer(s, key)
      BY <2>1, <2>3
    <3> QED BY <1>4, <3>1 DEF Armed, Unarmed, Single
  <2> QED BY <2>2, <2>3
<1>5. ASSUME NEW s \in Rings
      PROVE  ArmOf(s)'
  <2>1. ArmOf(s)
    BY DEF ArmInv
  <2>2. /\ Armed(s, Accept0)' /\ Armed(s, Efd(s))'
        /\ Unarmed(s, Accept0) => Unarmed(s, Accept0)'
        /\ Unarmed(s, Efd(s)) => Unarmed(s, Efd(s))'
    BY <1>4, <2>1 DEF ArmOf
  <2> QED BY <1>3, <2>1, <2>2 DEF ArmOf, Accept0, Efd, EFD, Accepting, Unasked, Still, AcceptPlaces
<1> QED BY <1>5 DEF ArmInv

(* The accept leaves its completion queue for the hands of the master.     *)
LEMMA ArmReap ==
  ASSUME ReactorInv, DescriptorInv, ArmInv, NEW w \in Rings, Reap(w)
  PROVE  ArmInv'
<1>1. RingInv /\ HeapInv
  BY DEF ReactorInv
<1>2. /\ wpc[w] = "wait" /\ cq[w] # <<>>
      /\ wpc' = [wpc EXCEPT ![w] = heap[Head(cq[w]).req].type]
      /\ cq' = [cq EXCEPT ![w] = Tail(@)] /\ inflight' = inflight
  BY DEF Reap, Go
<1>3. PICK q : q = Head(cq[w]).req
  OBVIOUS
<1>4. q \in Queue(w) /\ q \in Addresses
  BY <1>1, <1>2, <1>3, QueueHead
<1>5. q \in DOMAIN heap
  BY <1>2, <1>4 DEF ReactorInv, HoldInv, Owned, Alive
<1>6. heap[q].type = q[1] /\ q[1] \in Kinds /\ (q[1] = "accept" => q[2] = ACCEPT_FD)
  BY <1>1, <1>4, <1>5 DEF HeapInv, Addresses, DescriptorInv, FdInv
<1>7. wpc'[w] = q[1] /\ \A v \in Rings \ {w} : wpc'[v] = wpc[v]
  BY <1>1, <1>2, <1>3, <1>6 DEF RingInv
<1>8. ASSUME NEW s \in Rings, NEW key
      PROVE  KeyKeeps(s, key)
  <2>1. Asked(s, key)' = Asked(s, key)
    BY <1>2 DEF Asked, Key
  <2>2. Single(Answer(s, key)) => /\ Single(Answer(s, key)')
                                  /\ Answer(s, key)' # {} => Answer(s, key) # {}
    BY <1>1, <1>2, AnswerTake
  <2> QED BY <2>1, <2>2 DEF KeyKeeps
<1>9. ASSUME NEW v \in Rings, v # w \/ q[1] # "accept"
      PROVE  ArmOf(v)'
  <2>1. PlaceKeeps(v)
    BY <1>6, <1>7, <1>9 DEF PlaceKeeps, Accepting, AcceptPlaces, Unasked, Still, Kinds
  <2> QED BY <1>8, <2>1, ArmKeep DEF ArmInv
<1>10. CASE q[1] = "accept"
  <2>1. Key(q) = Accept0
    BY <1>6, <1>10 DEF Key, Accept0
  <2>2. ArmOf(w)
    BY DEF ArmInv
  <2>3. Answer(w, Accept0) # {} /\ (Single(Answer(w, Accept0)) => Answer(w, Accept0)' = {})
    BY <1>1, <1>2, <1>3, <2>1, AnswerTake
  <2>4. w = 0 /\ Asked(w, Accept0) = {} /\ Answer(w, Accept0)' = {}
    BY <2>2, <2>3 DEF ArmOf, Armed, Unarmed
  <2>5. Asked(w, Accept0)' = {}
    BY <1>2, <2>4 DEF Asked, Key, Accept0
  <2>6. Unarmed(w, Accept0)' /\ Armed(w, Accept0)'
    BY <2>4, <2>5 DEF Unarmed, Armed, Single, Accept0
  <2>7. Armed(w, Efd(w))'
    BY <1>8, <2>2, ArmKeeps DEF ArmOf
  <2>8. wpc'[w] \notin Unasked
    BY <1>7, <1>10 DEF Unasked
  <2>9. ArmOf(w)'
    BY <2>4, <2>6, <2>7, <2>8 DEF ArmOf, Accept0, Efd, EFD, Accepting, Unasked, Still, AcceptPlaces
  <2> QED BY <1>9, <2>9 DEF ArmInv
<1> QED BY <1>9, <1>10 DEF ArmInv

(* The other steps.                                                        *)
LEMMA ArmGo ==
  ASSUME RingInv, NEW w \in Rings, NEW from, NEW to, Go(w, from, to),
         \/ to \in {"wait", "ready", "exit", "done", "dead", "closing", "closed", "data",
                    "read_again", "delete"}
         \/ from = "accept" /\ to = "accept_again"
  PROVE  \A v \in Rings : PlaceKeeps(v)
<1>1. wpc[w] = from /\ wpc'[w] = to /\ \A v \in Rings \ {w} : wpc'[v] = wpc[v]
  BY DEF Go, RingInv
<1> QED BY <1>1 DEF PlaceKeeps, Accepting, AcceptPlaces, Unasked, Still

(* The handlers arm neither.                                               *)
LEMMA ArmHandlers ==
  ASSUME ReactorInv, ArmInv, NEW w \in Rings, HandlerStep(w)
  PROVE  ArmInv'
<1>1. inflight' = inflight /\ cq' = cq
  BY DEF HandlerStep, Ready, HandleAccept, OnConnected, DispatchRead, HandleClose, OnClosed,
         CloseFd, OnReaded, HandleWrite, OnWrote, Exit, ringv
<1>2. PICK from, to :
        /\ Go(w, from, to)
        /\ \/ to \in {"wait", "ready", "exit", "done", "dead", "closing", "closed", "data",
                      "read_again", "delete"}
           \/ from = "accept" /\ to = "accept_again"
  BY DEF HandlerStep, Ready, HandleAccept, DispatchRead, HandleClose, OnReaded,
         HandleWrite, Exit
<1>3. \A v \in Rings : PlaceKeeps(v)
  BY <1>2, ArmGo DEF ReactorInv
<1> QED BY <1>1, <1>3, ArmSteady

(* The end of a turn of the event loop arms neither.                       *)
LEMMA ArmLoop ==
  ASSUME ReactorInv, ArmInv, NEW w \in Rings,
         ReapStop(w) \/ ReapFailure(w) \/ WaitFails(w) \/ Delete(w)
  PROVE  ArmInv'
<1>1. RingInv
  BY DEF ReactorInv
<1>2. PICK from, to : Go(w, from, to) /\ to \in {"exit", "dead", "wait"}
  BY DEF ReapStop, ReapedStop, ReapFailure, WaitFails, Delete
<1>3. \A v \in Rings : PlaceKeeps(v)
  BY <1>1, <1>2, ArmGo
<1>4. inflight' = inflight
  BY DEF ReapStop, ReapedStop, ReapFailure, WaitFails, Delete, ringv
<1>5. CASE cq' = cq
  BY <1>3, <1>4, <1>5, ArmSteady
<1>6. CASE ReapStop(w)
  <2>1. cq[w] # <<>> /\ cq' = [cq EXCEPT ![w] = Tail(@)]
    BY <1>6 DEF ReapStop, ReapedStop
  <2>2. ASSUME NEW s \in Rings, NEW key
        PROVE  KeyKeeps(s, key)
    <3>1. Asked(s, key)' = Asked(s, key)
      BY <1>4 DEF Asked, Key
    <3>2. Single(Answer(s, key)) => /\ Single(Answer(s, key)')
                                    /\ Answer(s, key)' # {} => Answer(s, key) # {}
      BY <1>1, <2>1, AnswerTake
    <3> QED BY <3>1, <3>2 DEF KeyKeeps
  <2> QED BY <1>3, <2>2, ArmKeep DEF ArmInv
<1> QED BY <1>5, <1>6 DEF ReapFailure, WaitFails, Delete, ringv

(* Peers and the owner arm neither; a worker starts with none armed.       *)
LEMMA ArmOthers ==
  ASSUME ReactorInv, ArmInv,
         \/ \E c \in Conns : PeerConnect(c) \/ PeerSend(c) \/ PeerClose(c)
         \/ OwnerGoes \/ UNCHANGED vars
  PROVE  ArmInv'
<1>1. inflight' = inflight /\ cq' = cq
  BY DEF PeerConnect, PeerSend, PeerClose, Peer, OwnerGoes, StartTask, Stop, StopSignal,
         SignalUpTo, StopDrained, Destroy, DestroyWait, vars, ringv
<1>2. \A v \in Rings : PlaceKeeps(v)
  <2>1. CASE wpc' = wpc
    BY <2>1 DEF PlaceKeeps
  <2>2. CASE StartTask
    <3>1. opc = "starting" /\ wpc' = [wpc EXCEPT ![oi] = "queued"]
      BY <2>2 DEF StartTask, Owner
    <3>2. oi \in Rings /\ wpc[oi] = "none"
      BY <3>1 DEF ReactorInv, OwnerInv, Rings
    <3>3. \A v \in Rings : wpc'[v] = IF v = oi THEN "queued" ELSE wpc[v]
      BY <3>1 DEF ReactorInv, RingInv
    <3> QED BY <3>2, <3>3 DEF PlaceKeeps, Accepting, AcceptPlaces, Unasked, Still
  <2> QED BY <2>1, <2>2 DEF PeerConnect, PeerSend, PeerClose, OwnerGoes, Stop, StopSignal,
             SignalUpTo, StopDrained, Destroy, DestroyWait, vars, workers
<1> QED BY <1>1, <1>2, ArmSteady

(* saurion_destroy disarms both.                                           *)
LEMMA ArmFree ==
  ASSUME ReactorInv, ArmInv, DestroyFree
  PROVE  ArmInv'
<1>1. /\ inflight' = [r \in Rings |-> {}] /\ cq' = [r \in Rings |-> <<>>]
      /\ wpc' = wpc
  BY DEF DestroyFree, workers
<1>2. \A s \in Rings : \A key : Asked(s, key)' = {} /\ Answer(s, key)' = {}
  BY <1>1 DEF Asked, Answer, Key
<1>3. \A s \in Rings : KeyKeeps(s, Accept0) /\ KeyKeeps(s, Efd(s)) /\ PlaceKeeps(s)
  BY <1>1, <1>2 DEF KeyKeeps, Single, PlaceKeeps
<1> QED BY <1>3, ArmKeep DEF ArmInv

-----------------------------------------------------------------------------
(* The theorems.                                                           *)

(* Initially no descriptor is open.                                        *)
LEMMA DescriptorInvInit ==
  ASSUME Init
  PROVE  DescriptorInv
<1>1. /\ heap = EmptyBag /\ inflight = [r \in Rings |-> {}] /\ cq = [r \in Rings |-> <<>>]
      /\ wpc = [w \in Rings |-> "none"] /\ cur = [w \in Rings |-> None]
      /\ file = [f \in Fds |-> None] /\ told = [f \in Fds |-> None] /\ calls = {}
  BY DEF Init
<1>2. DOMAIN heap = {}
  BY <1>1 DEF EmptyBag, SetToBag
<1>3. FdInv /\ SentInv
  BY <1>1, <1>2 DEF FdInv, SentInv, RightWhileOpen, Held
<1>4. ResultInv
  BY <1>1 DEF ResultInv, ResultOf, AcceptPlaces, ReadPlaces
<1>5. BatonInv
  <2> SUFFICES ASSUME NEW f \in Fds
               PROVE  BatonOf(f) /\ ToldOf(f)
    BY DEF BatonInv
  <2>1. Waits(f) = {} /\ \A k : Entries(f, k) = {}
    BY <1>1 DEF Waits, Entries
  <2>2. Hands(f, Fresh) = {} /\ Hands(f, Known) = {}
    BY <1>1 DEF Hands, Fresh, Known, AcceptPlaces, ReadPlaces
  <2>3. told[f] = None
    BY <1>1
  <2> QED BY <2>1, <2>2, <2>3 DEF BatonOf, ToldOf, Posted, Handled, Single
<1>6. RestInv
  BY ReactorAssumption DEF Init, RestInv
<1> QED BY <1>3, <1>4, <1>5, <1>6 DEF DescriptorInv

(* Every step keeps the baton of each descriptor in one place.             *)
LEMMA DescriptorInvNext ==
  ASSUME ReactorInv, CountInv, DescriptorInv, ResultKept, [Next]_vars
  PROVE  DescriptorInv'
<1>1. KindInv
  BY DEF CountInv
<1>2. FdInv /\ ResultInv /\ BatonInv
  BY DEF DescriptorInv
<1>3. ASSUME FdInv' /\ ResultInv' /\ SentInv' /\ RestInv', BatonInv'
      PROVE  DescriptorInv'
  BY <1>3 DEF DescriptorInv
<1>4. ASSUME \/ \E c \in Conns : PeerConnect(c) \/ PeerSend(c) \/ PeerClose(c)
             \/ OwnerGoes \/ UNCHANGED vars
      PROVE  DescriptorInv'
  BY <1>2, <1>3, <1>4, PlainOthers, BatonOthers
<1>5. CASE DestroyFree
  BY <1>2, <1>3, <1>5, PlainFree, BatonFree
<1>6. CASE Send \/ Submit
  <2>1. CASE Send
    <3>1. UNCHANGED <<inflight, cq, file, told>> /\ \A v \in Rings : HandKeeps(v)
      BY <2>1 DEF Send, ringv, outside, workers, HandKeeps, Working
    <3> QED BY <1>2, <1>3, <2>1, <3>1, PlainCall, BatonSteady
  <2>2. CASE Submit
    BY <1>2, <1>3, <2>2, PlainSend, BatonSend
  <2> QED BY <1>6, <2>1, <2>2
<1>7. ASSUME NEW r \in Rings, Complete(r)
      PROVE  DescriptorInv'
  BY <1>1, <1>2, <1>3, <1>7, PlainComplete, BatonComplete
<1>8. ASSUME NEW w \in Rings, Worker(w) \/ WaitFails(w)
      PROVE  DescriptorInv'
  <2>1. CASE Reap(w)
    BY <1>2, <1>3, <2>1, PlainReap, BatonReap
  <2>2. CASE ReapStop(w) \/ ReapFailure(w) \/ WaitFails(w) \/ Delete(w)
    BY <1>2, <1>3, <2>2, PlainLoop, BatonLoop
  <2>3. CASE HandlerStep(w)
    BY <1>2, <1>3, <2>3, PlainHandlers, BatonHandlers
  <2>4. CASE Adds(w)
    BY <1>1, <1>2, <1>3, <2>4, PlainAdds, BatonAdds
  <2>5. \/ ReapFailure(w) \/ WaitFails(w) \/ Reap(w) \/ ReapStop(w) \/ Delete(w)
        \/ HandlerStep(w) \/ Adds(w)
    BY <1>8 DEF Worker, HandlerStep, Adds, Accept
  <2> QED BY <2>1, <2>2, <2>3, <2>4, <2>5
<1> QED BY <1>4, <1>5, <1>6, <1>7, <1>8 DEF Next, OwnerStep, OwnerGoes

(* Initially nothing is in a ring.                                         *)
LEMMA ArmInvInit ==
  ASSUME Init
  PROVE  ArmInv
<1>1. /\ inflight = [r \in Rings |-> {}] /\ cq = [r \in Rings |-> <<>>]
      /\ wpc = [w \in Rings |-> "none"]
  BY DEF Init
<1>2. \A s \in Rings : \A key : Asked(s, key) = {} /\ Answer(s, key) = {}
  BY <1>1 DEF Asked, Answer
<1>3. \A s \in Rings : \A key : Armed(s, key) /\ Unarmed(s, key)
  BY <1>2 DEF Armed, Unarmed, Single
<1> QED BY <1>1, <1>3 DEF ArmInv, ArmOf, Accepting, AcceptPlaces

(* Every step keeps the accept and the eventfds armed once.                *)
LEMMA ArmInvNext ==
  ASSUME ReactorInv, CountInv, DescriptorInv, ArmInv, ResultKept, [Next]_vars
  PROVE  ArmInv'
<1>1. KindInv
  BY DEF CountInv
<1>2. CASE \/ \E c \in Conns : PeerConnect(c) \/ PeerSend(c) \/ PeerClose(c)
           \/ OwnerGoes \/ UNCHANGED vars
  BY <1>2, ArmOthers
<1>3. CASE DestroyFree
  BY <1>3, ArmFree
<1>4. CASE Send \/ Submit
  <2>1. CASE Send
    <3>1. inflight' = inflight /\ cq' = cq /\ \A v \in Rings : PlaceKeeps(v)
      BY <2>1 DEF Send, ringv, workers, PlaceKeeps
    <3> QED BY <3>1, ArmSteady
  <2> QED BY <1>4, <2>1, ArmSend
<1>5. ASSUME NEW r \in Rings, Complete(r)
      PROVE  ArmInv'
  BY <1>5, ArmComplete
<1>6. ASSUME NEW w \in Rings, Worker(w) \/ WaitFails(w)
      PROVE  ArmInv'
  <2>1. \/ ReapFailure(w) \/ WaitFails(w) \/ Reap(w) \/ ReapStop(w) \/ Delete(w)
        \/ HandlerStep(w) \/ Adds(w)
    BY <1>6 DEF Worker, HandlerStep, Adds, Accept
  <2> QED BY <1>1, <2>1, ArmReap, ArmLoop, ArmHandlers, ArmAdds
<1> QED BY <1>2, <1>3, <1>4, <1>5, <1>6 DEF Next, OwnerStep, OwnerGoes

(* Two finite sets have at most the elements of both.                      *)
LEMMA UnionBound ==
  ASSUME NEW S, NEW T, NEW m \in Nat, NEW n \in Nat,
         IsFiniteSet(S), IsFiniteSet(T), Cardinality(S) <= m, Cardinality(T) <= n
  PROVE  IsFiniteSet(S \cup T) /\ Cardinality(S \cup T) <= m + n
<1>1. /\ IsFiniteSet(S \cup T) /\ IsFiniteSet(S \cap T)
      /\ Cardinality(S \cup T) = Cardinality(S) + Cardinality(T) - Cardinality(S \cap T)
  BY FS_Union, FS_Intersection
<1>2. /\ Cardinality(S) \in Nat /\ Cardinality(T) \in Nat
      /\ Cardinality(S \cap T) \in Nat
  BY <1>1, FS_CardinalityType
<1> QED BY <1>1, <1>2

(* What is in one place at most is at most one.                            *)
LEMMA SingleBound ==
  ASSUME NEW S, Single(S)
  PROVE  IsFiniteSet(S) /\ Cardinality(S) <= 1
<1>1. CASE S = {}
  BY <1>1, FS_EmptySet
<1>2. CASE S # {}
  <2>1. PICK x : x \in S
    BY <1>2
  <2>2. \A y \in S : y = x
    BY <2>1 DEF Single
  <2>3. S = {x}
    BY <2>1, <2>2
  <2>4. IsFiniteSet({x}) /\ Cardinality({x}) = 1
    BY FS_Singleton
  <2> QED BY <2>3, <2>4
<1> QED BY <1>1, <1>2

(* The queue of a worker that lives never holds more than the accept, the  *)
(* read of its eventfd, a read of each descriptor and the messages that    *)
(* are not confirmed yet.                                                  *)
LEMMA QueueFits ==
  ASSUME ReactorInv, DescriptorInv, ArmInv, IsFiniteSet(Fds),
         NEW w \in Rings, Alive(w)
  PROVE  /\ Len(cq[w]) <= Cardinality(Fds) + Cardinality(Unconfirmed) + 2
         /\ Len(cq[w]) \in Nat /\ Cardinality(Unconfirmed) \in Nat
<1> DEFINE E == [req : Addresses, res : Int]
           D == DOMAIN cq[w]
           A == Answer(w, Accept0)
           B == Answer(w, Efd(w))
           C == {i \in D : cq[w][i].req[1] = "read" /\ cq[w][i].req[2] \in Fds}
           M == {i \in D : cq[w][i].req[1] = "write"}
<1>1. RingInv /\ HeapInv /\ HoldInv
  BY DEF ReactorInv
<1>2. cq[w] \in Seq(E)
  BY <1>1 DEF RingInv
<1>3. Len(cq[w]) \in Nat /\ D = 1 .. Len(cq[w])
  BY <1>2, LenProperties
<1>4. \A i \in D : cq[w][i].req \in Queue(w)
  BY DEF Queue
<1>5. Queue(w) \subseteq Addresses /\ Queue(w) \subseteq DOMAIN heap
  BY <1>1, QueueTypes DEF HoldInv, Owned
<1>6. D = (A \cup B) \cup (C \cup M)
  <2>1. ASSUME NEW i \in D
        PROVE  i \in (A \cup B) \cup (C \cup M)
    <3>1. PICK q : q = cq[w][i].req
      OBVIOUS
    <3>2. q \in Addresses /\ q \in DOMAIN heap /\ q \in Held(w)
      BY <1>4, <1>5, <2>1, <3>1 DEF Held, Queue
    <3>3. q[1] \in Kinds
      BY <3>2 DEF Addresses
    <3>4. CASE q[1] = "accept"
      <4>1. Key(q) = Accept0
        BY <3>2, <3>4 DEF DescriptorInv, FdInv, Key, Accept0
      <4> QED BY <3>1, <4>1 DEF Answer
    <3>5. CASE q[1] = "read" /\ q[2] = EFD(w)
      BY <3>1, <3>5 DEF Answer, Key, Efd
    <3>6. CASE q[1] = "read" /\ q[2] # EFD(w)
      <4>1. q[2] \in Fds
        BY <3>2, <3>6 DEF DescriptorInv, FdInv
      <4> QED BY <3>1, <3>6, <4>1
    <3>7. CASE q[1] = "write"
      BY <3>1, <3>7
    <3> QED BY <3>3, <3>4, <3>5, <3>6, <3>7 DEF Kinds
  <2>2. A \subseteq D /\ B \subseteq D /\ C \subseteq D /\ M \subseteq D
    BY DEF Answer
  <2> QED BY <2>1, <2>2
<1>7. Single(A) /\ Single(B)
  BY DEF ArmInv, ArmOf, Armed
<1>8. /\ IsFiniteSet(A) /\ Cardinality(A) <= 1
      /\ IsFiniteSet(B) /\ Cardinality(B) <= 1
  BY <1>7, SingleBound
<1>9. IsFiniteSet(C) /\ Cardinality(C) <= Cardinality(Fds)
  <2> DEFINE h == [i \in C |-> cq[w][i].req[2]]
  <2>1. ASSUME NEW i \in C, NEW j \in C, h[i] = h[j]
        PROVE  i = j
    <3>1. PICK f \in Fds : f = cq[w][i].req[2] /\ f = cq[w][j].req[2]
      BY <2>1
    <3>2. \A k \in C : cq[w][k].req[2] = f => <<w, k>> \in Entries(f, "read")
      <4> SUFFICES ASSUME NEW k \in C, cq[w][k].req[2] = f
                   PROVE  <<w, k>> \in Entries(f, "read")
        OBVIOUS
      <4>1. cq[w][k].req[1] = "read" /\ About(cq[w][k]) = f
        BY DEF About
      <4>2. <<w, k>> \in UNION {{r} \X DOMAIN cq[r] : r \in Rings}
        OBVIOUS
      <4> QED BY <4>1, <4>2 DEF Entries
    <3>3. Single(Posted(f))
      BY DEF DescriptorInv, BatonInv, BatonOf
    <3>4. <<w, i>> = <<w, j>>
      <4>1. <<w, i>> \in Posted(f) /\ <<w, j>> \in Posted(f)
        BY <2>1, <3>1, <3>2 DEF Posted
      <4> QED BY <3>3, <4>1 DEF Single
    <3> QED BY <3>4
  <2>2. h \in [C -> Fds]
    OBVIOUS
  <2>3. h \in Injection(C, Fds)
    <3> HIDE DEF h, C
    <3> QED BY <2>1, <2>2 DEF Injection, IsInjective
  <2> HIDE DEF h, C
  <2> QED BY <2>3, FS_Injection
<1>10. /\ IsFiniteSet(M) /\ Cardinality(M) <= Cardinality(Unconfirmed)
       /\ Cardinality(Unconfirmed) \in Nat
  <2> DEFINE h == [i \in M |-> cq[w][i].req]
  <2>1. IsFiniteSet(Unconfirmed) /\ Cardinality(Unconfirmed) \in Nat
    <3>1. IsFiniteSet(Unconfirmed)
      BY <1>1, FS_Subset DEF HeapInv, Unconfirmed
    <3> QED BY <3>1, FS_CardinalityType
  <2>2. \A q \in Queue(w) : q \notin Deleting
    <3> SUFFICES ASSUME NEW v \in Rings, wpc[v] = "delete", cur[v] \in Queue(w)
                 PROVE  FALSE
      BY DEF Deleting
    <3>1. cur[v] # None
      BY <1>1 DEF RingInv, Handling
    <3>2. cur[v] \in Owned(v) /\ cur[v] \in Owned(w)
      BY <3>1 DEF Owned
    <3>3. v = w
      BY <1>1, <3>2 DEF HoldInv
    <3> QED BY <1>1, <3>3 DEF HoldInv
  <2>3. h \in [M -> Unconfirmed]
    <3> SUFFICES ASSUME NEW i \in M
                 PROVE  cq[w][i].req \in Unconfirmed
      OBVIOUS
    <3>1. cq[w][i].req \in Queue(w) /\ cq[w][i].req[1] = "write"
      BY <1>4
    <3>2. cq[w][i].req \in DOMAIN heap
      BY <1>5, <3>1
    <3>3. heap[cq[w][i].req].type = "write"
      BY <1>1, <3>1, <3>2 DEF HeapInv
    <3> QED BY <2>2, <3>1, <3>2, <3>3 DEF Unconfirmed
  <2>4. \A i, j \in M : h[i] = h[j] => i = j
    BY <1>1 DEF HoldInv, Once
  <2>5. h \in Injection(M, Unconfirmed)
    <3> HIDE DEF h, M
    <3> QED BY <2>3, <2>4 DEF Injection, IsInjective
  <2> HIDE DEF h, M
  <2> QED BY <2>1, <2>5, FS_Injection
<1> HIDE DEF A, B, C, M, D
<1>11. PICK n \in Nat, m \in Nat : n = Cardinality(Fds) /\ m = Cardinality(Unconfirmed)
  BY <1>10, FS_CardinalityType
<1>12. IsFiniteSet(A \cup B) /\ Cardinality(A \cup B) <= 2
  <2>1. Cardinality(A \cup B) <= 1 + 1 /\ IsFiniteSet(A \cup B)
    BY <1>8, UnionBound
  <2> QED BY <2>1
<1>13. IsFiniteSet(C \cup M) /\ Cardinality(C \cup M) <= n + m
  BY <1>9, <1>10, <1>11, UnionBound
<1>14. Cardinality(D) <= 2 + (n + m)
  <2>1. PICK k \in Nat : k = n + m
    BY <1>11
  <2>2. Cardinality((A \cup B) \cup (C \cup M)) <= 2 + k
    BY <1>12, <1>13, <2>1, UnionBound
  <2> QED BY <1>6, <2>1, <2>2
<1>15. Cardinality(D) = Len(cq[w])
  <2>1. CASE Len(cq[w]) = 0
    BY <1>3, <2>1, FS_EmptySet
  <2>2. CASE Len(cq[w]) # 0
    <3>1. Cardinality(1 .. Len(cq[w])) = Len(cq[w])
      <4> PICK l : l = Len(cq[w])
        OBVIOUS
      <4>1. 1 \in Int /\ l \in Int /\ ~(1 > l)
        BY <1>3, <2>2
      <4> QED BY <1>3, <4>1, FS_Interval
    <3> QED BY <1>3, <3>1
  <2> QED BY <2>1, <2>2
<1> QED BY <1>3, <1>10, <1>11, <1>14, <1>15

(* The invariant holds as long as no result was written over.              *)
LEMMA DescriptorInvariant == Spec /\ []ResultKept => []DescriptorInv
<1>1. Init => DescriptorInv
  BY DescriptorInvInit
<1>2. ReactorInv /\ CountInv /\ DescriptorInv /\ ResultKept /\ [Next]_vars
        => DescriptorInv'
  BY DescriptorInvNext
<1> QED BY <1>1, <1>2, ReactorInvariant, CountInvariant, PTL DEF Spec

(* As long as a queue has room for all that can complete at a time, no     *)
(* handler finds its result written over, although it gave the entry back  *)
(* before it reads it.                                                     *)
THEOREM EnoughRoom == Spec => KeptWhileRoom
<1>1. ReactorInv /\ DescriptorInv /\ ArmInv /\ RoomLeft => ResultKept
  <2> SUFFICES ASSUME ReactorInv, DescriptorInv, ArmInv, RoomLeft,
                      NEW w \in Rings, wpc[w] \in Handling
               PROVE  Result(w) = cqres[w]
    BY DEF ResultKept
  <2>1. Alive(w)
    BY DEF Alive, Handling
  <2>2. /\ Len(cq[w]) <= Cardinality(Fds) + Cardinality(Unconfirmed) + 2
        /\ Len(cq[w]) \in Nat /\ Cardinality(Unconfirmed) \in Nat
    BY <2>1, QueueFits DEF RoomLeft
  <2>3. Cardinality(Fds) \in Nat /\ CqSize \in Nat
    BY FS_CardinalityType, ReactorAssumption DEF RoomLeft
  <2>4. Len(cq[w]) # CqSize
    BY <2>2, <2>3 DEF RoomLeft
  <2> QED BY <2>4 DEF Result
<1>2. Init => DescriptorInv /\ ArmInv
  BY DescriptorInvInit, ArmInvInit
<1>3. /\ ReactorInv /\ CountInv /\ DescriptorInv /\ ArmInv /\ ResultKept /\ [Next]_vars
      => DescriptorInv' /\ ArmInv'
  BY DescriptorInvNext, ArmInvNext
<1>4. Spec /\ []RoomLeft => []ResultKept
  BY <1>1, <1>2, <1>3, ReactorInvariant, CountInvariant, PTL DEF Spec
<1> QED BY <1>4 DEF KeptWhileRoom

(* A descriptor is read by one request at a time, whatever rings its       *)
(* requests go to: what arrives on it is handled in order.                 *)
THEOREM OneReaderAtATime == Spec /\ []ResultKept => []OneReader
<1>1. ReactorInv /\ DescriptorInv => OneReader
  <2> SUFFICES ASSUME ReactorInv, DescriptorInv, NEW f \in Fds
               PROVE  Cardinality(Reading(f)) <= 1
    BY DEF OneReader
  <2>1. BatonOf(f)
    BY DEF DescriptorInv, BatonInv
  <2>2. ASSUME NEW q \in Reading(f)
        PROVE  \/ q \in Waits(f)
               \/ \E u \in Posted(f) : q = cq[u[1]][u[2]].req
    <3>1. q[1] = "read" /\ q[2] = f
      BY <2>2 DEF Reading, ReactorInv, HeapInv
    <3>2. PICK r \in Rings : q \in inflight[r] \cup {cq[r][i].req : i \in DOMAIN cq[r]}
      BY <2>2 DEF Reading
    <3>3. CASE q \in inflight[r]
      BY <3>1, <3>3 DEF Waits
    <3>4. ASSUME NEW i \in DOMAIN cq[r], q = cq[r][i].req
          PROVE  \E u \in Posted(f) : q = cq[u[1]][u[2]].req
      <4>1. <<r, i>> \in Entries(f, "read")
        BY <3>1, <3>4 DEF Entries, About
      <4> QED BY <3>4, <4>1 DEF Posted
    <3> QED BY <3>2, <3>3, <3>4
  <2>3. ASSUME NEW p \in Reading(f), NEW q \in Reading(f)
        PROVE  p = q
    BY <2>1, <2>2 DEF BatonOf, Single
  <2>4. CASE Reading(f) = {}
    BY <2>4, FS_EmptySet
  <2>5. CASE Reading(f) # {}
    <3>1. PICK q : Reading(f) = {q}
      BY <2>3, <2>5
    <3> QED BY <3>1, FS_Singleton
  <2> QED BY <2>4, <2>5
<1> QED BY <1>1, ReactorInvariant, DescriptorInvariant, PTL

(* A message given to saurion_send for a connection is written to that     *)
(* connection, or on_closed was called for it between the call and the     *)
(* submission, whatever took the descriptor since.                         *)
THEOREM SentToTheRightOne == Spec /\ []ResultKept => []RightWhileOpen
<1>1. DescriptorInv => RightWhileOpen
  BY DEF DescriptorInv, SentInv
<1> QED BY <1>1, DescriptorInvariant, PTL
=============================================================================
