------------------------------ MODULE ReactorProofs ------------------------------
(***************************************************************************)
(* Theorems of Reactor, for any number of rings, connections, descriptors, *)
(* calls of saurion_send and entries of a completion queue, with any of    *)
(* the failures: who holds a request, what the list of requests is, and    *)
(* what is confirmed of the messages sent.                                 *)
(***************************************************************************)
EXTENDS Reactor, TLAPS, SequenceTheorems, FiniteSetTheorems,
        WellFoundedInduction

(* The addresses Malloc gives out, and what is at them.                    *)
Kinds     == {"accept", "read", "write"}
Addresses == Kinds \X Int \X (Nat \ {0})

Content ==
  [type : Kinds, fd : Int, conn : Conns \cup {None},
   data : Seq(Conns \X Nat), want : Conns \cup {None}, prev : BOOLEAN]

(* The requests in the completion queue of a ring, and all that the kernel *)
(* or the worker of the ring will still use.                               *)
Queue(r) == {cq[r][i].req : i \in DOMAIN cq[r]}

Once(r) == \A i, j \in DOMAIN cq[r] : cq[r][i].req = cq[r][j].req => i = j

Owned(r) == inflight[r] \cup (IF Alive(r) THEN Queue(r) ELSE {})
            \cup ({cur[r]} \ {None})

Places == {"none", "queued", "add_accept", "ready", "wait", "exit", "done",
           "dead"} \cup Handling

(* The values of the variables of the rings and of the workers.            *)
RingInv ==
  /\ inflight \in [Rings -> SUBSET Addresses]
  /\ cq \in [Rings -> Seq([req : Addresses, res : Int])]
  /\ cur \in [Rings -> Addresses \cup {None}]
  /\ cqres \in [Rings -> Int]
  /\ wpc \in [Rings -> Places]
  /\ \A w \in Rings : cur[w] # None <=> wpc[w] \in Handling

(* The blocks of memory, each named after the request in it.               *)
HeapInv ==
  /\ IsFiniteSet(DOMAIN heap) /\ DOMAIN heap \subseteq Addresses
  /\ heap \in [DOMAIN heap -> Content]
  /\ \A q \in DOMAIN heap : q[1] = heap[q].type /\ q[2] = heap[q].fd

(* The values of the variables outside, and of the application.            *)
OutsideInv ==
  /\ peer \in [Conns -> {"away", "open", "gone", "reset"}]
  /\ sent \in [Conns -> Nat] /\ taken \in [Conns -> Nat]
  /\ backlog \subseteq Conns
  /\ file \in [Fds -> Conns \cup {None}] /\ told \in [Fds -> Conns \cup {None}]
  /\ sends \in Nat /\ wrote \in Nat
  /\ calls \subseteq [no : 1 .. sends, fd : Fds, conn : Conns]
  /\ IsFiniteSet(calls)

(* The owner's place; a worker not yet given to the pool has done nothing, *)
(* and no call of saurion_send is left from saurion_destroy on.            *)
OwnerInv ==
  /\ opc \in {"starting", "running", "stopping", "draining", "stopped",
              "destroying", "joining", "freed", "aborted"}
  /\ oi \in 0 .. N
  /\ opc \in {"starting", "running", "stopping"} => oi \in Rings
  /\ opc = "starting" => \A w \in Rings : w >= oi => wpc[w] = "none"
  /\ opc \in {"destroying", "joining", "freed", "aborted"} => calls = {}
  /\ opc \in {"freed", "aborted"} =>
       \A r \in Rings : /\ wpc[r] \in {"done", "dead"}
                        /\ inflight[r] = {} /\ cq[r] = <<>>

(* A request that is in use is allocated, and in one place only: in one    *)
(* ring, either with the kernel, or once in the completion queue, or in    *)
(* the hands of the worker.                                                *)
HoldInv ==
  /\ \A r \in Rings : Owned(r) \subseteq DOMAIN heap
  /\ \A r, s \in Rings : r # s => Owned(r) \cap Owned(s) = {}
  /\ \A r \in Rings : cur[r] \notin inflight[r]
  /\ \A r \in Rings : Alive(r) =>
       inflight[r] \cap Queue(r) = {} /\ cur[r] \notin Queue(r) /\ Once(r)

(* Until a worker died the list is what is in use, and all of it.          *)
ListInv ==
  AllAlive =>
    /\ opc # "aborted"
    /\ opc # "freed" => /\ list = SetToBag(DOMAIN heap)
                        /\ \A q \in DOMAIN heap : \E r \in Rings : q \in Owned(r)

ReactorInv ==
  /\ RingInv /\ HeapInv /\ OutsideInv /\ OwnerInv /\ HoldInv /\ ListInv

-----------------------------------------------------------------------------
(* Malloc, and what a completion queue holds.                              *)

(* A set of natural numbers has a least one.                               *)
LEMMA LeastIs ==
  ASSUME NEW S \in SUBSET Nat, S # {}
  PROVE  Least(S) \in S
<1> DEFINE R == {ss \in Nat \X Nat : ss[1] < ss[2]}
<1>1. IsWellFoundedOn(R, Nat)
  BY NatLessThanWellFounded DEF OpToRel
<1>2. \A x, y \in S : ~(<<y, x>> \in R) => x <= y
  OBVIOUS
<1> HIDE DEF R
<1>3. \E x \in S : \A y \in S : ~(<<y, x>> \in R)
  BY <1>1, WFMin
<1> QED BY <1>2, <1>3 DEF Least

(* malloc never returns an address that is allocated.                      *)
LEMMA MallocIsFresh ==
  ASSUME HeapInv, NEW r \in Content
  PROVE  /\ Malloc(r) \in Addresses /\ Malloc(r) \notin DOMAIN heap
         /\ Malloc(r)[1] = r.type /\ Malloc(r)[2] = r.fd
<1> DEFINE D == DOMAIN heap
           C == Cardinality(D)
           used == {k \in 1 .. C : Address(r, k) \in D}
           U == Cardinality(used)
           free == (1 .. U + 1) \ used
           m == Least(free)
<1>1. IsFiniteSet(D) /\ C \in Nat
  BY FS_CardinalityType DEF HeapInv
<1>2. IsFiniteSet(1 .. C) /\ Cardinality(1 .. C) = C
  BY <1>1, FS_Interval
<1>3. /\ IsFiniteSet(used) /\ U \in Nat /\ U <= C
      /\ U = C => used = 1 .. C
  <2>1. used \in SUBSET (1 .. C)
    OBVIOUS
  <2> HIDE DEF used, C
  <2> QED BY <1>2, <2>1, FS_Subset, FS_CardinalityType
<1>4. free # {}
  <2>1. ASSUME 1 .. U + 1 \subseteq used
        PROVE  FALSE
    <3>1. Cardinality(1 .. U + 1) = U + 1
      <4> HIDE DEF U
      <4>1. 1 \in Int /\ U + 1 \in Int /\ ~(1 > U + 1)
        BY <1>3
      <4> QED BY <1>3, <4>1, FS_Interval
    <3>2. 1 .. U + 1 \in SUBSET used
      BY <2>1
    <3> HIDE DEF used
    <3>3. Cardinality(1 .. U + 1) <= U
      BY <1>3, <3>2, FS_Subset
    <3> HIDE DEF U
    <3> QED BY <1>3, <3>1, <3>3
  <2> QED BY <2>1
<1>5. m \in free
  <2>1. free \in SUBSET Nat
    OBVIOUS
  <2> HIDE DEF free
  <2> QED BY <1>4, <2>1, LeastIs
<1>6. Address(r, m) \notin D
  <2>1. CASE m \in 1 .. C
    BY <1>5, <2>1
  <2>2. CASE m \notin 1 .. C
    <3>1. m \in Nat /\ m > C /\ U = C
      <4> HIDE DEF U, C, m, used
      <4>1. m \in 1 .. U + 1
        BY <1>5
      <4> QED BY <1>1, <1>3, <2>2, <4>1
    <3> DEFINE f == [k \in 1 .. C |-> Address(r, k)]
    <3>2. f \in Injection(1 .. C, D)
      <4>1. \A k \in 1 .. C : Address(r, k) \in D
        BY <1>3, <3>1
      <4>2. \A k, j \in 1 .. C : f[k] = f[j] => k = j
        BY DEF Address
      <4> QED BY <4>1, <4>2 DEF Injection, IsInjective
    <3>3. f \in Surjection(1 .. C, D)
      <4> HIDE DEF f, D
      <4> QED BY <1>1, <1>2, <3>2, FS_Injection
    <3>4. ASSUME Address(r, m) \in D
          PROVE  FALSE
      <4>1. PICK k \in 1 .. C : f[k] = Address(r, m)
        BY <3>3, <3>4 DEF Surjection
      <4>2. Address(r, k) = Address(r, m)
        BY <4>1
      <4>3. k = m
        BY <4>2 DEF Address
      <4> QED BY <2>2, <4>1, <4>3
    <3> QED BY <3>4
  <2> QED BY <2>1, <2>2
<1>7. Malloc(r) = Address(r, m)
  BY DEF Malloc
<1>8. m \in Nat \ {0}
  BY <1>5
<1> HIDE DEF m, D
<1> QED BY <1>6, <1>7, <1>8 DEF Address, Addresses, Content, D

(* An entry is posted at the end of a queue.                               *)
LEMMA QueuePost ==
  ASSUME RingInv, NEW r \in Rings, NEW q \in Addresses, NEW x \in Int,
         cq' = [cq EXCEPT ![r] = Append(@, [req |-> q, res |-> x])]
  PROVE  /\ cq' \in [Rings -> Seq([req : Addresses, res : Int])]
         /\ Queue(r)' = Queue(r) \cup {q}
         /\ Once(r) /\ q \notin Queue(r) => Once(r)'
         /\ \A s \in Rings \ {r} : Queue(s)' = Queue(s) /\ (Once(s) => Once(s)')
<1> DEFINE E == [req : Addresses, res : Int]
           e == [req |-> q, res |-> x]
<1>1. cq[r] \in Seq(E) /\ e \in E /\ cq'[r] = Append(cq[r], e)
  BY DEF RingInv
<1>2. cq' \in [Rings -> Seq(E)]
  <2>1. Append(cq[r], e) \in Seq(E)
    BY <1>1, AppendProperties
  <2> HIDE DEF e, E
  <2> QED BY <2>1 DEF RingInv, E, e
<1>3. e.req = q
  OBVIOUS
<1> HIDE DEF e, E
<1>4. /\ DOMAIN cq[r] = 1 .. Len(cq[r]) /\ Len(cq[r]) \in Nat
      /\ DOMAIN cq'[r] = 1 .. Len(cq[r]) + 1
      /\ \A i \in 1 .. Len(cq[r]) : cq'[r][i] = cq[r][i]
      /\ cq'[r][Len(cq[r]) + 1] = e
  <2>1. Append(cq[r], e) \in Seq(E) /\ Len(Append(cq[r], e)) = Len(cq[r]) + 1
    BY <1>1, AppendProperties
  <2>2. /\ \A i \in 1 .. Len(cq[r]) : Append(cq[r], e)[i] = cq[r][i]
        /\ Append(cq[r], e)[Len(cq[r]) + 1] = e
    BY <1>1, AppendProperties
  <2> QED BY <1>1, <2>1, <2>2, LenProperties
<1>5. DOMAIN cq'[r] = (DOMAIN cq[r]) \cup {Len(cq[r]) + 1}
  BY <1>4
<1>6. Queue(r)' = Queue(r) \cup {q}
  BY <1>3, <1>4, <1>5 DEF Queue
<1>7. Once(r) /\ q \notin Queue(r) => Once(r)'
  BY <1>3, <1>4, <1>5 DEF Once, Queue
<1>8. ASSUME NEW s \in Rings \ {r}
      PROVE  Queue(s)' = Queue(s) /\ (Once(s) => Once(s)')
  <2>1. cq'[s] = cq[s]
    BY DEF RingInv
  <2> QED BY <2>1 DEF Queue, Once
<1> QED BY <1>2, <1>6, <1>7, <1>8 DEF E

(* The first entry of a queue is taken.                                    *)
LEMMA QueueTake ==
  ASSUME RingInv, NEW r \in Rings, cq[r] # <<>>,
         cq' = [cq EXCEPT ![r] = Tail(@)]
  PROVE  /\ cq' \in [Rings -> Seq([req : Addresses, res : Int])]
         /\ Once(r) => Queue(r)' = Queue(r) \ {Head(cq[r]).req} /\ Once(r)'
         /\ \A s \in Rings \ {r} : Queue(s)' = Queue(s) /\ (Once(s) => Once(s)')
<1> DEFINE E == [req : Addresses, res : Int]
           c == cq[r]
           h == Head(cq[r])
<1>1. cq[r] \in Seq(E) /\ cq'[r] = Tail(cq[r])
  BY DEF RingInv
<1> HIDE DEF E
<1>2. /\ Tail(cq[r]) \in Seq(E) /\ Len(Tail(cq[r])) = Len(cq[r]) - 1
      /\ \A i \in 1 .. Len(Tail(cq[r])) : Tail(cq[r])[i] = cq[r][i + 1]
  BY <1>1, HeadTailProperties
<1>3. cq' \in [Rings -> Seq(E)]
  BY <1>2 DEF RingInv, E
<1>4. /\ Len(c) \in Nat \ {0} /\ DOMAIN c = 1 .. Len(c) /\ h = c[1]
      /\ DOMAIN cq'[r] = 1 .. Len(c) - 1
      /\ \A i \in 1 .. Len(c) - 1 : cq'[r][i] = c[i + 1]
  <2>1. Len(c) \in Nat \ {0}
    BY <1>1, EmptySeq
  <2>2. DOMAIN c = 1 .. Len(c)
    BY <1>1, LenProperties
  <2>3. DOMAIN Tail(c) = 1 .. Len(Tail(c))
    BY <1>2, LenProperties
  <2>4. h = c[1]
    BY <1>1, <2>1
  <2> QED BY <1>1, <1>2, <2>1, <2>2, <2>3, <2>4
<1> HIDE DEF c, h
<1>5. /\ Queue(r) = {c[i].req : i \in DOMAIN c}
      /\ Once(r) <=> \A i, j \in DOMAIN c : c[i].req = c[j].req => i = j
  BY DEF Queue, Once, c
<1>6. ASSUME Once(r)
      PROVE  Queue(r)' = Queue(r) \ {h.req}
  <2>1. ASSUME NEW x \in Queue(r)'
        PROVE  x \in Queue(r) /\ x # h.req
    <3>1. PICK i \in 1 .. Len(c) - 1 : x = c[i + 1].req
      BY <1>4, <2>1 DEF Queue
    <3>2. i + 1 \in DOMAIN c /\ 1 \in DOMAIN c /\ i + 1 # 1
      BY <1>4
    <3> QED BY <1>4, <1>5, <1>6, <3>1, <3>2
  <2>2. ASSUME NEW x \in Queue(r), x # h.req
        PROVE  x \in Queue(r)'
    <3>1. PICK j \in DOMAIN c : x = c[j].req
      BY <1>5
    <3>2. j # 1
      BY <1>4, <2>2, <3>1
    <3>3. j - 1 \in 1 .. Len(c) - 1 /\ (j - 1) + 1 = j
      BY <1>4, <3>2
    <3>4. cq'[r][j - 1] = c[j] /\ j - 1 \in DOMAIN cq'[r]
      BY <1>4, <3>3
    <3> QED BY <3>1, <3>4 DEF Queue
  <2> QED BY <2>1, <2>2
<1>7. ASSUME Once(r)
      PROVE  Once(r)'
  <2>1. ASSUME NEW i \in DOMAIN cq'[r], NEW j \in DOMAIN cq'[r],
               cq'[r][i].req = cq'[r][j].req
        PROVE  i = j
    <3>1. i + 1 \in DOMAIN c /\ j + 1 \in DOMAIN c
      BY <1>4
    <3>2. c[i + 1].req = c[j + 1].req
      BY <1>4, <2>1
    <3>3. i + 1 = j + 1
      BY <1>5, <1>7, <3>1, <3>2
    <3> QED BY <1>4, <3>3
  <2> QED BY <2>1 DEF Once
<1>8. ASSUME NEW s \in Rings \ {r}
      PROVE  Queue(s)' = Queue(s) /\ (Once(s) => Once(s)')
  <2>1. cq'[s] = cq[s]
    BY DEF RingInv
  <2> QED BY <2>1 DEF Queue, Once
<1> QED BY <1>3, <1>6, <1>7, <1>8 DEF E, h

(* The entries of a queue are about requests.                              *)
LEMMA QueueTypes ==
  ASSUME RingInv, NEW r \in Rings
  PROVE  Queue(r) \subseteq Addresses
<1> DEFINE E == [req : Addresses, res : Int]
<1>1. cq[r] \in Seq(E)
  BY DEF RingInv
<1> HIDE DEF E
<1>2. cq[r] \in [1 .. Len(cq[r]) -> E]
  BY <1>1, LenProperties
<1>3. \A i \in DOMAIN cq[r] : cq[r][i] \in E
  BY <1>2
<1> QED BY <1>3 DEF Queue, E

(* The first entry of a queue holds a request of it.                       *)
LEMMA QueueHead ==
  ASSUME RingInv, NEW r \in Rings, cq[r] # <<>>
  PROVE  /\ Head(cq[r]).req \in Queue(r) /\ Head(cq[r]).req \in Addresses
         /\ Head(cq[r]).res \in Int
<1> DEFINE E == [req : Addresses, res : Int]
<1>1. cq[r] \in Seq(E)
  BY DEF RingInv
<1> HIDE DEF E
<1>2. Len(cq[r]) \in Nat \ {0}
  BY <1>1, EmptySeq
<1>3. DOMAIN cq[r] = 1 .. Len(cq[r])
  BY <1>1, LenProperties
<1>4. Head(cq[r]) = cq[r][1]
  BY <1>1, <1>2
<1>5. Head(cq[r]) \in E
  BY <1>1, HeadTailProperties
<1>6. Head(cq[r]).req \in Queue(r)
  BY <1>2, <1>3, <1>4 DEF Queue
<1> QED BY <1>5, <1>6 DEF E

-----------------------------------------------------------------------------
(* The adders: a new request goes to a ring.                               *)

(* Nobody died, and nobody took or gave up a request.                      *)
Steady == \A w \in Rings : (Alive(w)' <=> Alive(w)) /\ cur'[w] = cur[w]

Fill(others) ==
  /\ others \in [DOMAIN heap -> Content]
  /\ \A p \in DOMAIN heap :
       /\ others[p].type = heap[p].type /\ others[p].fd = heap[p].fd
       /\ others[p].conn = heap[p].conn /\ others[p].want = heap[p].want
       /\ others[p].data = heap[p].data

(* What is registered, of a list that is in use.                           *)
Listed ==
  /\ list = SetToBag(DOMAIN heap)
  /\ \A q \in DOMAIN heap : \E r \in Rings : q \in Owned(r)

(* The block of a new request is at an address of its own.                 *)
LEMMA InsertHeap ==
  ASSUME HeapInv, RingInv, NEW sel \in Rings, NEW r \in Content, NEW others,
         Fill(others), Insert(sel, r, others)
  PROVE  /\ HeapInv'
         /\ DOMAIN heap' = DOMAIN heap \cup {Malloc(r)}
         /\ Malloc(r) \notin DOMAIN heap /\ Malloc(r) \in Addresses
         /\ inflight' \in [Rings -> SUBSET Addresses]
         /\ inflight' = [inflight EXCEPT ![sel] = @ \cup {Malloc(r)}]
         /\ cq' = cq /\ list' = list (+) SetToBag({Malloc(r)})
<1> DEFINE q == Malloc(r)
<1>1. q \in Addresses /\ q \notin DOMAIN heap /\ q[1] = r.type /\ q[2] = r.fd
  BY MallocIsFresh
<1>2. /\ heap' = [p \in DOMAIN others \cup {q} |-> IF p = q THEN r ELSE others[p]]
      /\ inflight' = [inflight EXCEPT ![sel] = @ \cup {q}]
      /\ cq' = cq /\ list' = list (+) SetToBag({q})
  BY DEF Insert, ListInsert
<1> HIDE DEF q
<1>3. DOMAIN heap' = DOMAIN heap \cup {q}
  BY <1>2 DEF Fill
<1>4. IsFiniteSet(DOMAIN heap')
  BY <1>3, FS_AddElement DEF HeapInv
<1>5. DOMAIN heap' \subseteq Addresses
  BY <1>1, <1>3 DEF HeapInv
<1>6. heap' \in [DOMAIN heap' -> Content]
  BY <1>2, <1>3 DEF Fill
<1>7. \A p \in DOMAIN heap' : p[1] = heap'[p].type /\ p[2] = heap'[p].fd
  <2> SUFFICES ASSUME NEW p \in DOMAIN heap'
               PROVE  p[1] = heap'[p].type /\ p[2] = heap'[p].fd
    OBVIOUS
  <2>1. CASE p = q
    BY <1>1, <1>2, <1>3, <2>1
  <2>2. CASE p # q
    <3>1. p \in DOMAIN heap /\ heap'[p] = others[p]
      BY <1>2, <1>3, <2>2
    <3> QED BY <3>1 DEF Fill, HeapInv
  <2> QED BY <2>1, <2>2
<1>8. inflight' \in [Rings -> SUBSET Addresses]
  BY <1>1, <1>2 DEF RingInv
<1>9. HeapInv'
  BY <1>4, <1>5, <1>6, <1>7 DEF HeapInv
<1> QED BY <1>1, <1>2, <1>3, <1>8, <1>9 DEF q

(* The new request belongs to the ring it was submitted to, to no other.   *)
LEMMA InsertHold ==
  ASSUME HeapInv, RingInv, HoldInv, NEW sel \in Rings, NEW r \in Content,
         NEW others, Fill(others), Insert(sel, r, others), Steady
  PROVE  /\ HoldInv'
         /\ opc # "freed" /\ Listed => Listed'
<1> DEFINE q == Malloc(r)
<1>1. /\ DOMAIN heap' = DOMAIN heap \cup {q} /\ q \notin DOMAIN heap
      /\ inflight' = [inflight EXCEPT ![sel] = @ \cup {q}]
      /\ cq' = cq /\ list' = list (+) SetToBag({q})
      /\ q \in Addresses
  BY InsertHeap
<1> HIDE DEF q
<1>2. \A s \in Rings : inflight'[s] = IF s = sel THEN inflight[s] \cup {q} ELSE inflight[s]
  BY <1>1 DEF RingInv
<1>3. \A s \in Rings : Queue(s)' = Queue(s) /\ Once(s)' = Once(s)
  BY <1>1 DEF Queue, Once
<1>4. \A s \in Rings : Owned(s)' = IF s = sel THEN Owned(s) \cup {q} ELSE Owned(s)
  BY <1>2, <1>3 DEF Owned, Steady
<1>5. \A s \in Rings : q \notin Owned(s) /\ Owned(s) \subseteq DOMAIN heap
  BY <1>1 DEF HoldInv
<1>6. \A s \in Rings : q # cur[s]
  BY <1>1, <1>5, ReactorAssumption DEF Owned, Addresses, Kinds
<1>7. \A s \in Rings : Alive(s) => q \notin Queue(s)
  BY <1>5 DEF Owned
<1>8. \A s \in Rings : Owned(s)' \subseteq DOMAIN heap'
  BY <1>1, <1>4, <1>5
<1>9. \A s, t \in Rings : s # t => Owned(s)' \cap Owned(t)' = {}
  BY <1>4, <1>5 DEF HoldInv
<1>10. \A s \in Rings : cur'[s] \notin inflight'[s]
  BY <1>2, <1>6 DEF HoldInv, Steady
<1>11. \A s \in Rings : Alive(s)' =>
         inflight'[s] \cap Queue(s)' = {} /\ cur'[s] \notin Queue(s)' /\ Once(s)'
  BY <1>2, <1>3, <1>7 DEF HoldInv, Steady
<1>12. HoldInv'
  BY <1>8, <1>9, <1>10, <1>11 DEF HoldInv
<1>13. ASSUME Listed
       PROVE  Listed'
  <2>1. SetToBag(DOMAIN heap) (+) SetToBag({q}) = SetToBag(DOMAIN heap \cup {q})
    BY <1>1 DEF SetToBag, (+)
  <2>2. list' = SetToBag(DOMAIN heap')
    BY <1>1, <1>13, <2>1 DEF Listed
  <2>3. \A p \in DOMAIN heap' : \E s \in Rings : p \in Owned(s)'
    BY <1>1, <1>4, <1>13 DEF Listed
  <2> QED BY <2>2, <2>3 DEF Listed
<1> QED BY <1>12, <1>13

-----------------------------------------------------------------------------
(* The kernel and the workers: a request changes hands.                    *)

(* Blocks are only freed: each one left is as it was.                      *)
LEMMA FreeHeap ==
  ASSUME HeapInv, NEW D \in SUBSET (DOMAIN heap), heap' = Restrict(heap, D)
  PROVE  HeapInv' /\ DOMAIN heap' = D
<1>1. DOMAIN heap' = D /\ \A q \in D : heap'[q] = heap[q]
  BY DEF Restrict
<1>2. IsFiniteSet(D)
  BY FS_Subset DEF HeapInv
<1>3. heap' \in [D -> Content]
  BY DEF Restrict, HeapInv
<1> QED BY <1>1, <1>2, <1>3 DEF HeapInv

(* A node deleted takes its block with it; one that is not listed is left. *)
LEMMA DeleteHeap ==
  ASSUME HeapInv, NEW q, ListDelete(q)
  PROVE  /\ HeapInv'
         /\ \/ DOMAIN heap' = DOMAIN heap
            \/ DOMAIN heap' = DOMAIN heap \ {q}
         /\ q \in DOMAIN heap /\ list = SetToBag(DOMAIN heap) =>
              /\ DOMAIN heap' = DOMAIN heap \ {q}
              /\ list' = SetToBag(DOMAIN heap')
<1>1. CASE BagIn(q, list)
  <2>1. list' = list (-) SetToBag({q}) /\ heap' = Free(q)
    BY <1>1 DEF ListDelete
  <2>2. HeapInv' /\ DOMAIN heap' = DOMAIN heap \ {q}
    BY <2>1, FreeHeap DEF Free
  <2>3. ASSUME q \in DOMAIN heap, list = SetToBag(DOMAIN heap)
        PROVE  list' = SetToBag(DOMAIN heap \ {q})
    BY <2>1, <2>3 DEF SetToBag, (-), BagIn, BagToSet
  <2> QED BY <2>2, <2>3
<1>2. CASE ~BagIn(q, list)
  <2>1. heap' = heap /\ list' = list
    BY <1>2 DEF ListDelete
  <2>2. ~(q \in DOMAIN heap /\ list = SetToBag(DOMAIN heap))
    BY <1>2 DEF SetToBag, BagIn, BagToSet
  <2>3. HeapInv'
    BY <2>1 DEF HeapInv
  <2> QED BY <2>1, <2>2, <2>3
<1> QED BY <1>1, <1>2

(* Nobody takes a request or gives one up.                                 *)
LEMMA SameHold ==
  ASSUME HoldInv, Steady, inflight' = inflight, cq' = cq,
         DOMAIN heap' = DOMAIN heap
  PROVE  HoldInv' /\ (Listed /\ list' = list => Listed')
<1>1. \A s \in Rings : Queue(s)' = Queue(s) /\ Once(s)' = Once(s)
  BY DEF Queue, Once
<1>2. \A s \in Rings : Owned(s)' = Owned(s)
  BY <1>1 DEF Owned, Steady
<1>3. HoldInv'
  BY <1>1, <1>2 DEF HoldInv, Steady
<1>4. Listed /\ list' = list => Listed'
  BY <1>2 DEF Listed
<1> QED BY <1>3, <1>4

(* A request completed moves from the kernel to the completion queue.      *)
LEMMA PostHold ==
  ASSUME RingInv, HoldInv, NEW r \in Rings, NEW q, NEW x \in Int,
         Post(r, q, x), DOMAIN heap' = DOMAIN heap
  PROVE  /\ HoldInv'
         /\ AllAlive /\ Listed => Listed'
         /\ inflight' \in [Rings -> SUBSET Addresses]
         /\ cq' \in [Rings -> Seq([req : Addresses, res : Int])]
<1>1. /\ q \in inflight[r] /\ q \in Addresses
      /\ inflight' = [inflight EXCEPT ![r] = @ \ {q}]
      /\ cq' = [cq EXCEPT ![r] = Append(@, [req |-> q, res |-> x])]
      /\ list' = list /\ wpc' = wpc /\ cur' = cur
  BY DEF Post, workers, RingInv
<1>2. /\ cq' \in [Rings -> Seq([req : Addresses, res : Int])]
      /\ Queue(r)' = Queue(r) \cup {q}
      /\ Once(r) /\ q \notin Queue(r) => Once(r)'
      /\ \A s \in Rings \ {r} : Queue(s)' = Queue(s) /\ (Once(s) => Once(s)')
  BY <1>1, QueuePost
<1>3. \A s \in Rings : inflight'[s] = IF s = r THEN inflight[s] \ {q} ELSE inflight[s]
  BY <1>1 DEF RingInv
<1>4. inflight' \in [Rings -> SUBSET Addresses]
  BY <1>1 DEF RingInv
<1>5. \A s \in Rings : Alive(s)' <=> Alive(s)
  BY <1>1 DEF Alive
<1>6. \A s \in Rings : Owned(s)' \subseteq Owned(s)
  BY <1>1, <1>2, <1>3, <1>5 DEF Owned
<1>7. \A s \in Rings : Alive(s) => Owned(s)' = Owned(s)
  BY <1>1, <1>2, <1>3, <1>5 DEF Owned
<1>8. \A s \in Rings : cur'[s] \notin inflight'[s]
  BY <1>1, <1>3 DEF HoldInv
<1>9. ASSUME NEW s \in Rings, Alive(s)'
      PROVE  inflight'[s] \cap Queue(s)' = {} /\ cur'[s] \notin Queue(s)' /\ Once(s)'
  <2>1. Alive(s)
    BY <1>5, <1>9
  <2>2. inflight[s] \cap Queue(s) = {} /\ cur[s] \notin Queue(s) /\ Once(s)
    BY <2>1 DEF HoldInv
  <2>3. CASE s = r
    <3>1. q \notin Queue(s) /\ cur[s] # q
      BY <1>1, <2>2, <2>3 DEF HoldInv
    <3>2. Queue(s)' = Queue(s) \cup {q} /\ Once(s)'
      BY <1>2, <2>2, <2>3, <3>1
    <3>3. inflight'[s] = inflight[s] \ {q} /\ cur'[s] = cur[s]
      BY <1>1, <1>3, <2>3
    <3> QED BY <2>2, <3>1, <3>2, <3>3
  <2>4. CASE s # r
    BY <1>1, <1>2, <1>3, <2>2, <2>4
  <2> QED BY <2>3, <2>4
<1>10. HoldInv'
  BY <1>6, <1>8, <1>9 DEF HoldInv
<1>11. AllAlive /\ Listed => Listed'
  BY <1>1, <1>7 DEF Listed, AllAlive
<1> QED BY <1>2, <1>4, <1>10, <1>11

(* The worker takes the first entry of its queue; the request in it is in  *)
(* its hands, in its hands for good, or freed with nobody to use it.       *)
LEMMA TakeHold ==
  ASSUME RingInv, HoldInv, NEW w \in Rings, wpc[w] = "wait", cq[w] # <<>>,
         cq' = [cq EXCEPT ![w] = Tail(@)], inflight' = inflight,
         \A s \in Rings : Alive(s)' <=> Alive(s),
         NEW h, h = Head(cq[w]).req,
         \/ /\ cur' = [cur EXCEPT ![w] = h] /\ heap' = heap
         \/ /\ cur' = cur
            /\ \/ DOMAIN heap' = DOMAIN heap
               \/ DOMAIN heap' = DOMAIN heap \ {h}
  PROVE  /\ HoldInv'
         /\ h \in DOMAIN heap
         /\ cq' \in [Rings -> Seq([req : Addresses, res : Int])]
         /\ Listed /\ (cur' = cur => DOMAIN heap' = DOMAIN heap \ {h})
                   /\ list' = SetToBag(DOMAIN heap') => Listed'
<1>1. /\ Alive(w) /\ cur[w] = None
  BY DEF Alive, RingInv, Handling
<1>2. h \in Queue(w) /\ h \in Addresses
  BY QueueHead
<1>3. h \in Owned(w) /\ h \in DOMAIN heap
  BY <1>1, <1>2 DEF Owned, HoldInv
<1>4. inflight[w] \cap Queue(w) = {} /\ Once(w)
  BY <1>1 DEF HoldInv
<1>5. /\ cq' \in [Rings -> Seq([req : Addresses, res : Int])]
      /\ Queue(w)' = Queue(w) \ {h} /\ Once(w)'
      /\ \A s \in Rings \ {w} : Queue(s)' = Queue(s) /\ (Once(s) => Once(s)')
  BY <1>4, QueueTake
<1>6. h # None
  BY <1>2, ReactorAssumption DEF Addresses, Kinds
<1>7. \A s \in Rings : cur'[s] = IF s = w /\ cur' # cur THEN h ELSE cur[s]
  BY <1>1, <1>6 DEF RingInv
<1>8. \A s \in Rings \ {w} : Owned(s)' = Owned(s)
  BY <1>5, <1>7 DEF Owned
<1>9. Owned(w)' = IF cur' = cur THEN Owned(w) \ {h} ELSE Owned(w)
  BY <1>1, <1>2, <1>4, <1>5, <1>6, <1>7 DEF Owned
<1>10. \A s \in Rings \ {w} : h \notin Owned(s)
  BY <1>3 DEF HoldInv
<1>11. \A s \in Rings : Owned(s)' \subseteq DOMAIN heap'
  BY <1>7, <1>8, <1>9, <1>10 DEF HoldInv
<1>12. \A s, t \in Rings : s # t => Owned(s)' \cap Owned(t)' = {}
  <2>1. \A s \in Rings : Owned(s)' \subseteq Owned(s)
    BY <1>8, <1>9
  <2> QED BY <2>1 DEF HoldInv
<1>13. \A s \in Rings : cur'[s] \notin inflight'[s]
  BY <1>2, <1>4, <1>7 DEF HoldInv
<1>14. ASSUME NEW s \in Rings, Alive(s)'
       PROVE  inflight'[s] \cap Queue(s)' = {} /\ cur'[s] \notin Queue(s)' /\ Once(s)'
  <2>1. inflight[s] \cap Queue(s) = {} /\ cur[s] \notin Queue(s) /\ Once(s)
    BY <1>14 DEF HoldInv
  <2>2. Queue(s)' \subseteq Queue(s) /\ (s = w => h \notin Queue(s)')
    BY <1>5
  <2>3. Once(s)'
    BY <1>5, <2>1
  <2> QED BY <1>7, <2>1, <2>2, <2>3
<1>15. HoldInv'
  BY <1>11, <1>12, <1>13, <1>14 DEF HoldInv
<1>16. ASSUME Listed, cur' = cur => DOMAIN heap' = DOMAIN heap \ {h},
              list' = SetToBag(DOMAIN heap')
       PROVE  Listed'
  <2>1. ASSUME NEW p \in DOMAIN heap'
        PROVE  \E s \in Rings : p \in Owned(s)'
    <3>1. p \in DOMAIN heap /\ (cur' = cur => p # h)
      BY <1>16
    <3>2. PICK s \in Rings : p \in Owned(s)
      BY <1>16, <3>1 DEF Listed
    <3> QED BY <1>8, <1>9, <3>1, <3>2
  <2> QED BY <1>16, <2>1 DEF Listed
<1> QED BY <1>3, <1>5, <1>15, <1>16

(* The request in hand is deleted.                                         *)
LEMMA DeleteHold ==
  ASSUME RingInv, HoldInv, NEW w \in Rings, cur[w] # None,
         cur' = [cur EXCEPT ![w] = None], inflight' = inflight, cq' = cq,
         \A s \in Rings : Alive(s)' <=> Alive(s),
         \/ DOMAIN heap' = DOMAIN heap
         \/ DOMAIN heap' = DOMAIN heap \ {cur[w]}
  PROVE  /\ HoldInv'
         /\ cur[w] \in DOMAIN heap
         /\ Listed /\ DOMAIN heap' = DOMAIN heap \ {cur[w]}
                   /\ list' = SetToBag(DOMAIN heap') => Listed'
<1>1. wpc[w] \in Handling /\ Alive(w)
  BY DEF RingInv, Handling, Alive
<1>2. /\ cur[w] \in Owned(w) /\ cur[w] \in DOMAIN heap
      /\ cur[w] \notin inflight[w] /\ cur[w] \notin Queue(w)
  BY <1>1 DEF Owned, HoldInv
<1>3. \A s \in Rings : Queue(s)' = Queue(s) /\ Once(s)' = Once(s)
  BY DEF Queue, Once
<1>4. \A s \in Rings : cur'[s] = IF s = w THEN None ELSE cur[s]
  BY DEF RingInv
<1>5. \A s \in Rings : Owned(s)' = IF s = w THEN Owned(s) \ {cur[w]} ELSE Owned(s)
  BY <1>2, <1>3, <1>4 DEF Owned
<1>6. \A s \in Rings \ {w} : cur[w] \notin Owned(s)
  BY <1>2 DEF HoldInv
<1>7. \A s \in Rings : Owned(s)' \subseteq DOMAIN heap'
  BY <1>5, <1>6 DEF HoldInv
<1>8. None \notin Addresses
  BY ReactorAssumption DEF Addresses, Kinds
<1>9. \A s \in Rings : None \notin inflight[s]
  BY <1>8 DEF RingInv
<1>10. None \notin Queue(w)
  BY <1>8, QueueTypes
<1>11. HoldInv'
  <2>1. \A s, t \in Rings : s # t => Owned(s)' \cap Owned(t)' = {}
    BY <1>5 DEF HoldInv
  <2>2. \A s \in Rings : cur'[s] \notin inflight'[s]
    BY <1>4, <1>9 DEF HoldInv
  <2>3. \A s \in Rings : Alive(s)' =>
          inflight'[s] \cap Queue(s)' = {} /\ cur'[s] \notin Queue(s)' /\ Once(s)'
    BY <1>3, <1>4, <1>10 DEF HoldInv
  <2> QED BY <1>7, <2>1, <2>2, <2>3 DEF HoldInv
<1>12. Listed /\ DOMAIN heap' = DOMAIN heap \ {cur[w]}
              /\ list' = SetToBag(DOMAIN heap') => Listed'
  BY <1>5 DEF Listed
<1> QED BY <1>2, <1>11, <1>12

(* A worker that dies leaves the entries of its queue to nobody, and frees *)
(* at most the request of the first.                                       *)
LEMMA DieHold ==
  ASSUME RingInv, HoldInv, NEW w \in Rings, Go(w, "wait", "dead"),
         inflight' = inflight, cq' = cq, cur' = cur,
         \/ DOMAIN heap' = DOMAIN heap
         \/ cq[w] # <<>> /\ DOMAIN heap' = DOMAIN heap \ {Head(cq[w]).req}
  PROVE  HoldInv' /\ ~AllAlive'
<1>1. /\ \A s \in Rings : wpc'[s] = IF s = w THEN "dead" ELSE wpc[s]
      /\ Alive(w) /\ cur[w] = None
  BY DEF Go, RingInv, Alive, Handling
<1>2. \A s \in Rings : Queue(s)' = Queue(s) /\ Once(s)' = Once(s)
  BY DEF Queue, Once
<1>3. /\ \A s \in Rings : Alive(s)' <=> s # w /\ Alive(s)
      /\ ~AllAlive'
  BY <1>1 DEF Alive, AllAlive
<1>4. Owned(w)' = inflight[w] /\ \A s \in Rings \ {w} : Owned(s)' = Owned(s)
  BY <1>1, <1>2, <1>3 DEF Owned
<1>5. inflight[w] \subseteq Owned(w)
  BY DEF Owned
<1>6. ASSUME NEW s \in Rings
      PROVE  Owned(s)' \subseteq DOMAIN heap'
  <2>1. Owned(s)' \subseteq DOMAIN heap
    BY <1>4, <1>5 DEF HoldInv
  <2>2. ASSUME cq[w] # <<>>
        PROVE  Head(cq[w]).req \notin Owned(s)'
    <3>1. Head(cq[w]).req \in Queue(w)
      BY <2>2, QueueHead
    <3>2. Head(cq[w]).req \in Owned(w) /\ Head(cq[w]).req \notin inflight[w]
      BY <1>1, <3>1 DEF Owned, HoldInv
    <3> QED BY <1>4, <3>2 DEF HoldInv
  <2> QED BY <2>1, <2>2
<1>7. \A s, t \in Rings : s # t => Owned(s)' \cap Owned(t)' = {}
  BY <1>4, <1>5 DEF HoldInv
<1>8. \A s \in Rings : Alive(s)' =>
        inflight'[s] \cap Queue(s)' = {} /\ cur'[s] \notin Queue(s)' /\ Once(s)'
  BY <1>2, <1>3 DEF HoldInv
<1>9. \A s \in Rings : cur'[s] \notin inflight'[s]
  BY DEF HoldInv
<1> QED BY <1>3, <1>6, <1>7, <1>8, <1>9 DEF HoldInv

(* The rings are closed when every worker has returned.                    *)
LEMMA FreeHold ==
  ASSUME RingInv, HoldInv, DestroyFree
  PROVE  HoldInv'
<1>1. \A r \in Rings : inflight'[r] = {} /\ cq'[r] = <<>>
  BY DEF DestroyFree
<1>2. cur' = cur /\ \A r \in Rings : cur[r] = None
  BY DEF DestroyFree, workers, RingInv, Handling
<1>3. \A r \in Rings : Queue(r)' = {} /\ Once(r)'
  BY <1>1 DEF Queue, Once
<1>4. \A r \in Rings : Owned(r)' = {}
  BY <1>1, <1>2, <1>3 DEF Owned
<1> QED BY <1>1, <1>2, <1>3, <1>4 DEF HoldInv

-----------------------------------------------------------------------------
(* Steps that leave every request where it is.                             *)

(* A worker goes from one place to another.                                *)
LEMMA GoPlace ==
  ASSUME RingInv, NEW w \in Rings, NEW from, NEW to, Go(w, from, to),
         from # "dead", to \in Places \ {"dead"}
  PROVE  /\ wpc' \in [Rings -> Places]
         /\ \A s \in Rings : wpc'[s] = IF s = w THEN to ELSE wpc[s]
         /\ \A s \in Rings : Alive(s)' <=> Alive(s)
         /\ wpc[w] = from
BY DEF RingInv, Go, Alive

(* Only workers given to the pool go anywhere, and none once it is joined. *)
LEMMA GoOwner ==
  ASSUME RingInv, OwnerInv, NEW w \in Rings, NEW from, NEW to, Go(w, from, to),
         from \notin {"none", "done", "dead"}, opc' = opc, oi' = oi, calls' = calls
  PROVE  OwnerInv' /\ opc \notin {"freed", "aborted"}
<1>1. wpc[w] = from /\ \A s \in Rings : wpc'[s] = IF s = w THEN to ELSE wpc[s]
  BY DEF RingInv, Go
<1>2. opc \notin {"freed", "aborted"}
  BY <1>1 DEF OwnerInv
<1>3. opc = "starting" => \A s \in Rings : s >= oi => wpc'[s] = "none"
  BY <1>1 DEF OwnerInv
<1>4. opc = "starting" => oi' \in Rings
  BY DEF OwnerInv
<1> QED BY <1>2, <1>3, <1>4 DEF OwnerInv

(* What the other parts of the invariant ask of such a step.               *)
LEMMA SteadyStep ==
  ASSUME ReactorInv, UNCHANGED <<inflight, cq, list, cur>>,
         DOMAIN heap' = DOMAIN heap,
         HeapInv', OutsideInv', OwnerInv',
         cqres' \in [Rings -> Int], wpc' \in [Rings -> Places],
         \A s \in Rings : Alive(s)' <=> Alive(s),
         \A s \in Rings : wpc'[s] \in Handling <=> wpc[s] \in Handling,
         \/ opc' = opc
         \/ opc # "freed" /\ opc' \notin {"freed", "aborted"}
  PROVE  ReactorInv'
<1>1. RingInv'
  BY DEF ReactorInv, RingInv
<1>2. Steady
  BY DEF Steady
<1>3. HoldInv' /\ (Listed => Listed')
  BY <1>2, SameHold DEF ReactorInv
<1>4. AllAlive' <=> AllAlive
  BY DEF AllAlive
<1>5. ListInv'
  <2>1. ASSUME AllAlive'
        PROVE  opc' # "aborted" /\ (opc' # "freed" => Listed')
    <3>1. AllAlive /\ opc # "aborted" /\ (opc # "freed" => Listed)
      BY <1>4, <2>1 DEF ReactorInv, ListInv, Listed
    <3> QED BY <1>3, <3>1
  <2> QED BY <2>1 DEF ListInv, Listed
<1> QED BY <1>1, <1>3, <1>5 DEF ReactorInv

(* Peers touch neither rings nor requests.                                 *)
LEMMA PeerStep ==
  ASSUME ReactorInv, NEW c \in Conns,
         PeerConnect(c) \/ PeerSend(c) \/ PeerClose(c)
  PROVE  ReactorInv'
<1>1. UNCHANGED <<inflight, cq, heap, list, wpc, cur, cqres, opc, oi, calls>>
  BY DEF PeerConnect, PeerSend, PeerClose, ringv, reqs, workers, owner, app
<1>2. OutsideInv'
  <2>1. CASE PeerConnect(c)
    BY <2>1 DEF PeerConnect, Peer, app, ReactorInv, OutsideInv
  <2>2. CASE PeerSend(c)
    BY <2>2 DEF PeerSend, app, ReactorInv, OutsideInv
  <2>3. CASE PeerClose(c)
    BY <2>3 DEF PeerClose, Peer, app, ReactorInv, OutsideInv
  <2> QED BY <2>1, <2>2, <2>3
<1>3. HeapInv' /\ OwnerInv'
  BY <1>1 DEF ReactorInv, HeapInv, OwnerInv
<1>4. \A s \in Rings : Alive(s)' <=> Alive(s)
  BY <1>1 DEF Alive
<1>5. cqres' \in [Rings -> Int] /\ wpc' \in [Rings -> Places]
  BY <1>1 DEF ReactorInv, RingInv
<1> QED BY <1>1, <1>2, <1>3, <1>4, <1>5, SteadyStep

(* The handlers up to the deletion, and the ends of the loop.              *)
HandlerStep(w) ==
  \/ Ready(w) \/ HandleAccept(w) \/ DispatchRead(w) \/ HandleClose(w)
  \/ OnReaded(w) \/ HandleWrite(w) \/ Exit(w)

(* The steps of the handlers move one worker on.                           *)
LEMMA HandlerGoes ==
  ASSUME NEW w \in Rings, HandlerStep(w)
  PROVE  \E from \in Places \ {"none", "done", "dead"}, to \in Places \ {"dead"} :
           Go(w, from, to) /\ (from \in Handling <=> to \in Handling)
<1>1. CASE Ready(w)
  BY <1>1 DEF Ready, Places, Handling
<1>2. CASE HandleAccept(w)
  BY <1>2 DEF HandleAccept, Places, Handling
<1>3. CASE DispatchRead(w)
  <2>1. Go(w, "read", "closing") \/ Go(w, "read", "data")
    BY <1>3 DEF DispatchRead
  <2> QED BY <2>1 DEF Places, Handling
<1>4. CASE HandleClose(w)
  <2>1. Go(w, "closing", "closed") \/ Go(w, "closed", "data") \/ Go(w, "closed", "delete")
    BY <1>4 DEF HandleClose
  <2> QED BY <2>1 DEF Places, Handling
<1>5. CASE OnReaded(w)
  BY <1>5 DEF OnReaded, Places, Handling
<1>6. CASE HandleWrite(w)
  BY <1>6 DEF HandleWrite, Places, Handling
<1>7. CASE Exit(w)
  BY <1>7 DEF Exit, Places, Handling
<1> QED BY <1>1, <1>2, <1>3, <1>4, <1>5, <1>6, <1>7 DEF HandlerStep

(* The steps of the handlers leave every request in its place.             *)
LEMMA HandlerStepInv ==
  ASSUME ReactorInv, NEW w \in Rings, HandlerStep(w)
  PROVE  ReactorInv'
<1>1. UNCHANGED <<inflight, cq, list, cur, cqres, opc, oi, peer, sent, taken, backlog,
                  sends, calls>>
  BY DEF HandlerStep, Ready, HandleAccept, OnConnected, DispatchRead, OnError,
         HandleClose, OnClosed, CloseFd, OnReaded, HandleWrite, OnWrote, Exit,
         outside, ringv, reqs, workers, owner, app
<1>2. PICK from \in Places \ {"none", "done", "dead"}, to \in Places \ {"dead"} :
        Go(w, from, to) /\ (from \in Handling <=> to \in Handling)
  BY HandlerGoes
<1>3. /\ wpc' \in [Rings -> Places]
      /\ \A s \in Rings : wpc'[s] = IF s = w THEN to ELSE wpc[s]
      /\ \A s \in Rings : Alive(s)' <=> Alive(s)
      /\ wpc[w] = from
  BY <1>2, GoPlace DEF ReactorInv
<1>4. OwnerInv'
  BY <1>1, <1>2, GoOwner DEF ReactorInv
<1>5. HeapInv' /\ DOMAIN heap' = DOMAIN heap
  <2>1. CASE OnReaded(w)
    <3>1. heap' = [heap EXCEPT ![cur[w]].prev = FALSE]
      BY <2>1 DEF OnReaded
    <3>2. DOMAIN heap' = DOMAIN heap
      BY <3>1
    <3>3. \A q \in DOMAIN heap : heap'[q] \in Content /\ heap'[q].type = heap[q].type
                                 /\ heap'[q].fd = heap[q].fd
      BY ZenonT(30), <3>1 DEF ReactorInv, HeapInv, Content
    <3>4. heap' \in [DOMAIN heap -> Content]
      BY <3>1, <3>3 DEF ReactorInv, HeapInv
    <3> QED BY <3>2, <3>3, <3>4 DEF ReactorInv, HeapInv
  <2>2. CASE heap' = heap
    BY <2>2 DEF ReactorInv, HeapInv
  <2>3. OnReaded(w) \/ heap' = heap
    BY DEF HandlerStep, Ready, HandleAccept, OnConnected, DispatchRead,
           HandleClose, OnClosed, CloseFd, HandleWrite, OnWrote, Exit, reqs
  <2> QED BY <2>1, <2>2, <2>3
<1>6. OutsideInv'
  <2>1. file' \in [Fds -> Conns \cup {None}] /\ told' \in [Fds -> Conns \cup {None}]
    <3>1. \/ file' = file
          \/ file' = [file EXCEPT ![Fd(w)] = None]
      BY DEF HandlerStep, Ready, HandleAccept, OnConnected, DispatchRead,
             HandleClose, OnClosed, CloseFd, OnReaded, HandleWrite, OnWrote, Exit,
             outside
    <3>2. \/ told' = told
          \/ told' = [told EXCEPT ![Result(w)] = File(Result(w))]
          \/ told' = [told EXCEPT ![Fd(w)] = None]
      BY DEF HandlerStep, Ready, HandleAccept, OnConnected, DispatchRead,
             HandleClose, OnClosed, CloseFd, OnReaded, HandleWrite, OnWrote, Exit,
             app
    <3>3. File(Result(w)) \in Conns \cup {None}
      BY DEF File, ReactorInv, OutsideInv
    <3> QED BY <3>1, <3>2, <3>3 DEF ReactorInv, OutsideInv
  <2>2. wrote' = wrote \/ wrote' = wrote + 1
    BY DEF HandlerStep, Ready, HandleAccept, OnConnected, DispatchRead,
           HandleClose, OnClosed, CloseFd, OnReaded, HandleWrite, OnWrote, Exit,
           app
  <2> QED BY <1>1, <2>1, <2>2 DEF ReactorInv, OutsideInv
<1>7. cqres' \in [Rings -> Int]
  BY <1>1 DEF ReactorInv, RingInv
<1>8. \A s \in Rings : wpc'[s] \in Handling <=> wpc[s] \in Handling
  BY <1>2, <1>3
<1> QED BY <1>1, <1>3, <1>4, <1>5, <1>6, <1>7, <1>8, SteadyStep

-----------------------------------------------------------------------------
(* The owner, up to the joining of the workers.                            *)
OwnerGoes == StartTask \/ Stop \/ StopSignal \/ StopDrained \/ Destroy \/ DestroyWait

(* saurion_start, saurion_stop and saurion_destroy, up to its end, touch   *)
(* no request.                                                             *)
LEMMA OwnerStepInv ==
  ASSUME ReactorInv, OwnerGoes
  PROVE  ReactorInv'
<1>1. UNCHANGED <<inflight, cq, heap, list, cur, cqres, outside, app>>
  BY DEF OwnerGoes, StartTask, Stop, StopSignal, SignalUpTo, StopDrained,
         Destroy, DestroyWait, ringv, reqs, workers
<1>2. /\ HeapInv' /\ OutsideInv'
      /\ cqres' \in [Rings -> Int]
  BY <1>1 DEF ReactorInv, HeapInv, OutsideInv, outside, app, RingInv
<1>3. CASE StartTask
  <2>1. /\ opc = "starting" /\ oi \in Rings /\ wpc[oi] = "none"
        /\ wpc' = [wpc EXCEPT ![oi] = "queued"]
        /\ opc' = IF oi = N - 1 THEN "running" ELSE "starting"
        /\ oi' = IF oi = N - 1 THEN 0 ELSE oi + 1
        /\ calls' = calls
    BY <1>1, <1>3 DEF StartTask, Owner, ReactorInv, OwnerInv, Rings, app
  <2>2. wpc' \in [Rings -> Places]
    BY <2>1 DEF ReactorInv, RingInv, Places
  <2>3. \A s \in Rings : wpc'[s] = IF s = oi THEN "queued" ELSE wpc[s]
    BY <2>1 DEF ReactorInv, RingInv
  <2>4. \A s \in Rings : /\ Alive(s)' <=> Alive(s)
                         /\ wpc'[s] \in Handling <=> wpc[s] \in Handling
    BY <2>1, <2>3 DEF Alive, Handling
  <2>5. oi' \in Rings /\ oi' \in 0 .. N
    BY <2>1, ReactorAssumption DEF Rings
  <2>6. opc' = "starting" => \A s \in Rings : s >= oi' => wpc'[s] = "none"
    <3> SUFFICES ASSUME opc' = "starting", NEW s \in Rings, s >= oi'
                 PROVE  wpc'[s] = "none"
      OBVIOUS
    <3>1. oi' = oi + 1
      BY <2>1
    <3>2. s # oi /\ s >= oi
      BY <2>1, <3>1 DEF Rings
    <3> QED BY <2>1, <2>3, <3>2 DEF ReactorInv, OwnerInv
  <2>7. OwnerInv'
    BY <2>1, <2>5, <2>6 DEF OwnerInv
  <2> QED BY <1>1, <1>2, <2>1, <2>2, <2>4, <2>7, SteadyStep
<1>4. CASE ~StartTask
  <2>1. /\ wpc' = wpc /\ opc \notin {"starting", "freed", "aborted"}
        /\ opc' \in {"stopping", "draining", "stopped", "destroying", "joining"}
        /\ \/ oi' = oi /\ opc' # "stopping"
           \/ oi' = oi /\ opc = "running"
           \/ opc = "stopping" /\ oi' = oi + 1 /\ (opc' = "stopping" => oi # N - 1)
        /\ opc' \in {"destroying", "joining"} => calls' = {}
    BY <1>1, <1>4 DEF ReactorInv, OwnerInv, app, OwnerGoes, Stop, StopSignal, SignalUpTo, StopDrained, Destroy,
                DestroyWait, Owner, workers
  <2>2. oi' \in 0 .. N /\ (opc' = "stopping" => oi' \in Rings)
    BY <2>1, ReactorAssumption DEF ReactorInv, OwnerInv, Rings
  <2>3. OwnerInv'
    BY <2>1, <2>2 DEF OwnerInv
  <2>4. \A s \in Rings : Alive(s)' <=> Alive(s)
    BY <2>1 DEF Alive
  <2>5. wpc' \in [Rings -> Places]
    BY <2>1 DEF ReactorInv, RingInv
  <2> QED BY <1>1, <1>2, <2>1, <2>3, <2>4, <2>5, SteadyStep
<1> QED BY <1>3, <1>4

-----------------------------------------------------------------------------
(* The steps that add a request.                                           *)

(* The res field a handler reads is a number.                              *)
LEMMA ResultInt ==
  ASSUME RingInv, NEW w \in Rings
  PROVE  Result(w) \in Int
<1> DEFINE E == [req : Addresses, res : Int]
<1>1. cq[w] \in Seq(E) /\ cqres[w] \in Int
  BY DEF RingInv
<1>2. CASE Len(cq[w]) = CqSize
  <2> HIDE DEF E
  <2>1. cq[w] \in [1 .. Len(cq[w]) -> E]
    BY <1>1, LenProperties
  <2>2. Len(cq[w]) \in 1 .. Len(cq[w])
    BY <1>2, ReactorAssumption
  <2>3. Last(cq[w]) \in E
    BY <2>1, <2>2 DEF Last
  <2> QED BY <1>2, <2>3 DEF Result, E
<1>3. CASE Len(cq[w]) # CqSize
  BY <1>1, <1>3 DEF Result
<1> QED BY <1>2, <1>3

(* What the adders fill in.                                                *)
LEMMA RequestContent ==
  ASSUME OutsideInv, NEW type \in Kinds, NEW fd \in Int
  PROVE  /\ Request(type, fd, None, <<>>) \in Content
         /\ Request(type, fd, File(fd), <<>>) \in Content
         /\ File(fd) \in Conns \cup {None}
<1>1. File(fd) \in Conns \cup {None}
  BY DEF OutsideInv, File
<1>2. <<>> \in Seq(Conns \X Nat)
  BY EmptySeq
<1> QED BY <1>1, <1>2 DEF Request, Content

(* A worker adds a request, by an adder that fills in r and touches no     *)
(* other request, except for its prev.                                     *)
LEMMA AddStep ==
  ASSUME ReactorInv, NEW w \in Rings,
         NEW from \in Places \ {"none", "done", "dead"}, NEW to \in Places \ {"dead"},
         Go(w, from, to), from \in Handling <=> to \in Handling,
         NEW sel \in Rings, NEW r \in Content, NEW others,
         Fill(others), Insert(sel, r, others), UNCHANGED rest
  PROVE  ReactorInv'
<1>1. UNCHANGED <<outside, cur, cqres, owner, app>>
  BY DEF rest
<1>2. /\ wpc' \in [Rings -> Places]
      /\ \A s \in Rings : wpc'[s] = IF s = w THEN to ELSE wpc[s]
      /\ \A s \in Rings : Alive(s)' <=> Alive(s)
      /\ wpc[w] = from
  BY GoPlace DEF ReactorInv
<1>3. OwnerInv' /\ opc \notin {"freed", "aborted"} /\ opc' = opc
  BY <1>1, GoOwner DEF ReactorInv, owner, app
<1>4. OutsideInv'
  BY <1>1 DEF ReactorInv, OutsideInv, outside, app
<1>5. Steady
  BY <1>1, <1>2 DEF Steady
<1>6. HeapInv' /\ cq' = cq /\ inflight' \in [Rings -> SUBSET Addresses]
  BY InsertHeap DEF ReactorInv
<1>7. HoldInv' /\ (Listed => Listed')
  BY <1>3, <1>5, InsertHold DEF ReactorInv
<1>8. RingInv'
  BY <1>1, <1>2, <1>6 DEF RingInv, ReactorInv
<1>9. ListInv'
  BY <1>2, <1>3, <1>7 DEF ListInv, Listed, AllAlive, ReactorInv
<1> QED BY <1>3, <1>4, <1>6, <1>7, <1>8, <1>9 DEF ReactorInv

(* The heap as it is fills itself in.                                      *)
LEMMA FillSame ==
  ASSUME HeapInv
  PROVE  Fill(heap)
BY DEF HeapInv, Fill

Adds(w) == \/ StartEfd(w) \/ StartAccept(w) \/ AcceptAgain(w) \/ AcceptRead(w)
           \/ ReadAgain(w) \/ ReadRest(w)

(* What each of them adds, and where it leaves the worker.                 *)
LEMMA AddsFill ==
  ASSUME ReactorInv, NEW w \in Rings, Adds(w)
  PROVE  \E sel \in Rings, r \in Content, others \in [DOMAIN heap -> Content] :
           /\ Fill(others) /\ Insert(sel, r, others) /\ UNCHANGED rest
           /\ \/ StartEfd(w) /\ sel = w /\ r = Request("read", EFD(w), None, <<>>)
              \/ /\ StartAccept(w) \/ AcceptAgain(w)
                 /\ r = Request("accept", ACCEPT_FD, None, <<>>)
              \/ AcceptRead(w) /\ r = Request("read", Result(w), File(Result(w)), <<>>)
              \/ ReadAgain(w) /\ r = Request("read", Fd(w), File(Fd(w)), <<>>)
              \/ /\ ReadRest(w)
                 /\ r = [heap[cur[w]] EXCEPT !.conn = File(Fd(w)), !.prev = TRUE]
                 /\ others = [heap EXCEPT ![cur[w]].prev = TRUE]
           /\ ~ReadRest(w) => others = heap
<1>1. Fill(heap) /\ heap \in [DOMAIN heap -> Content] /\ 0 \in Rings
  BY FillSame, ReactorAssumption DEF ReactorInv, HeapInv, Rings
<1>2. ASSUME wpc[w] \in Handling
      PROVE  cur[w] \in DOMAIN heap /\ heap[cur[w]] \in Content /\ Fd(w) \in Int
  <2>1. cur[w] \in DOMAIN heap
    BY <1>2 DEF ReactorInv, RingInv, HoldInv, Owned
  <2> QED BY <2>1 DEF ReactorInv, HeapInv, Content, Fd
<1>3. CASE StartEfd(w)
  <2>1. Request("read", EFD(w), None, <<>>) \in Content
    BY RequestContent DEF ReactorInv, Kinds, EFD, Rings
  <2>2. Insert(w, Request("read", EFD(w), None, <<>>), heap) /\ UNCHANGED rest
    BY <1>3 DEF StartEfd, AddEfd, Add
  <2>3. ~ReadRest(w)
    BY <1>3 DEF StartEfd, ReadRest, Go
  <2> QED BY <1>1, <1>3, <2>1, <2>2, <2>3
<1>4. CASE StartAccept(w) \/ AcceptAgain(w)
  <2>1. Request("accept", ACCEPT_FD, None, <<>>) \in Content
    BY RequestContent DEF ReactorInv, Kinds, ACCEPT_FD
  <2>2. Insert(0, Request("accept", ACCEPT_FD, None, <<>>), heap) /\ UNCHANGED rest
    BY <1>4 DEF StartAccept, AcceptAgain, AddAccept, Add
  <2>3. ~ReadRest(w)
    BY <1>4 DEF StartAccept, AcceptAgain, ReadRest, Go
  <2> QED BY <1>1, <1>4, <2>1, <2>2, <2>3
<1>5. CASE AcceptRead(w)
  <2>1. Result(w) \in Int
    BY ResultInt DEF ReactorInv
  <2>2. Request("read", Result(w), File(Result(w)), <<>>) \in Content
    BY <2>1, RequestContent DEF ReactorInv, Kinds
  <2>3. /\ \E sel \in Rings : Insert(sel, Request("read", Result(w), File(Result(w)), <<>>), heap)
        /\ UNCHANGED rest
    BY <1>5 DEF AcceptRead, AddRead, Add, NextRing
  <2>4. ~ReadRest(w)
    BY <1>5 DEF AcceptRead, ReadRest, Go
  <2> QED BY <1>1, <1>5, <2>2, <2>3, <2>4
<1>6. CASE ReadAgain(w)
  <2>1. Fd(w) \in Int
    BY <1>2, <1>6 DEF ReadAgain, Go, Handling
  <2>2. Request("read", Fd(w), File(Fd(w)), <<>>) \in Content
    BY <2>1, RequestContent DEF ReactorInv, Kinds
  <2>3. /\ \E sel \in Rings : Insert(sel, Request("read", Fd(w), File(Fd(w)), <<>>), heap)
        /\ UNCHANGED rest
    BY <1>6 DEF ReadAgain, AddRead, Add, NextRing
  <2>4. ~ReadRest(w)
    BY <1>6 DEF ReadAgain, ReadRest, Go
  <2> QED BY <1>1, <1>6, <2>2, <2>3, <2>4
<1>7. CASE ReadRest(w)
  <2> DEFINE q == cur[w]
             r == [heap[q] EXCEPT !.conn = File(Fd(w)), !.prev = TRUE]
             others == [heap EXCEPT ![q].prev = TRUE]
  <2>1. UNCHANGED rest /\ \E sel \in Rings : Insert(sel, r, others)
    BY <1>7 DEF ReadRest, AddReadContinue, NextRing, Fd
  <2>2. q \in DOMAIN heap /\ heap[q] \in Content /\ Fd(w) \in Int
    BY <1>2, <1>7 DEF ReadRest, Go, Handling
  <2>3. File(Fd(w)) \in Conns \cup {None}
    BY <2>2, RequestContent DEF ReactorInv, Kinds
  <2>4. r \in Content
    BY <2>2, <2>3 DEF Content
  <2>5. Fill(others) /\ others \in [DOMAIN heap -> Content]
    <3>1. \A p \in DOMAIN heap : heap[p] \in Content
      BY DEF ReactorInv, HeapInv
    <3>2. DOMAIN others = DOMAIN heap
      OBVIOUS
    <3>3. \A p \in DOMAIN heap :
            /\ others[p] \in Content
            /\ others[p].type = heap[p].type /\ others[p].fd = heap[p].fd
            /\ others[p].conn = heap[p].conn /\ others[p].want = heap[p].want
            /\ others[p].data = heap[p].data
      BY <3>1 DEF Content
    <3>4. others \in [DOMAIN heap -> Content]
      BY <3>3 DEF ReactorInv, HeapInv
    <3> QED BY <3>3, <3>4 DEF Fill
  <2> HIDE DEF r, others
  <2>6. PICK sel \in Rings : Insert(sel, r, others)
    BY <2>1
  <2> QED BY <1>7, <2>1, <2>4, <2>5, <2>6 DEF r, others
<1> QED BY <1>3, <1>4, <1>5, <1>6, <1>7 DEF Adds

(* The steps with an adder move one worker on.                             *)
LEMMA AddsGoes ==
  ASSUME NEW w \in Rings, Adds(w)
  PROVE  \E from \in Places \ {"none", "done", "dead"}, to \in Places \ {"dead"} :
           Go(w, from, to) /\ (from \in Handling <=> to \in Handling)
<1>1. \/ Go(w, "queued", "add_accept") \/ Go(w, "queued", "ready")
      \/ Go(w, "add_accept", "ready") \/ Go(w, "accept_again", "accept_read")
      \/ Go(w, "accept_read", "delete") \/ Go(w, "read_again", "delete")
      \/ Go(w, "data", "delete")
  BY DEF Adds, StartEfd, StartAccept, AcceptAgain, AcceptRead, ReadAgain, ReadRest
<1> QED BY <1>1 DEF Places, Handling

(* A worker adds a request to a ring.                                      *)
LEMMA AddStepInv ==
  ASSUME ReactorInv, NEW w \in Rings, Adds(w)
  PROVE  ReactorInv'
<1>1. PICK sel \in Rings, r \in Content, others \in [DOMAIN heap -> Content] :
        Fill(others) /\ Insert(sel, r, others) /\ UNCHANGED rest
  BY AddsFill
<1>2. PICK from \in Places \ {"none", "done", "dead"}, to \in Places \ {"dead"} :
        Go(w, from, to) /\ (from \in Handling <=> to \in Handling)
  BY AddsGoes
<1> QED BY <1>1, <1>2, AddStep

(* A call of saurion_send begins, and touches no request.                  *)
LEMMA SendStep ==
  ASSUME ReactorInv, Send
  PROVE  ReactorInv'
<1>1. /\ UNCHANGED <<outside, ringv, reqs, workers, owner, told, wrote>>
      /\ opc \in {"running", "stopping", "draining"}
      /\ sends' = sends + 1
  BY DEF Send
<1>2. PICK f \in Fds : /\ told[f] # None
                       /\ calls' = calls \cup {[no |-> sends', fd |-> f, conn |-> told[f]]}
  BY DEF Send
<1>3. OutsideInv'
  <2>1. sends \in Nat /\ told[f] \in Conns /\ IsFiniteSet(calls)
        /\ calls \subseteq [no : 1 .. sends, fd : Fds, conn : Conns]
    BY <1>2 DEF ReactorInv, OutsideInv
  <2>2. IsFiniteSet(calls')
    BY <1>2, <2>1, FS_AddElement
  <2>3. 1 .. sends \subseteq 1 .. sends' /\ sends' \in 1 .. sends' /\ sends' \in Nat
    BY <1>1, <2>1
  <2>4. calls' \subseteq [no : 1 .. sends', fd : Fds, conn : Conns]
    BY <1>2, <2>1, <2>3
  <2> QED BY <1>1, <2>2, <2>3, <2>4 DEF ReactorInv, OutsideInv, outside
<1>4. HeapInv' /\ OwnerInv'
  BY <1>1 DEF ReactorInv, HeapInv, OwnerInv, reqs, owner, workers
<1>5. cqres' \in [Rings -> Int] /\ wpc' \in [Rings -> Places]
  BY <1>1 DEF ReactorInv, RingInv, workers
<1>6. /\ UNCHANGED <<inflight, cq, list, cur>> /\ wpc' = wpc /\ opc' = opc
      /\ DOMAIN heap' = DOMAIN heap
  BY <1>1 DEF ringv, reqs, workers, owner
<1>7. \A t \in Rings : Alive(t)' <=> Alive(t)
  BY <1>6 DEF Alive
<1> QED BY <1>3, <1>4, <1>5, <1>6, <1>7, SteadyStep

(* What a call of saurion_send submits.                                    *)
Message(k) == [Request("write", k.fd, File(k.fd), <<>>) EXCEPT !.want = k.conn]

(* It is a request for the descriptor as it is when it is submitted.       *)
LEMMA MessageContent ==
  ASSUME OutsideInv, NEW k \in calls
  PROVE  /\ Message(k) \in Content
         /\ Message(k).type = "write" /\ Message(k).fd = k.fd /\ k.fd \in Fds
         /\ Message(k).conn = file[k.fd] /\ Message(k).want = k.conn
         /\ Message(k).data = <<>> /\ Message(k).prev = FALSE
<1>1. k.fd \in Fds /\ k.fd \in Int /\ k.conn \in Conns
  <2>1. k \in [no : 1 .. sends, fd : Fds, conn : Conns]
    BY DEF OutsideInv
  <2>2. k.fd \in Fds /\ k.conn \in Conns
    BY <2>1
  <2>3. \A f \in Fds : f \in Int
    BY ReactorAssumption
  <2> QED BY <2>2, <2>3
<1>2. Request("write", k.fd, File(k.fd), <<>>) \in Content
  BY <1>1, RequestContent DEF Kinds
<1>3. Message(k) \in Content
  BY <1>1, <1>2 DEF Message, Content
<1> QED BY <1>1, <1>3 DEF Message, Request, File

(* The request is submitted, from outside the rings.                       *)
LEMMA SubmitIs ==
  ASSUME Submit
  PROVE  /\ UNCHANGED <<outside, workers, owner, told, got, torn, ended, sends, wrote, erred>>
         /\ \E k \in calls, sel \in Rings :
              /\ Insert(sel, Message(k), heap) /\ UNCHANGED prevs
              /\ calls' = calls \ {k}
BY DEF Submit, AddWrite, Add, NextRing, Message

(* Submit keeps what is said of who holds a request.                       *)
LEMMA SubmitStep ==
  ASSUME ReactorInv, Submit
  PROVE  ReactorInv'
<1>1. UNCHANGED <<outside, workers, owner, told, sends, wrote>>
  BY SubmitIs
<1>2. PICK k \in calls, sel \in Rings :
        Insert(sel, Message(k), heap) /\ calls' = calls \ {k}
  BY SubmitIs
<1>3. Message(k) \in Content
  BY MessageContent DEF ReactorInv
<1>4. opc \notin {"freed", "aborted"}
  BY DEF ReactorInv, OwnerInv
<1>5. Fill(heap)
  BY FillSame DEF ReactorInv
<1>6. \A s \in Rings : Alive(s)' <=> Alive(s)
  BY <1>1 DEF workers, Alive
<1>7. Steady
  BY <1>1, <1>6 DEF Steady, workers
<1>8. HeapInv' /\ cq' = cq /\ inflight' \in [Rings -> SUBSET Addresses]
  BY <1>2, <1>3, <1>5, InsertHeap DEF ReactorInv
<1>9. HoldInv' /\ (Listed => Listed')
  BY <1>2, <1>3, <1>4, <1>5, <1>7, InsertHold DEF ReactorInv
<1>10. RingInv'
  BY <1>1, <1>8 DEF workers, RingInv, ReactorInv
<1>11. OwnerInv' /\ opc' = opc
  BY <1>1, <1>2, <1>4 DEF workers, owner, OwnerInv, ReactorInv
<1>12. OutsideInv'
  <2>1. IsFiniteSet(calls') /\ calls' \subseteq calls
    BY <1>2, FS_Subset DEF ReactorInv, OutsideInv
  <2> QED BY <1>1, <2>1 DEF outside, OutsideInv, ReactorInv
<1>13. ListInv'
  BY <1>4, <1>6, <1>9, <1>11 DEF ListInv, Listed, AllAlive, ReactorInv
<1> QED BY <1>8, <1>9, <1>10, <1>11, <1>12, <1>13 DEF ReactorInv

-----------------------------------------------------------------------------
(* The steps that move a request, or free one.                             *)

(* The kernel completes a request it holds, and changes what is outside.   *)
LEMMA CompleteGoes ==
  ASSUME RingInv, HeapInv, OutsideInv, HoldInv, NEW r \in Rings,
         NEW q \in inflight[r],
         \/ CompleteAccept(r, q) \/ CompleteData(r, q) \/ CompleteEnd(r, q)
         \/ CompleteEfd(r, q)    \/ CompleteWrite(r, q)
  PROVE  /\ \E x \in Int : Post(r, q, x)
         /\ HeapInv' /\ DOMAIN heap' = DOMAIN heap
         /\ file' \in [Fds -> Conns \cup {None}] /\ taken' \in [Conns -> Nat]
         /\ backlog' \subseteq Conns
<1>1. ASSUME heap' = heap
      PROVE  HeapInv' /\ DOMAIN heap' = DOMAIN heap
  BY <1>1 DEF HeapInv
<1>2. ASSUME UNCHANGED <<file, taken, backlog>>
      PROVE  /\ file' \in [Fds -> Conns \cup {None}] /\ taken' \in [Conns -> Nat]
             /\ backlog' \subseteq Conns
  BY <1>2 DEF OutsideInv
<1>3. CASE CompleteAccept(r, q)
  <2>1. heap' = heap /\ taken' = taken
    BY <1>3 DEF CompleteAccept
  <2>2. CASE \E c \in backlog :
               /\ FreeFds # {}
               /\ file' = [file EXCEPT ![Least(FreeFds)] = c]
               /\ Post(r, q, Least(FreeFds))
               /\ backlog' = backlog \ {c}
    <3>1. FreeFds \in SUBSET Nat
      BY ReactorAssumption DEF FreeFds
    <3>2. PICK c \in backlog : /\ FreeFds # {}
                               /\ file' = [file EXCEPT ![Least(FreeFds)] = c]
                               /\ Post(r, q, Least(FreeFds))
                               /\ backlog' = backlog \ {c}
      BY <2>2
    <3>3. Least(FreeFds) \in FreeFds
      BY <3>1, <3>2, LeastIs, Zenon
    <3> DEFINE f == Least(FreeFds)
    <3> HIDE DEF f
    <3>4. f \in FreeFds
      BY <3>3 DEF f
    <3>5. f \in Int
      BY <3>4, ReactorAssumption DEF FreeFds
    <3>6. c \in Conns
      BY DEF OutsideInv
    <3>7. file' \in [Fds -> Conns \cup {None}] /\ backlog' \subseteq Conns
      BY <3>2, <3>6 DEF OutsideInv
    <3>8. Post(r, q, f)
      BY <3>2 DEF f
    <3> QED BY <1>1, <2>1, <3>5, <3>7, <3>8 DEF OutsideInv
  <2>3. CASE Post(r, q, -1) /\ UNCHANGED <<backlog, file>>
    BY <1>1, <1>2, <2>1, <2>3
  <2> QED BY <1>3, <2>2, <2>3 DEF CompleteAccept
<1>4. CASE CompleteData(r, q)
  <2> DEFINE c == heap[q].conn
  <2>0. PICK room \in Rooms(q) : \E n \in 1 .. room :
          /\ heap' = [heap EXCEPT ![q].data = @ \o Segments(c, n)]
          /\ taken' = [taken EXCEPT ![c] = @ + n]
          /\ Post(r, q, n) /\ c # None
    BY <1>4 DEF CompleteData
  <2>1. PICK n \in 1 .. room :
          /\ heap' = [heap EXCEPT ![q].data = @ \o Segments(c, n)]
          /\ taken' = [taken EXCEPT ![c] = @ + n]
          /\ Post(r, q, n) /\ c # None
    BY <2>0
  <2>2. UNCHANGED <<backlog, file>>
    BY <1>4 DEF CompleteData
  <2>3. n \in Nat
    BY <2>1
  <2>4. q \in DOMAIN heap
    BY DEF HoldInv, Owned
  <2>5. heap[q] \in Content /\ c \in Conns
    BY <2>1, <2>4 DEF HeapInv, Content
  <2>6. taken[c] \in Nat
    BY <2>5 DEF OutsideInv
  <2> HIDE DEF c
  <2>7. Segments(c, n) \in Seq(Conns \X Nat)
    BY <2>3, <2>5, <2>6 DEF Segments
  <2>8. heap[q].data \in Seq(Conns \X Nat)
    BY <2>5 DEF Content
  <2>9. heap[q].data \o Segments(c, n) \in Seq(Conns \X Nat)
    BY <2>7, <2>8, ConcatProperties
  <2>10. taken' \in [Conns -> Nat]
    BY <2>1, <2>3, <2>5, <2>6 DEF OutsideInv
  <2> DEFINE d == heap[q].data \o Segments(c, n)
  <2>11. heap' = [heap EXCEPT ![q].data = d]
    BY <2>1
  <2> HIDE DEF d
  <2>12. d \in Seq(Conns \X Nat)
    BY <2>9 DEF d
  <2>13. [heap[q] EXCEPT !.data = d] \in Content
    BY <2>5, <2>12 DEF Content
  <2>14. heap' = [heap EXCEPT ![q] = [heap[q] EXCEPT !.data = d]]
    BY <2>4, <2>11 DEF HeapInv
  <2>15. heap' \in [DOMAIN heap -> Content] /\ DOMAIN heap' = DOMAIN heap
    BY <2>13, <2>14 DEF HeapInv
  <2>16. \A p \in DOMAIN heap : heap'[p].type = heap[p].type /\ heap'[p].fd = heap[p].fd
    <3>1. /\ [heap[q] EXCEPT !.data = d].type = heap[q].type
          /\ [heap[q] EXCEPT !.data = d].fd = heap[q].fd
      BY <2>5 DEF Content
    <3> QED BY <2>14, <3>1 DEF HeapInv
  <2>17. HeapInv'
    BY <2>15, <2>16 DEF HeapInv
  <2> QED BY <2>1, <2>2, <2>3, <2>10, <2>15, <2>17 DEF OutsideInv
<1>5. CASE CompleteEnd(r, q)
  <2>1. Post(r, q, 0) \/ Post(r, q, -1)
    BY <1>5 DEF CompleteEnd
  <2> QED BY <1>1, <1>2, <1>5, <2>1 DEF CompleteEnd
<1>6. CASE CompleteEfd(r, q)
  BY <1>1, <1>2, <1>6 DEF CompleteEfd
<1>7. CASE CompleteWrite(r, q)
  <2>1. PICK x \in WriteResults(heap[q].conn) : Post(r, q, x)
    BY <1>7 DEF CompleteWrite
  <2>2. UNCHANGED <<file, taken, backlog, heap>>
    BY <1>7 DEF CompleteWrite
  <2>3. \A y \in WriteResults(heap[q].conn) : y \in Int
    BY DEF WriteResults
  <2>4. Post(r, q, x) /\ x \in Int
    BY <2>1, <2>3
  <2> QED BY <1>1, <1>2, <2>2, <2>4
<1> QED BY <1>3, <1>4, <1>5, <1>6, <1>7

(* The kernel moves a request from a ring to its completion queue.         *)
LEMMA CompleteStep ==
  ASSUME ReactorInv, NEW r \in Rings, Complete(r)
  PROVE  ReactorInv'
<1>1. PICK q \in inflight[r] :
        \/ CompleteAccept(r, q) \/ CompleteData(r, q) \/ CompleteEnd(r, q)
        \/ CompleteEfd(r, q)    \/ CompleteWrite(r, q)
  BY DEF Complete
<1>2. /\ \E x \in Int : Post(r, q, x)
      /\ HeapInv' /\ DOMAIN heap' = DOMAIN heap
      /\ file' \in [Fds -> Conns \cup {None}] /\ taken' \in [Conns -> Nat]
      /\ backlog' \subseteq Conns
  BY <1>1, CompleteGoes DEF ReactorInv
<1>3. PICK x \in Int : Post(r, q, x)
  BY <1>2
<1>4. UNCHANGED <<list, peer, sent, wpc, cur, cqres, opc, oi, told, sends, wrote, calls>>
  BY <1>3 DEF Post, workers, app
<1>5. opc \notin {"freed", "aborted"}
  BY DEF ReactorInv, OwnerInv
<1>6. OwnerInv'
  BY <1>4, <1>5 DEF ReactorInv, OwnerInv
<1>7. OutsideInv'
  BY <1>2, <1>4 DEF ReactorInv, OutsideInv
<1>8. /\ HoldInv' /\ (AllAlive /\ Listed => Listed')
      /\ inflight' \in [Rings -> SUBSET Addresses]
      /\ cq' \in [Rings -> Seq([req : Addresses, res : Int])]
  BY <1>2, <1>3, PostHold DEF ReactorInv
<1>9. RingInv'
  BY <1>4, <1>8 DEF ReactorInv, RingInv
<1>10. ListInv'
  BY <1>4, <1>5, <1>8 DEF ReactorInv, ListInv, Listed, AllAlive, Alive
<1> QED BY <1>2, <1>6, <1>7, <1>8, <1>9, <1>10 DEF ReactorInv

(* The worker takes the first entry, and starts on it or ends its loop.    *)
LEMMA ReapStep ==
  ASSUME ReactorInv, NEW w \in Rings, Reap(w) \/ ReapStop(w)
  PROVE  ReactorInv'
<1> DEFINE h == Head(cq[w]).req
<1>1. /\ cq[w] # <<>> /\ wpc[w] = "wait"
      /\ cq' = [cq EXCEPT ![w] = Tail(@)] /\ inflight' = inflight
      /\ UNCHANGED <<outside, owner, app>>
  BY DEF Reap, ReapStop, ReapedStop, Go
<1>2. h \in Queue(w) /\ h \in Addresses /\ Head(cq[w]).res \in Int
  BY <1>1, QueueHead DEF ReactorInv
<1>3. /\ Alive(w) /\ cur[w] = None /\ h \in DOMAIN heap /\ h # None
  <2>1. Alive(w) /\ cur[w] = None
    BY <1>1 DEF Alive, ReactorInv, RingInv, Handling
  <2>2. h \in DOMAIN heap
    BY <1>2, <2>1 DEF ReactorInv, HoldInv, Owned
  <2>3. h # None
    BY <1>2, ReactorAssumption DEF Addresses, Kinds
  <2> QED BY <2>1, <2>2, <2>3
<1>4. \E to \in Places \ {"dead"} :
        /\ Go(w, "wait", to)
        /\ to \in Handling <=> Reap(w)
        /\ to \in Handling => cqres' = [cqres EXCEPT ![w] = Head(cq[w]).res]
        /\ to \notin Handling => cqres' = cqres
  <2>1. CASE Reap(w)
    <3>1. heap[h].type \in Kinds
      BY <1>3 DEF ReactorInv, HeapInv, Content
    <3>2. Go(w, "wait", heap[h].type) /\ cqres' = [cqres EXCEPT ![w] = Head(cq[w]).res]
      BY <2>1 DEF Reap
    <3> QED BY <2>1, <3>1, <3>2 DEF Kinds, Places, Handling
  <2>2. CASE ReapStop(w) /\ ~Reap(w)
    BY <2>2 DEF ReapStop, ReapedStop, Places, Handling
  <2> QED BY <2>1, <2>2
<1>5. PICK to \in Places \ {"dead"} :
        /\ Go(w, "wait", to)
        /\ to \in Handling <=> Reap(w)
        /\ to \in Handling => cqres' = [cqres EXCEPT ![w] = Head(cq[w]).res]
        /\ to \notin Handling => cqres' = cqres
  BY <1>4
<1>6. /\ wpc' \in [Rings -> Places]
      /\ \A s \in Rings : wpc'[s] = IF s = w THEN to ELSE wpc[s]
      /\ \A s \in Rings : Alive(s)' <=> Alive(s)
  BY <1>5, GoPlace DEF ReactorInv
<1>7. OwnerInv' /\ opc \notin {"freed", "aborted"} /\ opc' = opc
  BY <1>1, <1>5, GoOwner DEF ReactorInv, owner, app
<1>8. OutsideInv'
  BY <1>1 DEF ReactorInv, OutsideInv, outside, app
<1>9. cqres' \in [Rings -> Int]
  BY <1>2, <1>5 DEF ReactorInv, RingInv
<1>10. AllAlive' <=> AllAlive
  BY <1>6 DEF AllAlive
<1>11. CASE Reap(w)
  <2>1. cur' = [cur EXCEPT ![w] = h] /\ heap' = heap /\ list' = list
    BY <1>11 DEF Reap, reqs
  <2>2. cur' # cur
    BY <1>3, <2>1 DEF ReactorInv, RingInv
  <2>3. /\ HoldInv'
        /\ cq' \in [Rings -> Seq([req : Addresses, res : Int])]
        /\ Listed /\ list' = SetToBag(DOMAIN heap') => Listed'
    BY <1>1, <1>6, <2>1, <2>2, TakeHold DEF ReactorInv
  <2>4. RingInv'
    <3>1. \A s \in Rings : cur'[s] # None <=> wpc'[s] \in Handling
      BY <1>3, <1>5, <1>6, <1>11, <2>1 DEF ReactorInv, RingInv
    <3>2. cur' \in [Rings -> Addresses \cup {None}]
      BY <1>2, <2>1 DEF ReactorInv, RingInv
    <3> QED BY <1>1, <1>6, <1>9, <2>3, <3>1, <3>2 DEF ReactorInv, RingInv
  <2>5. HeapInv'
    BY <2>1 DEF ReactorInv, HeapInv
  <2>6. Listed => Listed'
    BY <2>1, <2>3 DEF Listed
  <2>7. ListInv'
    BY <1>7, <1>10, <2>6 DEF ReactorInv, ListInv, Listed
  <2> QED BY <1>7, <1>8, <2>3, <2>4, <2>5, <2>7 DEF ReactorInv
<1>12. CASE ReapStop(w) /\ ~Reap(w)
  <2>1. cur' = cur /\ ListDelete(h)
    BY <1>12 DEF ReapStop, ReapedStop
  <2>2. /\ HeapInv'
        /\ \/ DOMAIN heap' = DOMAIN heap
           \/ DOMAIN heap' = DOMAIN heap \ {h}
        /\ list = SetToBag(DOMAIN heap) =>
             DOMAIN heap' = DOMAIN heap \ {h} /\ list' = SetToBag(DOMAIN heap')
    BY <1>3, <2>1, DeleteHeap DEF ReactorInv
  <2>3. /\ HoldInv'
        /\ cq' \in [Rings -> Seq([req : Addresses, res : Int])]
        /\ Listed /\ DOMAIN heap' = DOMAIN heap \ {h}
                  /\ list' = SetToBag(DOMAIN heap') => Listed'
    BY <1>1, <1>6, <2>1, <2>2, TakeHold DEF ReactorInv
  <2>4. RingInv'
    <3>1. \A s \in Rings : cur'[s] # None <=> wpc'[s] \in Handling
      BY <1>3, <1>5, <1>6, <1>12, <2>1 DEF ReactorInv, RingInv
    <3> QED BY <1>1, <1>6, <1>9, <2>1, <2>3, <3>1 DEF ReactorInv, RingInv
  <2>5. Listed => Listed'
    BY <2>2, <2>3 DEF Listed
  <2>6. ListInv'
    BY <1>7, <1>10, <2>5 DEF ReactorInv, ListInv, Listed
  <2> QED BY <1>7, <1>8, <2>2, <2>3, <2>4, <2>6 DEF ReactorInv
<1> QED BY <1>11, <1>12

(* The request in hand is deleted, and the worker waits.                   *)
LEMMA DeleteStep ==
  ASSUME ReactorInv, NEW w \in Rings, Delete(w)
  PROVE  ReactorInv'
<1>1. /\ Go(w, "delete", "wait") /\ ListDelete(cur[w])
      /\ cur' = [cur EXCEPT ![w] = None] /\ cqres' = [cqres EXCEPT ![w] = 0]
      /\ inflight' = inflight /\ cq' = cq
      /\ UNCHANGED <<outside, owner, app>>
  BY DEF Delete, ringv
<1>2. /\ wpc' \in [Rings -> Places]
      /\ \A s \in Rings : wpc'[s] = IF s = w THEN "wait" ELSE wpc[s]
      /\ \A s \in Rings : Alive(s)' <=> Alive(s)
      /\ wpc[w] = "delete"
  BY <1>1, GoPlace DEF ReactorInv, Places
<1>3. OwnerInv' /\ opc \notin {"freed", "aborted"} /\ opc' = opc
  BY <1>1, GoOwner DEF ReactorInv, owner, app
<1>4. OutsideInv'
  BY <1>1 DEF ReactorInv, OutsideInv, outside, app
<1>5. cur[w] # None
  BY <1>2 DEF ReactorInv, RingInv, Handling
<1>6. /\ HeapInv'
      /\ \/ DOMAIN heap' = DOMAIN heap
         \/ DOMAIN heap' = DOMAIN heap \ {cur[w]}
      /\ cur[w] \in DOMAIN heap /\ list = SetToBag(DOMAIN heap) =>
           DOMAIN heap' = DOMAIN heap \ {cur[w]} /\ list' = SetToBag(DOMAIN heap')
  BY <1>1, DeleteHeap DEF ReactorInv
<1>7. /\ HoldInv' /\ cur[w] \in DOMAIN heap
      /\ Listed /\ DOMAIN heap' = DOMAIN heap \ {cur[w]}
                /\ list' = SetToBag(DOMAIN heap') => Listed'
  BY <1>1, <1>2, <1>5, <1>6, DeleteHold DEF ReactorInv
<1>8. RingInv'
  <2>1. \A s \in Rings : cur'[s] # None <=> wpc'[s] \in Handling
    BY <1>1, <1>2 DEF ReactorInv, RingInv, Handling
  <2>2. cur' \in [Rings -> Addresses \cup {None}] /\ cqres' \in [Rings -> Int]
    BY <1>1 DEF ReactorInv, RingInv
  <2> QED BY <1>1, <1>2, <2>1, <2>2 DEF ReactorInv, RingInv
<1>9. ListInv'
  BY <1>2, <1>3, <1>6, <1>7 DEF ReactorInv, ListInv, Listed, AllAlive
<1> QED BY <1>3, <1>4, <1>6, <1>7, <1>8, <1>9 DEF ReactorInv

(* A worker returns from its loop because a request or the wait failed.    *)
LEMMA DieStep ==
  ASSUME ReactorInv, NEW w \in Rings, ReapFailure(w) \/ WaitFails(w)
  PROVE  ReactorInv'
<1>1. /\ Go(w, "wait", "dead")
      /\ UNCHANGED <<outside, inflight, cq, cur, cqres, owner, app>>
  BY DEF ReapFailure, WaitFails, ringv
<1>2. HeapInv' /\ \/ DOMAIN heap' = DOMAIN heap
                  \/ cq[w] # <<>> /\ DOMAIN heap' = DOMAIN heap \ {Head(cq[w]).req}
  <2>1. CASE heap' = heap
    BY <2>1 DEF ReactorInv, HeapInv
  <2>2. CASE cq[w] # <<>> /\ heap' = Free(Head(cq[w]).req)
    BY <2>2, FreeHeap DEF ReactorInv, Free
  <2> QED BY <2>1, <2>2 DEF ReapFailure, WaitFails, reqs
<1>3. HoldInv' /\ ~AllAlive'
  BY <1>1, <1>2, DieHold DEF ReactorInv
<1>4. wpc[w] = "wait" /\ \A s \in Rings : wpc'[s] = IF s = w THEN "dead" ELSE wpc[s]
  BY <1>1 DEF Go, ReactorInv, RingInv
<1>5. OwnerInv'
  BY <1>1, GoOwner DEF ReactorInv, owner, app
<1>6. OutsideInv'
  BY <1>1 DEF ReactorInv, OutsideInv, outside, app
<1>7. wpc' \in [Rings -> Places]
  BY <1>1 DEF Go, ReactorInv, RingInv, Places
<1>8. \A s \in Rings : cur'[s] # None <=> wpc'[s] \in Handling
  BY <1>1, <1>4 DEF ReactorInv, RingInv, Handling
<1>9. RingInv'
  BY <1>1, <1>7, <1>8 DEF ReactorInv, RingInv
<1>10. ListInv'
  BY <1>3 DEF ListInv
<1> QED BY <1>2, <1>3, <1>5, <1>6, <1>9, <1>10 DEF ReactorInv

(* Everything is freed; the process aborts only if a worker died.          *)
LEMMA FreeStep ==
  ASSUME ReactorInv, DestroyFree
  PROVE  ReactorInv'
<1>1. /\ opc = "joining"
      /\ opc' = IF list = SetToBag(BagToSet(list) \cap DOMAIN heap)
                THEN "freed" ELSE "aborted"
      /\ \A w \in Rings : wpc[w] \in {"done", "dead"}
      /\ inflight' = [r \in Rings |-> {}] /\ cq' = [r \in Rings |-> <<>>]
      /\ heap' = Restrict(heap, DOMAIN heap \ BagToSet(list))
      /\ UNCHANGED <<outside, workers, oi, app>>
  BY DEF DestroyFree, Owner, ListFree
<1>2. HeapInv'
  BY <1>1, FreeHeap DEF ReactorInv
<1>3. HoldInv'
  BY FreeHold DEF ReactorInv
<1>4. cq' \in [Rings -> Seq([req : Addresses, res : Int])]
  <2>1. <<>> \in Seq([req : Addresses, res : Int])
    BY EmptySeq
  <2> HIDE DEF Addresses
  <2> QED BY <1>1, <2>1
<1>5. RingInv'
  BY <1>1, <1>4 DEF ReactorInv, RingInv, workers
<1>6. OutsideInv'
  BY <1>1 DEF ReactorInv, OutsideInv, outside, app
<1>7. OwnerInv'
  BY <1>1 DEF ReactorInv, OwnerInv, workers, app
<1>8. ASSUME AllAlive'
      PROVE  opc' = "freed"
  <2>1. AllAlive
    BY <1>1, <1>8 DEF AllAlive, Alive, workers
  <2>2. list = SetToBag(DOMAIN heap)
    BY <1>1, <2>1 DEF ReactorInv, ListInv
  <2>3. BagToSet(list) \cap DOMAIN heap = DOMAIN heap
    BY <2>2 DEF SetToBag, BagToSet
  <2> QED BY <1>1, <2>2, <2>3
<1>9. ListInv'
  BY <1>8 DEF ListInv
<1> QED BY <1>2, <1>3, <1>5, <1>6, <1>7, <1>9 DEF ReactorInv

-----------------------------------------------------------------------------
(* The theorems.                                                           *)

(* Initially there are no requests.                                        *)
LEMMA ReactorInvInit ==
  ASSUME Init
  PROVE  ReactorInv
<1>1. RingInv
  <2>1. <<>> \in Seq([req : Addresses, res : Int])
    BY EmptySeq
  <2> HIDE DEF Addresses
  <2> QED BY <2>1 DEF Init, RingInv, Places, Handling
<1>2. HeapInv
  <2>1. DOMAIN heap = {} /\ heap = [q \in {} |-> 1]
    BY DEF Init, EmptyBag, SetToBag
  <2>2. heap \in [{} -> Content]
    BY <2>1
  <2> QED BY <2>1, <2>2, FS_EmptySet DEF HeapInv
<1>3. OutsideInv /\ OwnerInv
  BY ReactorAssumption, FS_EmptySet DEF Init, OutsideInv, OwnerInv, Rings
<1>4. HoldInv
  <2>1. \A r \in Rings : Queue(r) = {} /\ inflight[r] = {} /\ cur[r] = None /\ Once(r)
    BY DEF Init, Queue, Once
  <2>2. \A r \in Rings : Owned(r) = {}
    BY <2>1 DEF Owned
  <2> QED BY <2>1, <2>2 DEF HoldInv
<1>5. ListInv
  BY DEF Init, ListInv, EmptyBag, SetToBag
<1> QED BY <1>1, <1>2, <1>3, <1>4, <1>5 DEF ReactorInv

(* Every step keeps the invariant.                                         *)
LEMMA ReactorInvNext ==
  ASSUME ReactorInv, [Next]_vars
  PROVE  ReactorInv'
<1>1. ASSUME NEW c \in Conns, PeerConnect(c) \/ PeerSend(c) \/ PeerClose(c)
      PROVE  ReactorInv'
  BY <1>1, PeerStep
<1>2. ASSUME NEW r \in Rings, Complete(r) \/ Worker(r) \/ WaitFails(r)
      PROVE  ReactorInv'
  <2>1. CASE Complete(r)
    BY <2>1, CompleteStep
  <2>2. CASE WaitFails(r) \/ ReapFailure(r)
    BY <2>2, DieStep
  <2>3. CASE Reap(r) \/ ReapStop(r)
    BY <2>3, ReapStep
  <2>4. CASE Delete(r)
    BY <2>4, DeleteStep
  <2>5. CASE HandlerStep(r)
    BY <2>5, HandlerStepInv
  <2>6. CASE Adds(r)
    BY <2>6, AddStepInv
  <2>7. Worker(r) => \/ ReapFailure(r) \/ Reap(r) \/ ReapStop(r) \/ Delete(r)
                     \/ HandlerStep(r) \/ Adds(r)
    BY DEF Worker, HandlerStep, Adds, Accept
  <2> QED BY <1>2, <2>1, <2>2, <2>3, <2>4, <2>5, <2>6, <2>7
<1>3. CASE Send \/ Submit
  BY <1>3, SendStep, SubmitStep
<1>4. CASE Stop \/ OwnerStep
  <2>1. OwnerGoes \/ DestroyFree
    BY <1>4 DEF OwnerStep, OwnerGoes
  <2> QED BY <2>1, OwnerStepInv, FreeStep
<1>5. CASE UNCHANGED vars
  <2>1. UNCHANGED <<inflight, cq, heap, list, wpc, cur, cqres, opc, oi,
                    peer, sent, taken, backlog, file, told, sends, wrote, calls>>
    BY <1>5 DEF vars, outside, ringv, reqs, workers, owner, app
  <2>2. HeapInv' /\ OutsideInv' /\ OwnerInv'
    BY <2>1 DEF ReactorInv, HeapInv, OutsideInv, OwnerInv
  <2>3. cqres' \in [Rings -> Int] /\ wpc' \in [Rings -> Places]
    BY <2>1 DEF ReactorInv, RingInv
  <2> QED BY <2>1, <2>2, <2>3, SteadyStep DEF Alive
<1> QED BY <1>1, <1>2, <1>3, <1>4, <1>5 DEF Next

(* The invariant holds in every reachable state.                           *)
THEOREM ReactorInvariant == Spec => []ReactorInv
<1>1. Init => ReactorInv
  BY ReactorInvInit
<1>2. ReactorInv /\ [Next]_vars => ReactorInv'
  BY ReactorInvNext
<1> QED BY <1>1, <1>2, PTL DEF Spec

(* The kernel never holds a request that was freed, nor two rings the same *)
(* one: not even after failures, which free requests that stay listed and  *)
(* let their addresses be used again.                                      *)
THEOREM NeverFreedInRing == Spec => []KernelHoldsLive
<1>1. ReactorInv => KernelHoldsLive
  BY DEF ReactorInv, HoldInv, Owned, KernelHoldsLive
<1> QED BY <1>1, ReactorInvariant, PTL

(* Until a worker returned because a request or a wait failed, the list is *)
(* exactly what low_saurion.c has in its hands, each request in one place. *)
THEOREM ListIsWhatIsInUse == Spec => []Registry
<1>1. ReactorInv => Registry
  <2> SUFFICES ASSUME ReactorInv, AllAlive, opc # "freed"
               PROVE  /\ list = SetToBag(DOMAIN heap)
                      /\ DOMAIN heap = UNION {Held(r) : r \in Rings}
    BY DEF Registry
  <2>1. \A r \in Rings : Held(r) = Owned(r)
    BY DEF Held, Owned, Queue, AllAlive
  <2>2. \A r \in Rings : Owned(r) \subseteq DOMAIN heap
    BY DEF ReactorInv, HoldInv
  <2>3. /\ list = SetToBag(DOMAIN heap)
        /\ \A q \in DOMAIN heap : \E r \in Rings : q \in Owned(r)
    BY DEF ReactorInv, ListInv
  <2> QED BY <2>1, <2>2, <2>3
<1> QED BY <1>1, ReactorInvariant, PTL

(* saurion_destroy frees nothing twice, and the process does not abort in  *)
(* it, unless a worker returned because of a failure.                      *)
THEOREM DestroyedCleanly == Spec => [](AllAlive => opc # "aborted")
<1>1. ReactorInv => (AllAlive => opc # "aborted")
  BY DEF ReactorInv, ListInv
<1> QED BY <1>1, ReactorInvariant, PTL

-----------------------------------------------------------------------------
(* Messages sent: on_wrote confirms each message given to saurion_send     *)
(* once, and every request is listed up to its end.                        *)

AcceptPlaces == {"accept", "accept_again", "accept_read"}
ReadPlaces   == {"read", "closing", "closed", "data", "read_again"}

(* A handler works on a request of its kind, and messages are sent on the  *)
(* descriptors of connections; every request allocated is listed.          *)
KindInv ==
  /\ \A w \in Rings : /\ wpc[w] \in AcceptPlaces => cur[w][1] = "accept"
                      /\ wpc[w] \in ReadPlaces => cur[w][1] = "read"
                      /\ wpc[w] = "write" => cur[w][1] = "write"
  /\ \A q \in DOMAIN heap : q[1] = "write" => q[2] \in Fds

ListedInv ==
  /\ list \in [DOMAIN list -> Nat \ {0}]
  /\ DOMAIN heap \subseteq BagToSet(list)
  /\ opc \in {"freed", "aborted"} => DOMAIN heap = {}

(* Every message given to saurion_send is confirmed once, or was lost with *)
(* a worker that died.                                                     *)
WriteInv ==
  /\ wrote + Cardinality(Unconfirmed) + Cardinality(calls) <= sends
  /\ WritesConfirmed

-----------------------------------------------------------------------------
(* Messages confirmed, for any results.                                    *)

(* A request is at an address of its kind.                                 *)
LEMMA UnconfirmedIs ==
  ASSUME HeapInv, HeapInv'
  PROVE  /\ Unconfirmed = {q \in DOMAIN heap : q[1] = "write" /\ q \notin Deleting}
         /\ Unconfirmed' = {q \in DOMAIN heap' : q[1] = "write" /\ q \notin Deleting'}
         /\ IsFiniteSet(Unconfirmed) /\ IsFiniteSet(Unconfirmed')
         /\ Cardinality(Unconfirmed) \in Nat /\ Cardinality(Unconfirmed') \in Nat
<1>1. Unconfirmed = {q \in DOMAIN heap : q[1] = "write" /\ q \notin Deleting}
  BY DEF Unconfirmed, HeapInv
<1>2. Unconfirmed' = {q \in DOMAIN heap' : q[1] = "write" /\ q \notin Deleting'}
  BY DEF Unconfirmed, HeapInv
<1>3. IsFiniteSet(Unconfirmed) /\ IsFiniteSet(Unconfirmed')
  BY <1>1, <1>2, FS_Subset DEF HeapInv
<1> QED BY <1>1, <1>2, <1>3, FS_CardinalityType

(* The calls in progress can be counted.                                   *)
LEMMA CallsCount ==
  ASSUME OutsideInv
  PROVE  IsFiniteSet(calls) /\ Cardinality(calls) \in Nat
BY FS_CardinalityType DEF OutsideInv

(* Steps that confirm nothing and send nothing.                            *)
LEMMA CountSame ==
  ASSUME HeapInv, HeapInv', OutsideInv, WriteInv, wrote' = wrote, sends' = sends,
         calls' = calls, Unconfirmed' \subseteq Unconfirmed,
         AllAlive' => AllAlive,
         AllAlive' /\ opc' # "freed" => opc # "freed" /\ Unconfirmed' = Unconfirmed
  PROVE  WriteInv'
<1>1. Cardinality(Unconfirmed') <= Cardinality(Unconfirmed)
  BY UnconfirmedIs, FS_Subset
<1>2. wrote' + Cardinality(Unconfirmed') + Cardinality(calls') <= sends'
  BY <1>1, UnconfirmedIs, CallsCount DEF WriteInv, OutsideInv
<1>3. WritesConfirmed'
  BY DEF WriteInv, WritesConfirmed
<1> QED BY <1>2, <1>3 DEF WriteInv

(* on_wrote is called for one request.                                     *)
LEMMA CountWrote ==
  ASSUME HeapInv, HeapInv', OutsideInv, WriteInv, wrote' = wrote + 1, sends' = sends,
         NEW q \in Unconfirmed, Unconfirmed' = Unconfirmed \ {q},
         calls' = calls, AllAlive' => AllAlive, opc' = opc
  PROVE  WriteInv'
<1>1. Cardinality(Unconfirmed') = Cardinality(Unconfirmed) - 1
  BY UnconfirmedIs, FS_RemoveElement
<1>2. wrote' + Cardinality(Unconfirmed') + Cardinality(calls') <= sends'
  BY <1>1, UnconfirmedIs, CallsCount DEF WriteInv, OutsideInv
<1>3. WritesConfirmed'
  BY <1>1, UnconfirmedIs, CallsCount DEF WriteInv, WritesConfirmed, OutsideInv
<1> QED BY <1>2, <1>3 DEF WriteInv

(* saurion_send is called.                                                 *)
LEMMA CountSent ==
  ASSUME HeapInv, HeapInv', OutsideInv, WriteInv, wrote' = wrote, sends' = sends + 1,
         NEW k, k \notin calls, calls' = calls \cup {k},
         Unconfirmed' = Unconfirmed, AllAlive' => AllAlive, opc' = opc
  PROVE  WriteInv'
<1>1. Cardinality(calls') = Cardinality(calls) + 1
  BY CallsCount, FS_AddElement
<1>2. wrote' + Cardinality(Unconfirmed') + Cardinality(calls') <= sends'
  BY <1>1, UnconfirmedIs, CallsCount DEF WriteInv, OutsideInv
<1>3. WritesConfirmed'
  BY <1>1, UnconfirmedIs, CallsCount DEF WriteInv, WritesConfirmed, OutsideInv
<1> QED BY <1>2, <1>3 DEF WriteInv

(* The request of a call is submitted.                                     *)
LEMMA CountSubmitted ==
  ASSUME HeapInv, HeapInv', OutsideInv, WriteInv, wrote' = wrote, sends' = sends,
         NEW k \in calls, calls' = calls \ {k},
         NEW q, q \notin Unconfirmed, Unconfirmed' = Unconfirmed \cup {q},
         AllAlive' => AllAlive, opc' = opc
  PROVE  WriteInv'
<1>1. /\ Cardinality(calls') = Cardinality(calls) - 1
      /\ Cardinality(Unconfirmed') = Cardinality(Unconfirmed) + 1
  BY UnconfirmedIs, CallsCount, FS_AddElement, FS_RemoveElement
<1>2. wrote' + Cardinality(Unconfirmed') + Cardinality(calls') <= sends'
  BY <1>1, UnconfirmedIs, CallsCount DEF WriteInv, OutsideInv
<1>3. WritesConfirmed'
  BY <1>1, UnconfirmedIs, CallsCount DEF WriteInv, WritesConfirmed, OutsideInv
<1> QED BY <1>2, <1>3 DEF WriteInv

CountInv == KindInv /\ ListedInv /\ WriteInv

(* A worker goes on with its request, up to its deletion.                  *)
GoesOn(v) ==
  /\ wpc[v] \notin {"delete", "dead", "write"} /\ wpc'[v] \notin {"dead", "write"}
  /\ wpc'[v] \in AcceptPlaces => wpc[v] \in AcceptPlaces
  /\ wpc'[v] \in ReadPlaces => wpc[v] \in ReadPlaces
  /\ wpc'[v] = "delete" => wpc[v] \in AcceptPlaces \cup ReadPlaces

GoOn == cur' = cur /\ \A v \in Rings : wpc'[v] = wpc[v] \/ GoesOn(v)

(* A worker that goes on keeps its kind of request.                        *)
LEMMA GoOnKeeps ==
  ASSUME KindInv, GoOn
  PROVE  /\ Deleting \subseteq Deleting'
         /\ \A q \in Deleting' \ Deleting : q[1] # "write"
         /\ AllAlive' <=> AllAlive
         /\ \A w \in Rings : /\ wpc'[w] \in AcceptPlaces => cur'[w][1] = "accept"
                             /\ wpc'[w] \in ReadPlaces => cur'[w][1] = "read"
                             /\ wpc'[w] = "write" => cur'[w][1] = "write"
<1>1. Deleting \subseteq Deleting'
  BY DEF Deleting, GoOn, GoesOn
<1>2. \A q \in Deleting' \ Deleting : q[1] # "write"
  <2> SUFFICES ASSUME NEW v \in Rings, wpc'[v] = "delete", cur[v] \notin Deleting
               PROVE  cur[v][1] # "write"
    BY DEF Deleting, GoOn
  <2>1. wpc[v] # "delete"
    BY DEF Deleting
  <2>2. wpc[v] \in AcceptPlaces \cup ReadPlaces
    BY <2>1 DEF GoOn, GoesOn
  <2> QED BY <2>2 DEF KindInv
<1>3. AllAlive' <=> AllAlive
  BY DEF AllAlive, Alive, GoOn, GoesOn
<1>4. \A w \in Rings : /\ wpc'[w] \in AcceptPlaces => cur'[w][1] = "accept"
                       /\ wpc'[w] \in ReadPlaces => cur'[w][1] = "read"
                       /\ wpc'[w] = "write" => cur'[w][1] = "write"
  BY DEF KindInv, GoOn, GoesOn
<1> QED BY <1>1, <1>2, <1>3, <1>4

(* Steps that leave every request where it is, and confirm nothing.        *)
LEMMA CountSteady ==
  ASSUME ReactorInv, ReactorInv', CountInv, GoOn,
         UNCHANGED <<list, wrote, sends, calls>>, DOMAIN heap' = DOMAIN heap,
         opc' = opc \/ (opc # "freed" /\ opc' \notin {"freed", "aborted"})
  PROVE  CountInv'
<1>1. HeapInv /\ HeapInv' /\ OutsideInv
  BY DEF ReactorInv
<1>2. /\ Deleting \subseteq Deleting'
      /\ \A q \in Deleting' \ Deleting : q[1] # "write"
      /\ AllAlive' <=> AllAlive
  BY GoOnKeeps DEF CountInv
<1>3. Unconfirmed' = Unconfirmed
  BY <1>1, <1>2, UnconfirmedIs
<1>4. KindInv'
  BY GoOnKeeps DEF CountInv, KindInv
<1>5. ListedInv'
  BY DEF CountInv, ListedInv
<1>6. WriteInv'
  BY <1>1, <1>2, <1>3, CountSame DEF CountInv
<1> QED BY <1>4, <1>5, <1>6 DEF CountInv

(* A request added that is no message.                                     *)
LEMMA CountAdds ==
  ASSUME ReactorInv, ReactorInv', CountInv, NEW w \in Rings, Adds(w)
  PROVE  CountInv'
<1>1. HeapInv /\ HeapInv' /\ OutsideInv /\ RingInv
  BY DEF ReactorInv
<1>2. GoOn /\ UNCHANGED <<wrote, sends, calls, opc>>
  <2>1. UNCHANGED <<wrote, sends, calls, opc, cur>>
    BY DEF Adds, StartEfd, StartAccept, AcceptAgain, AcceptRead, ReadAgain,
           ReadRest, rest, app, owner
  <2>2. PICK from \in Places, to \in Places :
          /\ Go(w, from, to)
          /\ \/ from = "queued" /\ to \in {"add_accept", "ready"}
             \/ from = "add_accept" /\ to = "ready"
             \/ from = "accept_again" /\ to = "accept_read"
             \/ from \in {"accept_read", "read_again", "data"} /\ to = "delete"
    BY DEF Adds, StartEfd, StartAccept, AcceptAgain, AcceptRead, ReadAgain,
           ReadRest, Places, Handling
  <2>3. wpc[w] = from /\ \A v \in Rings : wpc'[v] = IF v = w THEN to ELSE wpc[v]
    BY <1>1, <2>2 DEF Go, RingInv
  <2> QED BY <2>1, <2>2, <2>3 DEF GoOn, GoesOn, AcceptPlaces, ReadPlaces
<1>3. PICK sel \in Rings, r \in Content, others \in [DOMAIN heap -> Content] :
        /\ Fill(others) /\ Insert(sel, r, others)
        /\ r.type # "write"
  <2>1. PICK sel \in Rings, r \in Content, others \in [DOMAIN heap -> Content] :
           /\ Fill(others) /\ Insert(sel, r, others) /\ UNCHANGED rest
           /\ \/ StartEfd(w) /\ sel = w /\ r = Request("read", EFD(w), None, <<>>)
              \/ /\ StartAccept(w) \/ AcceptAgain(w)
                 /\ r = Request("accept", ACCEPT_FD, None, <<>>)
              \/ AcceptRead(w) /\ r = Request("read", Result(w), File(Result(w)), <<>>)
              \/ ReadAgain(w) /\ r = Request("read", Fd(w), File(Fd(w)), <<>>)
              \/ /\ ReadRest(w)
                 /\ r = [heap[cur[w]] EXCEPT !.conn = File(Fd(w)), !.prev = TRUE]
                 /\ others = [heap EXCEPT ![cur[w]].prev = TRUE]
           /\ ~ReadRest(w) => others = heap
    BY AddsFill
  <2>2. ASSUME ReadRest(w),
               r = [heap[cur[w]] EXCEPT !.conn = File(Fd(w)), !.prev = TRUE]
        PROVE  r.type # "write"
    <3>1. wpc[w] = "data"
      BY <2>2 DEF ReadRest, Go
    <3>2. cur[w] \in DOMAIN heap /\ cur[w][1] = "read"
      BY <3>1 DEF ReactorInv, RingInv, HoldInv, Owned, Handling, CountInv,
                  KindInv, ReadPlaces
    <3>3. heap[cur[w]] \in Content /\ heap[cur[w]].type = "read"
      BY <3>2 DEF ReactorInv, HeapInv
    <3> QED BY <2>2, <3>3 DEF Content
  <2> QED BY <2>1, <2>2 DEF Request
<1>4. /\ DOMAIN heap' = DOMAIN heap \cup {Malloc(r)}
      /\ Malloc(r) \notin DOMAIN heap
      /\ list' = list (+) SetToBag({Malloc(r)})
  BY <1>1, <1>3, InsertHeap
<1>5. Malloc(r)[1] # "write"
  BY <1>1, <1>3, MallocIsFresh
<1>6. /\ Deleting \subseteq Deleting'
      /\ \A q \in Deleting' \ Deleting : q[1] # "write"
      /\ AllAlive' <=> AllAlive
  BY <1>2, GoOnKeeps DEF CountInv
<1>7. Unconfirmed' = Unconfirmed
  BY <1>1, <1>4, <1>5, <1>6, UnconfirmedIs
<1>8. KindInv'
  BY <1>2, <1>4, <1>5, GoOnKeeps DEF CountInv, KindInv
<1>9. ListedInv'
  <2>1. opc \notin {"freed", "aborted"}
    BY DEF Adds, StartEfd, StartAccept, AcceptAgain, AcceptRead, ReadAgain,
           ReadRest, Go, ReactorInv, OwnerInv
  <2> QED BY <1>2, <1>4, <2>1 DEF CountInv, ListedInv, (+), SetToBag, BagToSet
<1>10. WriteInv'
  BY <1>1, <1>2, <1>6, <1>7, CountSame DEF CountInv
<1> QED BY <1>8, <1>9, <1>10 DEF CountInv

(* The other steps of a worker in a handler: only on_wrote confirms.       *)
LEMMA CountHandlers ==
  ASSUME ReactorInv, ReactorInv', CountInv, NEW w \in Rings, HandlerStep(w)
  PROVE  CountInv'
<1>1. HeapInv /\ HeapInv' /\ OutsideInv /\ RingInv
  BY DEF ReactorInv
<1>2. /\ UNCHANGED <<list, sends, calls, opc, cur>>
      /\ DOMAIN heap' = DOMAIN heap
      /\ ~HandleWrite(w) => wrote' = wrote
  <2>1. UNCHANGED <<list, sends, calls, opc, cur>> /\ (~HandleWrite(w) => wrote' = wrote)
    BY DEF HandlerStep, Ready, HandleAccept, OnConnected, DispatchRead, OnError,
           HandleClose, OnClosed, CloseFd, OnReaded, HandleWrite, OnWrote, Exit,
           reqs, owner, app
  <2>2. heap' = heap \/ heap' = [heap EXCEPT ![cur[w]].prev = FALSE]
    BY DEF HandlerStep, Ready, HandleAccept, OnConnected, DispatchRead,
           HandleClose, OnClosed, CloseFd, OnReaded, HandleWrite, OnWrote, Exit, reqs
  <2> QED BY <2>1, <2>2
<1>3. CASE ~HandleWrite(w)
  <2>1. PICK from \in Places, to \in Places :
          /\ Go(w, from, to)
          /\ \/ from = "ready" /\ to = "wait"
             \/ from = "accept" /\ to = "accept_again"
             \/ from \in ReadPlaces /\ to \in (ReadPlaces \ {"read"}) \cup {"delete"}
             \/ from = "exit" /\ to = "done"
    <3>1. \/ Go(w, "ready", "wait") \/ Go(w, "accept", "accept_again")
          \/ Go(w, "read", "closing") \/ Go(w, "read", "data")
          \/ Go(w, "closing", "closed") \/ Go(w, "closed", "data")
          \/ Go(w, "closed", "delete") \/ Go(w, "data", "read_again")
          \/ Go(w, "exit", "done")
      BY <1>3 DEF HandlerStep, Ready, HandleAccept, DispatchRead, HandleClose,
                  OnReaded, Exit
    <3> QED BY <3>1 DEF Places, Handling, ReadPlaces
  <2>2. wpc[w] = from /\ \A v \in Rings : wpc'[v] = IF v = w THEN to ELSE wpc[v]
    BY <1>1, <2>1 DEF Go, RingInv
  <2>3. GoOn
    BY <1>2, <2>1, <2>2 DEF GoOn, GoesOn, AcceptPlaces, ReadPlaces
  <2> QED BY <1>2, <1>3, <2>3, CountSteady
<1>4. CASE HandleWrite(w)
  <2>1. wrote' = wrote + 1 /\ Go(w, "write", "delete")
    BY <1>4 DEF HandleWrite, OnWrote
  <2>2. /\ wpc[w] = "write"
        /\ \A v \in Rings : wpc'[v] = IF v = w THEN "delete" ELSE wpc[v]
    BY <1>1, <2>1 DEF Go, RingInv
  <2>3. Deleting' = Deleting \cup {cur[w]}
    BY <1>2, <2>2 DEF Deleting
  <2>4. /\ cur[w] # None /\ cur[w] \in DOMAIN heap /\ cur[w][1] = "write"
        /\ cur[w] \in Owned(w)
    BY <2>2 DEF ReactorInv, RingInv, HoldInv, Owned, Handling, CountInv, KindInv
  <2>5. cur[w] \notin Deleting
    <3> SUFFICES ASSUME NEW v \in Rings, wpc[v] = "delete", cur[v] = cur[w]
                 PROVE  FALSE
      BY DEF Deleting
    <3>1. v # w /\ cur[v] \in Owned(v)
      BY <2>2, <2>4 DEF Owned
    <3> QED BY <2>4, <3>1 DEF ReactorInv, HoldInv
  <2>6. cur[w] \in Unconfirmed /\ Unconfirmed' = Unconfirmed \ {cur[w]}
    BY <1>1, <1>2, <2>3, <2>4, <2>5, UnconfirmedIs
  <2>7. AllAlive' <=> AllAlive
    BY <2>2 DEF AllAlive, Alive
  <2>8. WriteInv'
    BY <1>1, <1>2, <2>1, <2>6, <2>7, CountWrote DEF CountInv
  <2>9. KindInv'
    BY <1>2, <2>2 DEF CountInv, KindInv, AcceptPlaces, ReadPlaces
  <2>10. ListedInv'
    BY <1>2 DEF CountInv, ListedInv
  <2> QED BY <2>8, <2>9, <2>10 DEF CountInv
<1> QED BY <1>3, <1>4

(* saurion_send is called: a call is in progress that was not.             *)
LEMMA CountSend ==
  ASSUME ReactorInv, ReactorInv', CountInv, Send
  PROVE  CountInv'
<1>1. HeapInv /\ HeapInv' /\ OutsideInv
  BY DEF ReactorInv
<1>2. UNCHANGED <<wpc, cur, heap, list, opc, wrote>> /\ sends' = sends + 1
  BY DEF Send, workers, owner, reqs
<1>3. PICK f \in Fds : calls' = calls \cup {[no |-> sends', fd |-> f, conn |-> told[f]]}
  BY DEF Send
<1>4. [no |-> sends', fd |-> f, conn |-> told[f]] \notin calls
  <2>1. sends \in Nat /\ \A k \in calls : k.no \in 1 .. sends
    BY <1>1 DEF OutsideInv
  <2>2. \A k \in calls : k.no # sends'
    BY <1>2, <2>1
  <2> QED BY <2>2
<1>5. Deleting' = Deleting /\ (AllAlive' <=> AllAlive)
  BY <1>2 DEF Deleting, AllAlive, Alive
<1>6. Unconfirmed' = Unconfirmed
  BY <1>1, <1>2, <1>5, UnconfirmedIs
<1>7. WriteInv'
  BY <1>1, <1>2, <1>3, <1>4, <1>5, <1>6, CountSent DEF CountInv
<1>8. KindInv' /\ ListedInv'
  BY <1>2 DEF CountInv, KindInv, ListedInv
<1> QED BY <1>7, <1>8 DEF CountInv

(* A message is submitted.                                                 *)
LEMMA CountSubmit ==
  ASSUME ReactorInv, ReactorInv', CountInv, Submit
  PROVE  CountInv'
<1>1. HeapInv /\ HeapInv' /\ OutsideInv /\ RingInv
  BY DEF ReactorInv
<1>2. UNCHANGED <<wpc, cur, opc, wrote, sends>>
  BY SubmitIs DEF workers, owner
<1>3. PICK k \in calls, sel \in Rings :
        Insert(sel, Message(k), heap) /\ calls' = calls \ {k}
  BY SubmitIs
<1> DEFINE r == Message(k)
<1>4. r \in Content /\ r.type = "write" /\ r.fd \in Fds
  BY <1>1, MessageContent
<1>5. Insert(sel, r, heap)
  BY <1>3
<1> HIDE DEF r
<1>6. Fill(heap)
  BY <1>1, FillSame
<1>7. /\ DOMAIN heap' = DOMAIN heap \cup {Malloc(r)}
      /\ Malloc(r) \notin DOMAIN heap
      /\ list' = list (+) SetToBag({Malloc(r)})
  BY <1>1, <1>4, <1>5, <1>6, InsertHeap
<1>8. Malloc(r)[1] = "write" /\ Malloc(r)[2] \in Fds
  BY <1>1, <1>4, MallocIsFresh
<1>9. Deleting' = Deleting /\ (AllAlive' <=> AllAlive)
  BY <1>2 DEF Deleting, AllAlive, Alive
<1>10. Malloc(r) \notin Deleting
  <2> SUFFICES ASSUME NEW v \in Rings, wpc[v] = "delete"
               PROVE  cur[v] \in DOMAIN heap
    BY <1>7 DEF Deleting
  <2> QED BY DEF ReactorInv, RingInv, HoldInv, Owned, Handling
<1>11. /\ Malloc(r) \notin Unconfirmed
       /\ Unconfirmed' = Unconfirmed \cup {Malloc(r)}
  BY <1>1, <1>7, <1>8, <1>9, <1>10, UnconfirmedIs
<1>12. WriteInv'
  BY <1>1, <1>2, <1>3, <1>9, <1>11, CountSubmitted DEF CountInv
<1>13. KindInv'
  BY <1>2, <1>7, <1>8 DEF CountInv, KindInv
<1>14. ListedInv'
  <2>1. opc' \notin {"freed", "aborted"}
    BY <1>2 DEF ReactorInv, OwnerInv
  <2> QED BY <1>7, <2>1 DEF CountInv, ListedInv, (+), SetToBag, BagToSet
<1> QED BY <1>12, <1>13, <1>14 DEF CountInv

(* A request that is listed is freed when it is deleted.                   *)
LEMMA ListedDelete ==
  ASSUME HeapInv, ListedInv, NEW q \in DOMAIN heap, ListDelete(q), opc' = opc
  PROVE  ListedInv' /\ DOMAIN heap' = DOMAIN heap \ {q}
<1>1. list' = list (-) SetToBag({q}) /\ heap' = Free(q)
  BY DEF ListedInv, ListDelete, BagIn
<1>2. DOMAIN heap' = DOMAIN heap \ {q}
  BY <1>1, FreeHeap DEF Free
<1>3. list' \in [DOMAIN list' -> Nat \ {0}]
  BY <1>1 DEF ListedInv, (-), SetToBag
<1>4. DOMAIN heap' \subseteq BagToSet(list')
  BY <1>1, <1>2 DEF ListedInv, (-), SetToBag, BagToSet
<1> QED BY <1>2, <1>3, <1>4 DEF ListedInv

(* The steps that take the first entry of a queue.                         *)
LEMMA CountReap ==
  ASSUME ReactorInv, ReactorInv', CountInv, NEW w \in Rings, Reap(w) \/ ReapStop(w)
  PROVE  CountInv'
<1> DEFINE h == Head(cq[w]).req
<1>1. HeapInv /\ HeapInv' /\ OutsideInv /\ RingInv
  BY DEF ReactorInv
<1>2. cq[w] # <<>> /\ wpc[w] = "wait" /\ UNCHANGED <<wrote, sends, calls, opc>>
  BY DEF Reap, ReapStop, ReapedStop, Go, app, owner
<1>3. h \in Queue(w)
  BY <1>1, <1>2, QueueHead
<1>4. h \in DOMAIN heap /\ heap[h].type = h[1] /\ heap[h].fd = h[2] /\ h[1] \in Kinds
  <2>1. h \in DOMAIN heap
    BY <1>2, <1>3 DEF ReactorInv, HoldInv, Owned, Alive
  <2> QED BY <1>1, <2>1 DEF HeapInv, Content
<1> HIDE DEF h
<1>5. CASE Reap(w)
  <2>1. /\ Go(w, "wait", h[1]) /\ cur' = [cur EXCEPT ![w] = h]
        /\ UNCHANGED <<heap, list>>
    BY <1>4, <1>5 DEF Reap, reqs, h
  <2>2. /\ \A v \in Rings : wpc'[v] = IF v = w THEN h[1] ELSE wpc[v]
        /\ \A v \in Rings : cur'[v] = IF v = w THEN h ELSE cur[v]
    BY <1>1, <2>1 DEF Go, RingInv
  <2>3. Deleting' = Deleting
    BY <1>2, <1>4, <2>2 DEF Deleting, Kinds
  <2>4. AllAlive' <=> AllAlive
    BY <1>2, <1>4, <2>2 DEF AllAlive, Alive, Kinds
  <2>5. Unconfirmed' = Unconfirmed
    BY <1>1, <2>1, <2>3, UnconfirmedIs
  <2>6. WriteInv'
    BY <1>1, <1>2, <2>4, <2>5, CountSame DEF CountInv
  <2>7. KindInv'
    <3>1. ASSUME NEW v \in Rings
          PROVE  /\ wpc'[v] \in AcceptPlaces => cur'[v][1] = "accept"
                 /\ wpc'[v] \in ReadPlaces => cur'[v][1] = "read"
                 /\ wpc'[v] = "write" => cur'[v][1] = "write"
      <4>1. CASE v = w
        BY <1>4, <2>2, <4>1 DEF Kinds, AcceptPlaces, ReadPlaces
      <4>2. CASE v # w
        BY <2>2, <4>2 DEF CountInv, KindInv
      <4> QED BY <4>1, <4>2
    <3> QED BY <2>1, <3>1 DEF CountInv, KindInv
  <2>8. ListedInv'
    BY <1>2, <2>1 DEF CountInv, ListedInv
  <2> QED BY <2>6, <2>7, <2>8 DEF CountInv
<1>6. CASE ReapStop(w)
  <2>1. Go(w, "wait", "exit") /\ cur' = cur /\ ListDelete(h) /\ h[2] = EFD(w)
    BY <1>4, <1>6 DEF ReapStop, ReapedStop, h
  <2>2. \A v \in Rings : wpc'[v] = IF v = w THEN "exit" ELSE wpc[v]
    BY <1>1, <2>1 DEF Go, RingInv
  <2>3. Deleting' = Deleting /\ (AllAlive' <=> AllAlive)
    BY <1>2, <2>1, <2>2 DEF Deleting, AllAlive, Alive
  <2>4. ListedInv' /\ DOMAIN heap' = DOMAIN heap \ {h}
    BY <1>1, <1>2, <1>4, <2>1, ListedDelete DEF CountInv
  <2>5. h[1] # "write"
    BY <1>4, <2>1, ReactorAssumption DEF CountInv, KindInv, EFD, Rings
  <2>6. Unconfirmed' = Unconfirmed
    BY <1>1, <2>3, <2>4, <2>5, UnconfirmedIs
  <2>7. WriteInv'
    BY <1>1, <1>2, <2>3, <2>6, CountSame DEF CountInv
  <2>8. KindInv'
    BY <2>1, <2>2, <2>4 DEF CountInv, KindInv, AcceptPlaces, ReadPlaces
  <2> QED BY <2>4, <2>7, <2>8 DEF CountInv
<1> QED BY <1>5, <1>6

(* The handled request is deleted.                                         *)
LEMMA CountDelete ==
  ASSUME ReactorInv, ReactorInv', CountInv, NEW w \in Rings, Delete(w)
  PROVE  CountInv'
<1>1. HeapInv /\ HeapInv' /\ OutsideInv /\ RingInv
  BY DEF ReactorInv
<1>2. /\ Go(w, "delete", "wait") /\ ListDelete(cur[w])
      /\ cur' = [cur EXCEPT ![w] = None]
      /\ UNCHANGED <<wrote, sends, calls, opc>>
  BY DEF Delete, app, owner
<1>3. /\ wpc[w] = "delete"
      /\ \A v \in Rings : wpc'[v] = IF v = w THEN "wait" ELSE wpc[v]
      /\ \A v \in Rings : cur'[v] = IF v = w THEN None ELSE cur[v]
  BY <1>1, <1>2 DEF Go, RingInv
<1>4. cur[w] # None /\ cur[w] \in DOMAIN heap
  BY <1>3 DEF ReactorInv, RingInv, HoldInv, Owned, Handling
<1>5. ListedInv' /\ DOMAIN heap' = DOMAIN heap \ {cur[w]}
  BY <1>1, <1>2, <1>4, ListedDelete DEF CountInv
<1>6. Deleting = Deleting' \cup {cur[w]} /\ (AllAlive' <=> AllAlive)
  BY <1>3 DEF Deleting, AllAlive, Alive
<1>7. Unconfirmed' = Unconfirmed
  BY <1>1, <1>5, <1>6, UnconfirmedIs
<1>8. WriteInv'
  BY <1>1, <1>2, <1>6, <1>7, CountSame DEF CountInv
<1>9. KindInv'
  BY <1>3, <1>5 DEF CountInv, KindInv, AcceptPlaces, ReadPlaces
<1> QED BY <1>5, <1>8, <1>9 DEF CountInv

(* A worker returns because of a failure.                                  *)
LEMMA CountDie ==
  ASSUME ReactorInv, ReactorInv', CountInv, NEW w \in Rings,
         ReapFailure(w) \/ WaitFails(w)
  PROVE  CountInv'
<1>1. HeapInv /\ HeapInv' /\ OutsideInv /\ RingInv
  BY DEF ReactorInv
<1>2. /\ Go(w, "wait", "dead") /\ UNCHANGED <<cur, list, wrote, sends, calls, opc>>
      /\ heap' = heap \/ heap' = Free(Head(cq[w]).req)
  BY DEF ReapFailure, WaitFails, app, owner, reqs
<1>3. /\ wpc[w] = "wait"
      /\ \A v \in Rings : wpc'[v] = IF v = w THEN "dead" ELSE wpc[v]
  BY <1>1, <1>2 DEF Go, RingInv
<1>4. DOMAIN heap' \subseteq DOMAIN heap
  BY <1>1, <1>2, FreeHeap DEF Free
<1>5. Deleting' = Deleting /\ ~AllAlive'
  BY <1>2, <1>3 DEF Deleting, AllAlive, Alive
<1>6. Unconfirmed' \subseteq Unconfirmed
  BY <1>1, <1>4, <1>5, UnconfirmedIs
<1>7. WriteInv'
  BY <1>1, <1>2, <1>5, <1>6, CountSame DEF CountInv
<1>8. KindInv'
  BY <1>2, <1>3, <1>4 DEF CountInv, KindInv, AcceptPlaces, ReadPlaces
<1>9. ListedInv'
  BY <1>2, <1>4 DEF CountInv, ListedInv
<1> QED BY <1>7, <1>8, <1>9 DEF CountInv

(* saurion_destroy frees what is listed.                                   *)
LEMMA CountFree ==
  ASSUME ReactorInv, ReactorInv', CountInv, DestroyFree
  PROVE  CountInv'
<1>1. HeapInv /\ HeapInv' /\ OutsideInv
  BY DEF ReactorInv
<1>2. /\ UNCHANGED <<wpc, cur, wrote, sends, calls>> /\ list' = EmptyBag
      /\ opc' \in {"freed", "aborted"}
      /\ heap' = Restrict(heap, DOMAIN heap \ BagToSet(list))
  BY DEF DestroyFree, workers, app, Owner, ListFree
<1>3. DOMAIN heap' = {}
  BY <1>1, <1>2, FreeHeap DEF CountInv, ListedInv
<1>4. Unconfirmed' \subseteq Unconfirmed
  BY <1>1, <1>3, UnconfirmedIs
<1>5. /\ AllAlive' <=> AllAlive
      /\ AllAlive' => opc' = "freed"
  BY <1>2 DEF AllAlive, Alive, ReactorInv, ListInv
<1>6. WriteInv'
  BY <1>1, <1>2, <1>4, <1>5, CountSame DEF CountInv
<1>7. KindInv'
  BY <1>2, <1>3 DEF CountInv, KindInv
<1>8. ListedInv'
  BY <1>2, <1>3 DEF ListedInv, EmptyBag, SetToBag
<1> QED BY <1>6, <1>7, <1>8 DEF CountInv

(* The other steps confirm nothing and send nothing.                       *)
LEMMA CountOthers ==
  ASSUME ReactorInv, ReactorInv', CountInv,
         \/ \E c \in Conns : PeerConnect(c) \/ PeerSend(c) \/ PeerClose(c)
         \/ \E r \in Rings : Complete(r)
         \/ OwnerGoes
         \/ UNCHANGED vars
  PROVE  CountInv'
<1>1. CASE \E c \in Conns : PeerConnect(c) \/ PeerSend(c) \/ PeerClose(c)
  <2>1. UNCHANGED <<list, wrote, sends, calls, heap, wpc, cur, opc>>
    BY <1>1 DEF PeerConnect, PeerSend, PeerClose, reqs, app, workers, owner
  <2> QED BY <2>1, CountSteady DEF GoOn
<1>2. CASE \E r \in Rings : Complete(r)
  <2>1. PICK r \in Rings : Complete(r)
    BY <1>2
  <2>2. PICK q \in inflight[r] :
          \/ CompleteAccept(r, q) \/ CompleteData(r, q) \/ CompleteEnd(r, q)
          \/ CompleteEfd(r, q)    \/ CompleteWrite(r, q)
    BY <2>1 DEF Complete
  <2>3. DOMAIN heap' = DOMAIN heap /\ \E x \in Int : Post(r, q, x)
    BY <2>2, CompleteGoes DEF ReactorInv
  <2>4. UNCHANGED <<list, wrote, sends, calls, wpc, cur, opc>>
    BY <2>3 DEF Post, workers, app
  <2> QED BY <2>3, <2>4, CountSteady DEF GoOn
<1>3. CASE OwnerGoes
  <2>1. UNCHANGED <<list, wrote, sends, calls, heap, cur>>
    BY <1>3 DEF OwnerGoes, StartTask, Stop, StopSignal, SignalUpTo, StopDrained,
                Destroy, DestroyWait, reqs, app, workers
  <2>2. opc # "freed" /\ opc' \notin {"freed", "aborted"}
    BY <1>3 DEF OwnerGoes, StartTask, Stop, StopSignal, SignalUpTo, StopDrained,
                Destroy, DestroyWait, Owner
  <2>3. CASE StartTask
    <3>1. /\ oi \in Rings /\ wpc[oi] = "none"
          /\ \A v \in Rings : wpc'[v] = IF v = oi THEN "queued" ELSE wpc[v]
      BY <2>3 DEF StartTask, Owner, ReactorInv, OwnerInv, RingInv, Rings
    <3>2. GoOn
      BY <2>1, <3>1 DEF GoOn, GoesOn, AcceptPlaces, ReadPlaces
    <3> QED BY <2>1, <2>2, <3>2, CountSteady
  <2>4. CASE ~StartTask
    <3>1. wpc' = wpc
      BY <1>3, <2>4 DEF OwnerGoes, Stop, StopSignal, SignalUpTo, StopDrained,
                        Destroy, DestroyWait, workers
    <3> QED BY <2>1, <2>2, <3>1, CountSteady DEF GoOn
  <2> QED BY <2>3, <2>4
<1>4. CASE UNCHANGED vars
  <2>1. UNCHANGED <<list, wrote, sends, calls, heap, wpc, cur, opc>>
    BY <1>4 DEF vars, reqs, app, workers, owner
  <2> QED BY <2>1, CountSteady DEF GoOn
<1> QED BY <1>1, <1>2, <1>3, <1>4

(* The invariant, for any results.                                         *)
LEMMA CountInvariant == Spec => []CountInv
<1>1. Init => CountInv
  <2> SUFFICES ASSUME Init
               PROVE  CountInv
    OBVIOUS
  <2>1. KindInv
    BY DEF Init, KindInv, AcceptPlaces, ReadPlaces, EmptyBag, SetToBag
  <2>2. ListedInv
    BY DEF Init, ListedInv, EmptyBag, SetToBag
  <2>3. Unconfirmed = {}
    BY DEF Init, Unconfirmed, EmptyBag, SetToBag
  <2>4. Cardinality(Unconfirmed) = 0 /\ Cardinality(calls) = 0
    BY <2>3, FS_EmptySet DEF Init
  <2>5. WriteInv
    BY <2>4 DEF Init, WriteInv, WritesConfirmed
  <2> QED BY <2>1, <2>2, <2>5 DEF CountInv
<1>2. ReactorInv /\ ReactorInv' /\ CountInv /\ [Next]_vars => CountInv'
  <2> SUFFICES ASSUME ReactorInv, ReactorInv', CountInv, [Next]_vars
               PROVE  CountInv'
    OBVIOUS
  <2>1. ASSUME NEW r \in Rings, Worker(r) \/ WaitFails(r)
        PROVE  CountInv'
    <3>1. \/ ReapFailure(r) \/ WaitFails(r) \/ Reap(r) \/ ReapStop(r) \/ Delete(r)
          \/ HandlerStep(r) \/ Adds(r)
      BY <2>1 DEF Worker, HandlerStep, Adds, Accept
    <3> QED BY <3>1, CountDie, CountReap, CountDelete, CountHandlers, CountAdds
  <2>2. CASE Send \/ Submit
    BY <2>2, CountSend, CountSubmit
  <2>3. CASE Stop \/ OwnerStep
    <3>1. OwnerGoes \/ DestroyFree
      BY <2>3 DEF OwnerStep, OwnerGoes
    <3> QED BY <3>1, CountOthers, CountFree
  <2> QED BY <2>1, <2>2, <2>3, CountOthers DEF Next
<1> QED BY <1>1, <1>2, ReactorInvariant, PTL DEF Spec

(* Until a worker died, every message given to saurion_send is confirmed   *)
(* by one on_wrote, or its call or its request is still in progress.       *)
THEOREM SendsConfirmed == Spec => []WritesConfirmed
<1>1. CountInv => WritesConfirmed
  BY DEF CountInv, WriteInv
<1> QED BY <1>1, CountInvariant, PTL

(* on_wrote is never called more often than saurion_send was.              *)
THEOREM ConfirmedOnce == Spec => [](wrote <= sends)
<1>1. ReactorInv /\ CountInv => wrote <= sends
  <2> SUFFICES ASSUME ReactorInv, CountInv
               PROVE  wrote <= sends
    OBVIOUS
  <2>1. IsFiniteSet(Unconfirmed)
    BY FS_Subset DEF ReactorInv, HeapInv, Unconfirmed
  <2>2. Cardinality(Unconfirmed) \in Nat
    BY <2>1, FS_CardinalityType
  <2> QED BY <2>2, CallsCount DEF CountInv, WriteInv, ReactorInv, OutsideInv
<1> QED BY <1>1, CountInvariant, ReactorInvariant, PTL

(* saurion_destroy leaves no request allocated, whatever failed before.    *)
THEOREM NoRequestLeaks == Spec => [](opc = "freed" => DOMAIN heap = {})
<1>1. CountInv => (opc = "freed" => DOMAIN heap = {})
  BY DEF CountInv, ListedInv
<1> QED BY <1>1, CountInvariant, PTL
=============================================================================
