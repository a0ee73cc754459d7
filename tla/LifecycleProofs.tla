---------------------------- MODULE LifecycleProofs ----------------------------
(***************************************************************************)
(* Theorems of Lifecycle, for any n_threads asked for, any number of cores *)
(* and of calls of saurion_start and saurion_stop, and any of the failures.*)
(***************************************************************************)
EXTENDS Lifecycle, TLAPS, SequenceTheorems

(* The positions of the owner between saurion_create and the end of        *)
(* saurion_destroy; while the server is there for its workers.             *)
Serving == {"idle", "starting", "stopping", "draining", "destroying", "joining"}

(* What a server has, its pool apart, and what may come on top of it.      *)
Made == {Block(k) : k \in {"struct", "locks", "m_rings", "efds", "rings"}}
        \cup {<<"ring", r>> : r \in Rings}
        \cup {<<"efd", r>> : r \in Rings \ bad}

Wrappers == UNION {Wrapper(w) : w \in Queued}
Socket   == IF ss = "default" THEN {} ELSE {Block("socket")}

Gone == Ended \cup {"dead"}

(* The owner's place in its calls.                                         *)
PlaceInv ==
  /\ asked \in Asked /\ cores \in Cores
  /\ opc \in {"creating", "failed", "freeing", "freed"} \cup Serving
  /\ at \in 1 .. Len(Steps) + 1 /\ oi \in 0 .. n
  /\ opc \in {"starting", "stopping"} => oi \in Rings
  /\ opc = "creating" => at \in 1 .. Len(Steps) /\ \A r \in bad : 5 + r < at

(* The values of the other variables but held.                             *)
ValueInv ==
  /\ bad \subseteq Rings /\ efd \subseteq Rings
  /\ ss \in {"default", "socket", "wrong"} /\ status \in 0 .. 2
  /\ \A w \in Tasks : wpc[w] = "dead" => w[2] \in bad
  /\ wpc \in [Tasks -> Ended \cup Live \cup {"queued", "dead", "lost"}]

FlagInv == {zero, wild, overlap, owing} \subseteq BOOLEAN

(* The tasks a call of saurion_start has not queued yet.                   *)
Awaiting == \A r \in Rings : r >= oi => wpc[<<starts, r>>] = "none"

(* Nothing runs before the server is there, nor after its threads were     *)
(* joined.  A worker of an earlier start that has not ended was found by   *)
(* the start that came after it, which has some of its tasks to add yet.   *)
StartInv ==
  /\ starts \in 0 .. MaxStarts
  /\ opc = "starting" => starts > 0
  /\ opc = "starting" /\ ~wild => Awaiting
  /\ opc \in {"creating", "failed"} => ss = "default" /\ starts = 0
  /\ opc \in {"freeing", "freed"} => \A w \in Tasks : wpc[w] \in Gone
  /\ \A w \in Tasks : wpc[w] # "none" => w[1] <= starts
  /\ \A w \in Tasks : w[1] < starts /\ wpc[w] \notin Ended => overlap

(* In saurion_create the resources held are those of the steps made, but   *)
(* for the eventfds that failed unnoticed.  What a server has is there     *)
(* until saurion_destroy has joined the threads, and is all there is.      *)
HeldInv ==
  /\ opc = "creating" =>
       held = {Steps[i] : i \in 1 .. at - 1} \ {<<"efd", r>> : r \in bad}
  /\ opc \in Serving =>
       /\ Made \cup {Block("pool")} \subseteq held
       /\ held \subseteq Made \cup {Block("pool")} \cup Wrappers \cup Socket
  /\ opc = "freeing" => held \subseteq Made \cup Socket
  /\ CreateUndone /\ NothingLeft

LifeInv ==
  /\ PlaceInv /\ ValueInv /\ FlagInv
  /\ StartInv /\ HeldInv /\ DefinedUse

-----------------------------------------------------------------------------
(* The number of rings and the steps of saurion_create.                    *)

(* There is at least one ring.                                             *)
LEMMA RingsExist ==
  ASSUME asked \in Nat, cores \in Nat \ {0}
  PROVE  n \in Nat \ {0}
BY DEF n, LeastOf, MostOf

(* Where the elements of two joined sequences stand.                       *)
LEMMA Joined ==
  ASSUME NEW S, NEW s \in Seq(S), NEW t \in Seq(S)
  PROVE  /\ s \o t \in Seq(S) /\ Len(s \o t) = Len(s) + Len(t)
         /\ \A i \in 1 .. Len(s) : (s \o t)[i] = s[i]
         /\ \A i \in 1 .. Len(t) : (s \o t)[Len(s) + i] = t[i]
<1>1. Len(s) \in Nat /\ Len(t) \in Nat
  BY LenProperties
<1>2. /\ s \o t \in Seq(S) /\ Len(s \o t) = Len(s) + Len(t)
      /\ \A i \in 1 .. Len(s) + Len(t) :
           (s \o t)[i] = IF i <= Len(s) THEN s[i] ELSE t[i - Len(s)]
  BY ConcatProperties
<1>3. ASSUME NEW i \in 1 .. Len(t)
      PROVE  (s \o t)[Len(s) + i] = t[i]
  <2>1. /\ Len(s) + i \in 1 .. Len(s) + Len(t) /\ ~(Len(s) + i <= Len(s))
        /\ Len(s) + i - Len(s) = i
    BY <1>1
  <2> QED BY <1>2, <2>1
<1>4. \A i \in 1 .. Len(s) : i \in 1 .. Len(s) + Len(t) /\ i <= Len(s)
  BY <1>1
<1> QED BY <1>2, <1>3, <1>4

(* Where each step stands.                                                 *)
LEMMA StepsAre ==
  ASSUME n \in Nat \ {0}
  PROVE  /\ Len(Steps) = 2 * n + 6
         /\ Steps[1] = Block("struct") /\ Steps[2] = Block("locks")
         /\ Steps[3] = Block("m_rings") /\ Steps[4] = Block("efds")
         /\ \A r \in Rings : Steps[5 + r] = <<"efd", r>>
         /\ Steps[5 + n] = Block("rings")
         /\ \A r \in Rings : Steps[6 + n + r] = <<"ring", r>>
         /\ Steps[6 + 2 * n] = Block("pool")
<1> DEFINE S == {"struct", "locks", "m_rings", "efds", "efd", "rings",
                 "ring", "pool"} \X Nat
           head == <<Block("struct"), Block("locks"), Block("m_rings"), Block("efds")>>
           e == OfRings("efd")
           g == OfRings("ring")
           o == <<Block("rings")>>
           p == <<Block("pool")>>
<1>1. /\ head \in Seq(S) /\ Len(head) = 4
      /\ head[1] = Block("struct") /\ head[2] = Block("locks")
      /\ head[3] = Block("m_rings") /\ head[4] = Block("efds")
  BY DEF Block
<1>2. /\ e \in Seq(S) /\ Len(e) = n
      /\ \A i \in 1 .. n : e[i] = <<"efd", i - 1>>
  BY DEF OfRings
<1>3. /\ g \in Seq(S) /\ Len(g) = n
      /\ \A i \in 1 .. n : g[i] = <<"ring", i - 1>>
  BY DEF OfRings
<1>4. o \in Seq(S) /\ Len(o) = 1 /\ o[1] = Block("rings")
  BY DEF Block
<1>5. p \in Seq(S) /\ Len(p) = 1 /\ p[1] = Block("pool")
  BY DEF Block
<1> DEFINE a == head \o e
           b == a \o o
           c == b \o g
<1>6. Steps = c \o p
  BY DEF Steps
<1> HIDE DEF S, head, e, g, o, p
<1>7. /\ a \in Seq(S) /\ Len(a) = 4 + n
      /\ \A i \in 1 .. 4 : a[i] = head[i]
      /\ \A i \in 1 .. n : a[4 + i] = e[i]
  BY SMTT(30), <1>1, <1>2, Joined
<1> HIDE DEF a
<1>8. /\ b \in Seq(S) /\ Len(b) = 4 + n + 1
      /\ \A i \in 1 .. 4 + n : b[i] = a[i]
      /\ b[4 + n + 1] = o[1]
  BY <1>4, <1>7, Joined
<1> HIDE DEF b
<1>9. /\ c \in Seq(S) /\ Len(c) = 4 + n + 1 + n
      /\ \A i \in 1 .. 4 + n + 1 : c[i] = b[i]
      /\ \A i \in 1 .. n : c[4 + n + 1 + i] = g[i]
  <2>1. b \in Seq(S) /\ g \in Seq(S)
    BY <1>3, <1>8
  <2>2. /\ c \in Seq(S) /\ Len(c) = Len(b) + Len(g)
        /\ \A i \in 1 .. Len(b) : c[i] = b[i]
        /\ \A i \in 1 .. Len(g) : c[Len(b) + i] = g[i]
    BY <2>1, Joined
  <2> QED BY <1>3, <1>8, <2>2
<1> HIDE DEF c
<1>10. /\ Len(Steps) = 4 + n + 1 + n + 1
       /\ \A i \in 1 .. 4 + n + 1 + n : Steps[i] = c[i]
       /\ Steps[4 + n + 1 + n + 1] = p[1]
  <2>1. c \in Seq(S) /\ p \in Seq(S)
    BY <1>5, <1>9
  <2>2. /\ Len(c \o p) = Len(c) + Len(p)
        /\ \A i \in 1 .. Len(c) : (c \o p)[i] = c[i]
        /\ \A i \in 1 .. Len(p) : (c \o p)[Len(c) + i] = p[i]
    BY <2>1, Joined
  <2>3. (c \o p)[Len(c) + 1] = p[1]
    BY <1>5, <2>2
  <2> QED BY <1>5, <1>6, <1>9, <2>2, <2>3
<1>11. \A i \in 1 .. 4 : Steps[i] = head[i]
  <2>1. \A i \in 1 .. 4 : /\ i \in 1 .. 4 + n /\ i \in 1 .. 4 + n + 1
                          /\ i \in 1 .. 4 + n + 1 + n
    OBVIOUS
  <2> QED BY <1>7, <1>8, <1>9, <1>10, <2>1
<1>12. ASSUME NEW r \in Rings
       PROVE  Steps[5 + r] = <<"efd", r>>
  <2>1. /\ 1 + r \in 1 .. n /\ 4 + (1 + r) = 5 + r /\ (1 + r) - 1 = r
        /\ 5 + r \in 1 .. 4 + n /\ 5 + r \in 1 .. 4 + n + 1
        /\ 5 + r \in 1 .. 4 + n + 1 + n
    BY DEF Rings
  <2>2. Steps[5 + r] = a[5 + r]
    BY <1>8, <1>9, <1>10, <2>1
  <2> QED BY <1>2, <1>7, <2>1, <2>2
<1>13. ASSUME NEW r \in Rings
       PROVE  Steps[6 + n + r] = <<"ring", r>>
  <2>1. /\ 1 + r \in 1 .. n /\ 4 + n + 1 + (1 + r) = 6 + n + r /\ (1 + r) - 1 = r
        /\ 6 + n + r \in 1 .. 4 + n + 1 + n
    BY DEF Rings
  <2> QED BY <1>3, <1>9, <1>10, <2>1
<1>14. Steps[5 + n] = Block("rings")
  <2>1. /\ 4 + n + 1 = 5 + n /\ 5 + n \in 1 .. 4 + n + 1
        /\ 5 + n \in 1 .. 4 + n + 1 + n
    OBVIOUS
  <2> QED BY <1>4, <1>8, <1>9, <1>10, <2>1
<1>15. 4 + n + 1 + n + 1 = 6 + 2 * n
  OBVIOUS
<1> QED BY <1>1, <1>5, <1>10, <1>11, <1>12, <1>13, <1>14, <1>15

(* Every step is one of these.                                             *)
LEMMA StepCases ==
  ASSUME n \in Nat \ {0}, NEW i \in 1 .. Len(Steps)
  PROVE  \/ i = 1 \/ i = 2 \/ i = 3 \/ i = 4
         \/ \E r \in Rings : i = 5 + r
         \/ i = 5 + n
         \/ \E r \in Rings : i = 6 + n + r
         \/ i = 6 + 2 * n
<1>1. Len(Steps) = 2 * n + 6
  BY StepsAre
<1>2. CASE i \in 5 .. 4 + n
  <2>1. i - 5 \in Rings /\ i = 5 + (i - 5)
    BY <1>2 DEF Rings
  <2> QED BY <2>1
<1>3. CASE i \in 6 + n .. 5 + 2 * n
  <2>1. i - (6 + n) \in Rings /\ i = 6 + n + (i - (6 + n))
    BY <1>3 DEF Rings
  <2> QED BY <2>1
<1>4. i \in 1 .. 2 * n + 6
  BY <1>1
<1> QED BY <1>2, <1>3, <1>4

-----------------------------------------------------------------------------
(* What no step changes: the sizes of the server.                          *)

(* The number of rings is that of the start, whatever step is made.        *)
LEMMA SizesKept ==
  ASSUME [Next]_vars
  PROVE  /\ asked' = asked /\ cores' = cores
         /\ n' = n /\ Rings' = Rings /\ Tasks' = Tasks /\ Steps' = Steps
<1>1. asked' = asked /\ cores' = cores
  BY DEF Next, vars, made, OwnerStep, Acquire, StartTask, StopSignal,
         StopDrained, DestroyWait, DestroyPool, DestroyFree, EventfdFails,
         EventfdZero, AcquireFails, NullObject, SetSocket, Start, Stop,
         StartFails, Destroy, WorkerStep, Take, Taken, TakeFails, Ready,
         Signalled, Dies, Exit
<1>2. n' = n
  BY <1>1 DEF n, LeastOf, MostOf
<1>3. Rings' = Rings /\ Steps' = Steps
  BY <1>2 DEF Rings, Steps, OfRings, Block
<1>4. Tasks' = Tasks
  BY <1>3 DEF Tasks
<1> QED BY <1>1, <1>2, <1>3, <1>4

(* The parts of a task.                                                    *)
LEMMA TaskParts ==
  ASSUME NEW w \in Tasks
  PROVE  /\ w[1] \in 1 .. MaxStarts /\ w[2] \in Rings
         /\ w = <<w[1], w[2]>>
BY DEF Tasks

-----------------------------------------------------------------------------
(* The inductive invariant.                                                *)

(* The number of rings, and which step saurion_create is at when it makes  *)
(* an eventfd.                                                             *)
LEMMA SizesAre ==
  ASSUME PlaceInv
  PROVE  /\ n \in Nat \ {0} /\ Rings = 0 .. n - 1 /\ Len(Steps) = 2 * n + 6
         /\ opc = "creating" /\ Steps[at][1] = "efd" =>
              \E r \in Rings : at = 5 + r /\ Steps[at] = <<"efd", r>>
<1>1. n \in Nat \ {0} /\ Rings = 0 .. n - 1
  BY RingsExist, LifecycleAssumption DEF PlaceInv, Rings
<1>2. Len(Steps) = 2 * n + 6
  BY <1>1, StepsAre
<1>3. ASSUME opc = "creating", Steps[at][1] = "efd"
      PROVE  \E r \in Rings : at = 5 + r
  <2>1. at \in 1 .. Len(Steps)
    BY <1>3 DEF PlaceInv
  <2>2. \/ at = 1 \/ at = 2 \/ at = 3 \/ at = 4
        \/ \E r \in Rings : at = 5 + r
        \/ at = 5 + n
        \/ \E r \in Rings : at = 6 + n + r
        \/ at = 6 + 2 * n
    BY <1>1, <2>1, StepCases
  <2>3. ASSUME NEW r \in Rings, at = 6 + n + r
        PROVE  FALSE
    <3>1. Steps[6 + n + r] = <<"ring", r>>
      BY <1>1, StepsAre
    <3> QED BY <1>3, <2>3, <3>1
  <2>4. /\ Steps[1][1] = "struct" /\ Steps[2][1] = "locks"
        /\ Steps[3][1] = "m_rings" /\ Steps[4][1] = "efds"
        /\ Steps[5 + n][1] = "rings" /\ Steps[6 + 2 * n][1] = "pool"
    BY <1>1, StepsAre DEF Block
  <2> QED BY <1>3, <2>2, <2>3, <2>4
<1> QED BY <1>1, <1>2, <1>3, StepsAre

(* The owner stays at one of its places, whichever step is made.           *)
LEMMA PlaceNext ==
  ASSUME PlaceInv, ValueInv, [Next]_vars
  PROVE  PlaceInv'
<1>1. n \in Nat \ {0} /\ Rings = 0 .. n - 1 /\ Len(Steps) = 2 * n + 6
  BY SizesAre
<1>2. /\ asked' = asked /\ cores' = cores
      /\ n' = n /\ Rings' = Rings /\ Steps' = Steps
  BY SizesKept
<1>3. bad \subseteq Rings
  BY DEF ValueInv
<1>4. CASE Acquire
  BY <1>1, <1>2, <1>3, <1>4 DEF PlaceInv, Acquire, Owner, Serving
<1>5. CASE EventfdFails
  <2>1. PICK r \in Rings : at = 5 + r /\ Steps[at][2] = r
    BY <1>5, SizesAre DEF EventfdFails
  <2> QED BY <1>1, <1>2, <1>3, <1>5, <2>1 DEF PlaceInv, EventfdFails
<1>6. CASE EventfdZero \/ AcquireFails \/ NullObject \/ SetSocket
  BY <1>1, <1>2, <1>6
     DEF PlaceInv, EventfdZero, AcquireFails, NullObject, SetSocket, Owner,
         made, Serving
<1>7. CASE Start \/ Stop \/ Destroy
  BY <1>1, <1>2, <1>7
     DEF PlaceInv, Start, Stop, Destroy, Owner, made, Serving
<1>8. CASE StartTask \/ StartFails \/ StopSignal
  BY <1>1, <1>2, <1>8
     DEF PlaceInv, StartTask, StartFails, StopSignal, Owner, made, Serving
<1>9. CASE StopDrained \/ DestroyWait \/ DestroyPool \/ DestroyFree
  BY <1>1, <1>2, <1>9
     DEF PlaceInv, StopDrained, DestroyWait, DestroyPool, DestroyFree, Owner,
         made, Serving
<1>10. ASSUME NEW w \in Tasks, WorkerStep(w) \/ TakeFails(w)
       PROVE  PlaceInv'
  BY <1>2, <1>10
     DEF PlaceInv, WorkerStep, Take, Taken, TakeFails, Ready, Signalled, Dies,
         Exit, made
<1>11. CASE UNCHANGED vars
  BY <1>2, <1>11 DEF PlaceInv, vars, made
<1> QED
  BY <1>4, <1>5, <1>6, <1>7, <1>8, <1>9, <1>10, <1>11 DEF Next, OwnerStep

(* The other variables keep to their values.                               *)
LEMMA ValueNext ==
  ASSUME PlaceInv, ValueInv, [Next]_vars
  PROVE  ValueInv'
<1>1. Rings' = Rings /\ Tasks' = Tasks
  BY SizesKept
<1>2. CASE EventfdFails
  <2>1. PICK r \in Rings : at = 5 + r /\ Steps[at][2] = r
    BY <1>2, SizesAre DEF EventfdFails
  <2> QED BY <1>1, <1>2, <2>1 DEF ValueInv, EventfdFails, Ended, Live
<1>3. CASE Acquire \/ EventfdZero \/ AcquireFails \/ NullObject \/ SetSocket
  BY <1>1, <1>3
     DEF ValueInv, Acquire, EventfdZero, AcquireFails, NullObject, SetSocket,
         made, Ended, Live
<1>4. CASE StartTask \/ StartFails
  BY <1>1, <1>4 DEF ValueInv, StartTask, StartFails, made, Ended, Live
<1>5. CASE StopSignal
  BY <1>1, <1>5 DEF ValueInv, PlaceInv, StopSignal, Owner, made, Ended, Live
<1>6. CASE \/ Start \/ Stop \/ Destroy
           \/ StopDrained \/ DestroyWait \/ DestroyPool \/ DestroyFree
  BY <1>1, <1>6
     DEF ValueInv, Start, Stop, Destroy, StopDrained, DestroyWait,
         DestroyPool, DestroyFree, made, Ended, Live
<1>7. ASSUME NEW w \in Tasks, WorkerStep(w) \/ TakeFails(w)
      PROVE  ValueInv'
  BY <1>1, <1>7
     DEF ValueInv, WorkerStep, Take, Taken, TakeFails, Ready, Signalled, Dies,
         Exit, Worker, made, Ended, Live
<1>8. CASE UNCHANGED vars
  BY <1>1, <1>8 DEF ValueInv, vars, made, Ended, Live
<1> QED
  BY <1>2, <1>3, <1>4, <1>5, <1>6, <1>7, <1>8 DEF Next, OwnerStep

(* The flags stay true or false.                                           *)
LEMMA FlagNext ==
  ASSUME PlaceInv, FlagInv, [Next]_vars
  PROVE  FlagInv'
<1>1. CASE \/ Acquire \/ EventfdFails \/ EventfdZero \/ AcquireFails
           \/ NullObject \/ SetSocket \/ StartTask \/ StartFails
           \/ StopSignal \/ Stop \/ Destroy \/ StopDrained \/ DestroyWait \/ DestroyPool
  BY <1>1
     DEF FlagInv, Acquire, EventfdFails, EventfdZero, AcquireFails, NullObject,
         SetSocket, StartTask, StartFails, StopSignal, Stop, Destroy,
         StopDrained, DestroyWait, DestroyPool, made, calls
<1>2. CASE Start
  <2>1. overlap' \in BOOLEAN
    BY <1>2, Zenon DEF FlagInv, Start
  <2> QED BY <1>2, <2>1 DEF FlagInv, Start, made
<1>3. CASE DestroyFree
  <2>1. zero' \in BOOLEAN
    BY <1>3, Zenon DEF FlagInv, DestroyFree
  <2>2. n \in Int /\ asked \in Int
    BY SizesAre, LifecycleAssumption DEF PlaceInv
  <2>3. (n > asked \/ Dead # {}) \in BOOLEAN
    BY <2>2
  <2>4. wild' = (n > asked \/ Dead # {})
    BY <1>3 DEF DestroyFree
  <2>5. wild' \in BOOLEAN
    BY <2>3, <2>4
  <2> QED BY <1>3, <2>1, <2>5 DEF FlagInv, DestroyFree, calls
<1>4. ASSUME NEW w \in Tasks, WorkerStep(w) \/ TakeFails(w)
      PROVE  FlagInv'
  <2>1. CASE Take(w)
    <3>1. wild' \in BOOLEAN
      BY <2>1, Zenon DEF Take, Clash
    <3> QED BY <2>1, <3>1 DEF FlagInv, Take, Taken, made, calls
  <2>2. CASE Ready(w) \/ Signalled(w) \/ Dies(w) \/ Exit(w) \/ TakeFails(w)
    BY <2>2 DEF FlagInv, Ready, Signalled, Dies, Exit, TakeFails, made, calls
  <2> QED BY <1>4, <2>1, <2>2 DEF WorkerStep
<1>5. CASE UNCHANGED vars
  BY <1>5 DEF FlagInv, vars, made, calls
<1> QED BY <1>1, <1>2, <1>3, <1>4, <1>5 DEF Next, OwnerStep

(* A worker of an earlier start that has not ended stays noted, and there  *)
(* are workers only while the server is there.                             *)
LEMMA StartNext ==
  ASSUME PlaceInv, ValueInv, FlagInv, StartInv, [Next]_vars
  PROVE  StartInv'
<1>1. Tasks' = Tasks
  BY SizesKept
<1>2. starts \in Nat /\ MaxStarts \in Nat
  BY LifecycleAssumption DEF StartInv
<1>3. \A w \in Tasks : w[1] \in 1 .. MaxStarts
  BY TaskParts
<1>4. wpc \in [Tasks -> Ended \cup Live \cup {"queued", "dead", "lost"}]
  BY DEF ValueInv
<1>5. /\ n' = n /\ n \in Nat \ {0} /\ Rings = 0 .. n - 1 /\ Rings' = Rings
       /\ oi \in 0 .. n
  BY SizesKept, SizesAre DEF PlaceInv
<1>6. CASE \/ Acquire \/ EventfdFails \/ EventfdZero \/ AcquireFails
           \/ NullObject \/ SetSocket
  BY <1>1, <1>6, <1>5
     DEF StartInv, Awaiting, SetSocket, Acquire, EventfdFails, EventfdZero, AcquireFails,
         NullObject, Owner, made, calls
<1>7. CASE \/ Stop \/ Destroy \/ StopSignal \/ StopDrained
           \/ DestroyWait \/ DestroyFree
  BY <1>1, <1>7, <1>5
     DEF StartInv, Stop, Destroy, StopSignal, StopDrained, DestroyWait,
         DestroyFree, Owner, made, calls
<1>8. CASE DestroyPool
  BY <1>1, <1>8, <1>5 DEF StartInv, DestroyPool, Owner, made, calls, Gone
<1>9. CASE Start
  <2>1. \A w \in Tasks : wpc[w] \notin Ended => overlap'
    BY <1>9, Zenon DEF Start
  <2>2. starts' \in 0 .. MaxStarts /\ starts' = starts + 1
    BY <1>2, <1>9 DEF Start
  <2>3. \A w \in Tasks : wpc[w] # "none" => w[1] <= starts'
    BY <1>2, <1>3, <2>2 DEF StartInv
  <2>4. opc' = "starting" /\ wpc' = wpc
    BY <1>9 DEF Start, Owner
  <2>5. \A r \in Rings : wpc[<<starts', r>>] = "none"
    <3> SUFFICES ASSUME NEW r \in Rings
                 PROVE  wpc[<<starts', r>>] = "none"
      OBVIOUS
    <3>1. PICK w : w = <<starts', r>>
      OBVIOUS
    <3>2. w \in Tasks /\ w[1] = starts'
      BY <1>2, <2>2, <3>1 DEF Tasks
    <3> QED BY <1>2, <2>2, <3>1, <3>2 DEF StartInv
  <2>6. Awaiting'
    BY <1>5, <2>4, <2>5 DEF Awaiting
  <2> QED BY <1>1, <1>2, <1>5, <2>1, <2>2, <2>3, <2>4, <2>6 DEF StartInv
<1>10. CASE StartTask \/ StartFails
  <2> DEFINE t == <<starts, oi>>
  <2>1. /\ starts' = starts /\ ss' = ss /\ overlap' = overlap
        /\ opc = "starting" /\ opc' \in {"starting", "idle"}
        /\ \E to \in {"queued", "lost"} : wpc' = [wpc EXCEPT ![t] = to]
    BY <1>10 DEF StartTask, StartFails, Owner, made, calls
  <2>2. t[1] = starts
    OBVIOUS
  <2>3. opc' = "starting" /\ ~wild' => oi' = oi + 1 /\ oi \in Nat /\ ~wild
    BY <1>10, <1>5, LifecycleAssumption DEF StartTask, StartFails, Owner
  <2>4. ASSUME opc' = "starting", ~wild', NEW r \in Rings, r >= oi'
        PROVE  wpc'[<<starts', r>>] = "none"
    <3>1. r # oi /\ r >= oi
      BY <1>5, <2>3, <2>4
    <3>2. wpc[<<starts, r>>] = "none"
      BY <2>1, <2>3, <2>4, <3>1 DEF StartInv, Awaiting
    <3>3. <<starts, r>> # t
      BY <3>1
    <3> HIDE DEF t
    <3>4. PICK w : w = <<starts, r>>
      OBVIOUS
    <3>5. wpc'[w] = wpc[w]
      BY <1>4, <2>1, <3>3, <3>4
    <3> QED BY <2>1, <3>2, <3>4, <3>5
  <2> HIDE DEF t
  <2>5. \A w \in Tasks : w # t => wpc'[w] = wpc[w]
    BY <1>4, <2>1
  <2>6. \A w \in Tasks : wpc'[w] # "none" => w[1] <= starts
    BY <1>2, <2>2, <2>5 DEF StartInv
  <2>7. \A w \in Tasks : w[1] < starts /\ wpc'[w] \notin Ended => overlap
    BY <1>2, <2>2, <2>5 DEF StartInv
  <2>8. opc' = "starting" /\ ~wild' => Awaiting'
    BY <1>5, <2>4 DEF Awaiting
  <2> QED BY <1>1, <1>5, <2>1, <2>6, <2>7, <2>8 DEF StartInv
<1>11. ASSUME ~wild, NEW v \in Tasks, WorkerStep(v) \/ TakeFails(v)
       PROVE  StartInv'
  <2>1. /\ starts' = starts /\ ss' = ss /\ overlap' = overlap /\ opc' = opc
        /\ oi' = oi
        /\ wpc[v] \in {"queued", "armed", "loop", "exit"}
    BY <1>11
       DEF WorkerStep, Take, Taken, TakeFails, Ready, Signalled, Dies, Exit,
           Worker, made, calls
  <2>2. PICK to \in {"armed", "loop", "exit", "dead", "done", "lost"} :
          wpc' = [wpc EXCEPT ![v] = to]
    BY <1>11
       DEF WorkerStep, Take, Taken, TakeFails, Ready, Signalled, Dies, Exit,
           Worker
  <2>3. \A w \in Tasks : wpc'[w] = IF w = v THEN to ELSE wpc[w]
    BY <1>4, <2>2
  <2>4. wpc[v] \notin Gone /\ wpc[v] \notin Ended /\ wpc[v] # "none"
    BY <2>1 DEF Gone, Ended
  <2>5. opc \notin {"freeing", "freed"}
    BY <2>4 DEF StartInv
  <2>6. \A w \in Tasks : wpc'[w] # "none" => w[1] <= starts
    BY <2>3, <2>4 DEF StartInv
  <2>7. \A w \in Tasks : w[1] < starts /\ wpc'[w] \notin Ended => overlap
    BY <2>3, <2>4 DEF StartInv
  <2>8. ASSUME Awaiting
        PROVE  Awaiting'
    <3> SUFFICES ASSUME NEW r \in Rings, r >= oi
                 PROVE  wpc'[<<starts, r>>] = "none"
      BY <1>5, <2>1 DEF Awaiting
    <3>1. wpc[<<starts, r>>] = "none"
      BY <2>8 DEF Awaiting
    <3>2. PICK w : w = <<starts, r>>
      OBVIOUS
    <3>3. w # v
      BY <2>4, <3>1, <3>2
    <3>4. wpc'[w] = wpc[w]
      BY <1>4, <2>2, <3>3
    <3> QED BY <3>1, <3>2, <3>4
  <2>9. opc = "starting" /\ ~wild' => Awaiting'
    BY <1>11, <2>8 DEF StartInv
  <2> QED BY <1>1, <2>1, <2>5, <2>6, <2>7, <2>9 DEF StartInv
<1>12. CASE UNCHANGED vars
  BY <1>1, <1>12, <1>5 DEF StartInv, Awaiting, vars, made, calls
<1> QED
  BY <1>6, <1>7, <1>8, <1>9, <1>10, <1>11, <1>12 DEF Next, OwnerStep

(* The only ways to undefined behaviour.                                   *)
LEMMA UseNext ==
  ASSUME PlaceInv, ValueInv, StartInv, DefinedUse, [Next]_vars
  PROVE  DefinedUse'
<1>1. n' = n /\ asked' = asked /\ Tasks' = Tasks
  BY SizesKept
<1>2. n \in Nat /\ asked \in Nat /\ starts \in Nat /\ Rings = 0 .. n - 1
  BY SizesAre, LifecycleAssumption DEF PlaceInv, StartInv
<1>3. CASE UNCHANGED vars
  BY <1>1, <1>3 DEF DefinedUse, Lost, Dead, vars, made, calls
<1>4. CASE Next
  <2>1. ~wild
    BY <1>4 DEF Next
  <2>2. CASE \/ Acquire \/ EventfdFails \/ EventfdZero \/ AcquireFails
             \/ SetSocket \/ Start \/ Stop \/ Destroy \/ StartTask
             \/ StopSignal \/ StopDrained \/ DestroyWait \/ DestroyPool
    BY <2>1, <2>2
       DEF DefinedUse, Acquire, EventfdFails, EventfdZero, AcquireFails,
           SetSocket, Start, Stop, Destroy, StartTask, StopSignal,
           StopDrained, DestroyWait, DestroyPool
  <2>3. CASE NullObject
    BY <2>3 DEF DefinedUse, NullObject
  <2>4. CASE DestroyFree
    <3>1. /\ wild' = (n > asked \/ Dead # {}) /\ opc' = "freed"
          /\ wpc' = wpc /\ bad' = bad
      BY <2>4 DEF DestroyFree, Owner
    <3>2. \A w \in Dead : w[2] \in bad
      BY DEF Dead, ValueInv
    <3>3. Dead' = Dead
      BY <1>1, <3>1 DEF Dead
    <3> QED BY <1>1, <3>1, <3>2, <3>3 DEF DefinedUse
  <2>5. CASE StartFails
    <3>1. <<starts, oi>> \in Tasks
      BY <1>2, <2>5, LifecycleAssumption DEF StartFails, PlaceInv, StartInv, Tasks
    <3> QED BY <1>1, <2>5, <3>1 DEF DefinedUse, StartFails, ValueInv, Lost
  <2>6. ASSUME NEW w \in Tasks, TakeFails(w)
        PROVE  DefinedUse'
    BY <1>1, <2>6 DEF DefinedUse, TakeFails, Worker, ValueInv, Lost
  <2>7. ASSUME NEW w \in Tasks, WorkerStep(w)
        PROVE  DefinedUse'
    <3>1. CASE Take(w)
      <4>1. overlap' = overlap /\ opc' = opc /\ wild' = Clash(w, w[2])
        BY <3>1 DEF Take, Taken, calls
      <4>2. wpc[w] = "queued"
        BY <3>1 DEF Take, Taken, Worker
      <4>3. CASE w[2] >= asked
        <5>1. w[2] \in Rings
          BY TaskParts
        <5> QED BY <1>1, <1>2, <4>3, <5>1 DEF DefinedUse
      <4>4. ASSUME NEW v \in Tasks, v[2] = w[2], v # w,
                   wpc[v] \in {"armed", "loop", "dead"}
            PROVE  overlap
        <5>1. v[1] \in Nat /\ w[1] \in Nat /\ v[1] # w[1]
          BY <4>4, TaskParts
        <5>2. v[1] <= starts /\ w[1] <= starts
          BY <4>2, <4>4 DEF StartInv
        <5>3. v[1] < starts \/ w[1] < starts
          BY <1>2, <5>1, <5>2
        <5> QED BY <4>2, <4>4, <5>3 DEF StartInv, Ended
      <4>5. Clash(w, w[2]) => w[2] >= asked \/ overlap
        BY <4>4 DEF Clash
      <4> QED BY <4>1, <4>3, <4>5 DEF DefinedUse
    <3>2. CASE Ready(w) \/ Signalled(w) \/ Dies(w) \/ Exit(w)
      BY <2>1, <3>2 DEF DefinedUse, Ready, Signalled, Dies, Exit
    <3> QED BY <2>7, <3>1, <3>2 DEF WorkerStep
  <2> QED BY <1>4, <2>2, <2>3, <2>4, <2>5, <2>6, <2>7 DEF Next, OwnerStep
<1> QED BY <1>3, <1>4

-----------------------------------------------------------------------------
(* What is held.                                                           *)

(* A step, its place and its kind.                                         *)
LEMMA StepKinds ==
  ASSUME n \in Nat \ {0}, NEW i \in 1 .. Len(Steps)
  PROVE  \/ i = 1 /\ Steps[i] = Block("struct")
         \/ i = 2 /\ Steps[i] = Block("locks")
         \/ i = 3 /\ Steps[i] = Block("m_rings")
         \/ i = 4 /\ Steps[i] = Block("efds")
         \/ \E r \in Rings : i = 5 + r /\ Steps[i] = <<"efd", r>>
         \/ i = 5 + n /\ Steps[i] = Block("rings")
         \/ \E r \in Rings : i = 6 + n + r /\ Steps[i] = <<"ring", r>>
         \/ i = 6 + 2 * n /\ Steps[i] = Block("pool")
BY StepCases, StepsAre

(* An eventfd is made in one step only.                                    *)
LEMMA EfdOnce ==
  ASSUME n \in Nat \ {0}, NEW i \in 1 .. Len(Steps), NEW r \in Rings,
         Steps[i] = <<"efd", r>>
  PROVE  i = 5 + r
BY StepKinds DEF Block

(* The steps of saurion_create give the server its resources, and its pool.*)
LEMMA AllSteps ==
  ASSUME n \in Nat \ {0}
  PROVE  {Steps[i] : i \in 1 .. Len(Steps)} \ {<<"efd", r>> : r \in bad}
         = Made \cup {Block("pool")}
<1> DEFINE All == {Steps[i] : i \in 1 .. Len(Steps)}
           Bad == {<<"efd", r>> : r \in bad}
<1>1. Rings = 0 .. n - 1 /\ Len(Steps) = 2 * n + 6
  BY StepsAre DEF Rings
<1>2. ASSUME NEW x \in All, x \notin Bad
      PROVE  x \in Made \cup {Block("pool")}
  <2>1. PICK i \in 1 .. Len(Steps) : x = Steps[i]
    OBVIOUS
  <2> QED BY <1>2, <2>1, StepKinds DEF Made
<1>3. ASSUME NEW k \in {"struct", "locks", "m_rings", "efds", "rings", "pool"}
      PROVE  Block(k) \in All /\ Block(k) \notin Bad
  <2>1. {1, 2, 3, 4, 5 + n, 6 + 2 * n} \subseteq 1 .. Len(Steps)
    BY <1>1
  <2>2. \E i \in {1, 2, 3, 4, 5 + n, 6 + 2 * n} : Block(k) = Steps[i]
    BY <1>3, StepsAre
  <2> QED BY <1>3, <2>1, <2>2 DEF Block
<1>4. ASSUME NEW r \in Rings
      PROVE  <<"ring", r>> \in All /\ <<"ring", r>> \notin Bad
  <2>1. 6 + n + r \in 1 .. Len(Steps)
    BY <1>1
  <2> QED BY <2>1, StepsAre
<1>5. ASSUME NEW r \in Rings \ bad
      PROVE  <<"efd", r>> \in All /\ <<"efd", r>> \notin Bad
  <2>1. 5 + r \in 1 .. Len(Steps)
    BY <1>1
  <2> QED BY <2>1, StepsAre
<1>6. Made \cup {Block("pool")} \subseteq All \ Bad
  BY <1>3, <1>4, <1>5 DEF Made
<1> QED BY <1>2, <1>6

(* An error path releases what the steps before the one that failed made,  *)
(* but for the rings.                                                      *)
LEMMA UndoCovers ==
  ASSUME n \in Nat \ {0},
         NEW i \in 1 .. Len(Steps), NEW j \in 1 .. Len(Steps), i < j,
         Steps[j][1] # "pool"
  PROVE  Steps[i][1] = "ring" \/ Steps[i][1] \in Undo[Steps[j][1]]
<1>1. \A r \in Rings : r \in Nat /\ r < n
  BY DEF Rings
<1>2. \/ j = 1 /\ Steps[j][1] = "struct"
      \/ j = 2 /\ Steps[j][1] = "locks"
      \/ j = 3 /\ Steps[j][1] = "m_rings"
      \/ j = 4 /\ Steps[j][1] = "efds"
      \/ j < 5 + n /\ Steps[j][1] = "efd"
      \/ j = 5 + n /\ Steps[j][1] = "rings"
      \/ Steps[j][1] = "ring"
  BY <1>1, StepKinds DEF Block
<1>3. \/ i = 1 /\ Steps[i][1] = "struct"
      \/ i = 2 /\ Steps[i][1] = "locks"
      \/ i = 3 /\ Steps[i][1] = "m_rings"
      \/ i = 4 /\ Steps[i][1] = "efds"
      \/ i > 4 /\ Steps[i][1] = "efd"
      \/ i = 5 + n /\ Steps[i][1] = "rings"
      \/ Steps[i][1] = "ring"
  <2>1. Len(Steps) = 6 + 2 * n
    BY StepsAre
  <2> QED BY <1>1, <2>1, StepKinds DEF Block
<1>4. /\ Undo["locks"] = {"struct", "locks"}
      /\ Undo["m_rings"] = {"struct", "locks"}
      /\ Undo["efds"] = {"struct", "locks", "m_rings"}
      /\ Undo["efd"] = {"struct", "locks", "m_rings", "efds", "efd"}
      /\ Undo["rings"] = {"struct", "locks", "m_rings", "efds", "efd"}
      /\ Undo["ring"] = {"struct", "locks", "m_rings", "efds", "rings", "efd"}
  BY DEF Undo, Undo_Of
<1>5. n \in Nat /\ i \in Nat /\ j \in Nat /\ n > 0
  OBVIOUS
<1> QED BY <1>2, <1>3, <1>4, <1>5

(* What a server may hold, by kind.                                        *)
LEMMA HeldKinds ==
  /\ \A x \in Made : x[1] \in {"struct", "locks", "m_rings", "efds", "rings",
                               "ring", "efd"}
  /\ \A x \in Wrappers : x[1] = "wrapper"
  /\ \A x \in Socket : x = Block("socket") /\ x[1] = "socket" /\ ss # "default"
  /\ Block("pool")[1] = "pool"
BY DEF Made, Wrappers, Wrapper, Socket, Block

(* Made, Wrappers and Socket depend on these variables only.               *)
LEMMA HeldSame ==
  ASSUME [Next]_vars, bad' = bad, ss' = ss
  PROVE  /\ Made' = Made /\ Socket' = Socket
         /\ wpc' = wpc => Wrappers' = Wrappers
<1>1. Rings' = Rings /\ Tasks' = Tasks
  BY SizesKept
<1> QED BY <1>1 DEF Made, Socket, Wrappers, Queued, Wrapper, Block

(* A step of saurion_create.                                               *)
LEMMA HeldAcquire ==
  ASSUME PlaceInv, ValueInv, StartInv, HeldInv, [Next]_vars,
         Acquire \/ EventfdFails
  PROVE  HeldInv'
<1>1. n \in Nat \ {0} /\ Len(Steps) \in Nat /\ Steps' = Steps
  BY SizesAre, SizesKept
<1>2. opc = "creating" /\ at \in 1 .. Len(Steps)
  BY DEF Acquire, EventfdFails, Owner, PlaceInv
<1>3. /\ held = {Steps[i] : i \in 1 .. at - 1} \ {<<"efd", r>> : r \in bad}
      /\ \A r \in bad : r \in Rings /\ 5 + r < at
  BY <1>2 DEF HeldInv, PlaceInv, ValueInv
<1>4. 1 .. at = (1 .. at - 1) \cup {at} /\ 1 .. at \subseteq 1 .. Len(Steps)
  BY <1>1, <1>2
<1>5. CASE Acquire
  <2>1. /\ held' = held \cup {Steps[at]} /\ at' = at + 1 /\ bad' = bad /\ ss' = ss
        /\ opc' = IF at = Len(Steps) THEN "idle" ELSE "creating"
    BY <1>5 DEF Acquire, Owner
  <2>2. Steps[at] \notin {<<"efd", r>> : r \in bad}
    <3>1. ASSUME NEW r \in bad, Steps[at] = <<"efd", r>>
          PROVE  FALSE
      <4>1. at = 5 + r
        BY <1>1, <1>2, <1>3, <3>1, EfdOnce
      <4> QED BY <1>2, <1>3, <4>1
    <3> QED BY <3>1
  <2>3. held' = {Steps[i] : i \in 1 .. at} \ {<<"efd", r>> : r \in bad}
    BY <1>3, <1>4, <2>1, <2>2
  <2>4. CASE at = Len(Steps)
    <3>1. held' = Made \cup {Block("pool")}
      BY <1>1, <2>3, <2>4, AllSteps
    <3>2. Made' = Made /\ Block("pool")' = Block("pool")
      BY <2>1, HeldSame DEF Block
    <3> QED
      BY <2>1, <2>4, <3>1, <3>2
         DEF HeldInv, CreateUndone, NothingLeft, Serving
  <2>5. CASE at # Len(Steps)
    <3>1. at' - 1 = at
      BY <1>2, <2>1
    <3> QED
      BY <1>1, <2>1, <2>3, <2>5, <3>1
         DEF HeldInv, CreateUndone, NothingLeft, Serving
  <2> QED BY <2>4, <2>5
<1>6. CASE EventfdFails
  <2>1. PICK q \in Rings : at = 5 + q /\ Steps[at] = <<"efd", q>>
    BY <1>2, <1>6, SizesAre DEF EventfdFails
  <2>2. bad' = bad \cup {q} /\ at' = at + 1 /\ held' = held /\ opc' = opc
    BY <1>6, <2>1 DEF EventfdFails
  <2>3. ASSUME NEW i \in 1 .. at - 1
        PROVE  Steps[i] # <<"efd", q>>
    BY <1>1, <1>2, <2>1, EfdOnce
  <2>4. held' = {Steps[i] : i \in 1 .. at} \ {<<"efd", r>> : r \in bad'}
    BY <1>3, <1>4, <2>1, <2>2, <2>3
  <2>5. at' - 1 = at
    BY <1>2, <2>2
  <2> QED
    BY <1>1, <1>2, <2>2, <2>4, <2>5
       DEF HeldInv, CreateUndone, NothingLeft, Serving
<1> QED BY <1>5, <1>6

(* A saurion_create that fails.                                            *)
LEMMA HeldFails ==
  ASSUME PlaceInv, HeldInv, EventfdZero \/ AcquireFails
  PROVE  HeldInv'
<1>1. n \in Nat \ {0} /\ Len(Steps) \in Nat
  BY SizesAre
<1>2. /\ opc = "creating" /\ at \in 1 .. Len(Steps) /\ opc' = "failed"
      /\ Steps[at][1] # "pool"
  BY DEF EventfdZero, AcquireFails, Owner, PlaceInv
<1>3. \A x \in held : \E i \in 1 .. at - 1 : x = Steps[i]
  BY <1>2 DEF HeldInv
<1>4. ASSUME NEW x \in held, x[1] \notin Undo[Steps[at][1]]
      PROVE  x[1] = "ring"
  <2>1. PICK i \in 1 .. at - 1 : x = Steps[i]
    BY <1>3
  <2>2. i \in 1 .. Len(Steps) /\ i < at
    BY <1>1, <1>2
  <2> QED BY <1>1, <1>2, <1>4, <2>1, <2>2, UndoCovers
<1>5. held' \subseteq {x \in held : x[1] \notin Undo[Steps[at][1]]}
                    \cup {Block("zero")}
  BY DEF EventfdZero, AcquireFails, Releasing
<1>6. \A x \in held' : x[1] = "ring" \/ x = Block("zero")
  BY <1>4, <1>5
<1>7. \A x \in held' : x[1] = "ring" \/ x = Block("zero")'
  BY <1>6 DEF Block
<1> QED
  BY <1>2, <1>7 DEF HeldInv, CreateUndone, NothingLeft, Serving

(* A call of the owner that leaves what is held alone, or adds the socket. *)
LEMMA HeldCalls ==
  ASSUME ValueInv, StartInv, HeldInv, [Next]_vars,
         \/ SetSocket \/ NullObject \/ Start \/ Stop \/ StopSignal
         \/ StopDrained \/ Destroy \/ DestroyWait
  PROVE  HeldInv'
<1>1. CASE SetSocket
  <2>1. /\ opc = "idle" /\ opc' = opc /\ ss' # "default" /\ bad' = bad
        /\ wpc' = wpc /\ held \subseteq held'
        /\ held' \subseteq held \cup {Block("socket")}
    BY <1>1 DEF SetSocket
  <2>2. Rings' = Rings /\ Tasks' = Tasks
    BY SizesKept
  <2>3. Made' = Made /\ Wrappers' = Wrappers /\ Block("pool")' = Block("pool")
    BY <2>1, <2>2 DEF Made, Wrappers, Queued, Wrapper, Block
  <2>4. Socket \subseteq Socket' /\ Socket' = {Block("socket")}
    BY <2>1 DEF Socket, Block
  <2> QED
    BY <2>1, <2>3, <2>4 DEF HeldInv, CreateUndone, NothingLeft, Serving
<1>2. CASE NullObject
  <2>1. opc = "failed" /\ opc' = opc /\ held' = held
    BY <1>2 DEF NullObject
  <2> QED BY <2>1 DEF HeldInv, CreateUndone, NothingLeft, Serving, Block
<1>3. CASE Start \/ Stop \/ StopSignal \/ StopDrained \/ Destroy \/ DestroyWait
  <2>1. /\ opc \in Serving /\ opc' \in Serving
        /\ held' = held /\ wpc' = wpc /\ bad' = bad /\ ss' = ss
    BY <1>3
       DEF Start, Stop, StopSignal, StopDrained, Destroy, DestroyWait, Owner,
           made, Serving
  <2>2. /\ Made' = Made /\ Wrappers' = Wrappers /\ Socket' = Socket
        /\ Block("pool")' = Block("pool")
    BY <2>1, HeldSame DEF Block
  <2> QED
    BY <2>1, <2>2 DEF HeldInv, CreateUndone, NothingLeft, Serving
<1> QED BY <1>1, <1>2, <1>3

(* saurion_start hands out the wrappers.                                   *)
LEMMA HeldStartTask ==
  ASSUME PlaceInv, ValueInv, StartInv, HeldInv, [Next]_vars, StartTask
  PROVE  HeldInv'
<1> DEFINE t == <<starts, oi>>
<1>1. /\ opc \in Serving /\ opc' \in Serving /\ bad' = bad /\ ss' = ss
      /\ wpc' = [wpc EXCEPT ![t] = "queued"] /\ held' = held \cup Wrapper(t)
  BY DEF StartTask, Owner, made, Serving
<1>2. t \in Tasks
  BY LifecycleAssumption DEF StartTask, Owner, StartInv, PlaceInv, Tasks
<1>3. Tasks' = Tasks
  BY SizesKept
<1> HIDE DEF t
<1>4. Queued' = Queued \cup {t}
  BY <1>1, <1>2, <1>3 DEF Queued, ValueInv
<1>5. Wrappers' = Wrappers \cup Wrapper(t)
  BY <1>4 DEF Wrappers, Wrapper
<1>6. Made' = Made /\ Socket' = Socket /\ Block("pool")' = Block("pool")
  BY <1>1, HeldSame DEF Block
<1> QED
  BY <1>1, <1>5, <1>6 DEF HeldInv, CreateUndone, NothingLeft, Serving

(* saurion_start without memory for the wrapper of a task not queued yet.  *)
LEMMA HeldStartFails ==
  ASSUME PlaceInv, ValueInv, StartInv, HeldInv, [Next]_vars, ~wild, StartFails
  PROVE  HeldInv'
<1>1. PICK t : t = <<starts, oi>>
  OBVIOUS
<1>2. /\ opc = "starting" /\ opc' = opc /\ held' = held
      /\ bad' = bad /\ ss' = ss /\ wpc' = [wpc EXCEPT ![t] = "lost"]
  BY <1>1 DEF StartFails, made
<1>3. wpc[t] = "none"
  <2>1. oi \in Rings /\ oi >= oi
    BY <1>2, SizesAre DEF PlaceInv
  <2> QED BY <1>1, <1>2, <2>1 DEF StartInv, Awaiting
<1>4. Tasks' = Tasks
  BY SizesKept
<1>5. Queued \subseteq Queued'
  BY <1>2, <1>3, <1>4 DEF Queued, ValueInv
<1>6. Wrappers \subseteq Wrappers'
  BY <1>5 DEF Wrappers, Wrapper
<1>7. Made' = Made /\ Socket' = Socket /\ Block("pool")' = Block("pool")
  BY <1>2, HeldSame DEF Block
<1> QED
  BY <1>2, <1>6, <1>7 DEF HeldInv, CreateUndone, NothingLeft, Serving

(* saurion_destroy releases the pool, then the rest.                       *)
LEMMA HeldDestroy ==
  ASSUME ValueInv, StartInv, HeldInv, [Next]_vars, DestroyPool \/ DestroyFree
  PROVE  HeldInv'
<1>1. CASE DestroyPool
  <2>1. /\ opc = "joining" /\ opc' = "freeing" /\ bad' = bad /\ ss' = ss
        /\ held' = Releasing({"pool"})
        /\ \A w \in Tasks : wpc[w] \in Ended \cup {"dead"}
    BY <1>1 DEF DestroyPool, Owner, made
  <2>2. Queued = {}
    BY <2>1 DEF Queued, Ended
  <2>3. Wrappers = {}
    BY <2>2 DEF Wrappers
  <2>4. held \subseteq Made \cup {Block("pool")} \cup Socket
    BY <2>1, <2>3 DEF HeldInv, Serving
  <2>5. held' \subseteq Made \cup Socket
    BY <2>1, <2>4, HeldKinds DEF Releasing
  <2>6. Made' = Made /\ Socket' = Socket
    BY <2>1, HeldSame
  <2> QED
    BY <2>1, <2>5, <2>6 DEF HeldInv, CreateUndone, NothingLeft, Serving
<1>2. CASE DestroyFree
  <2>1. /\ opc = "freeing" /\ opc' = "freed" /\ ss' = ss
        /\ held' = Releasing({"struct", "locks", "m_rings", "efds", "efd",
                              "rings", "ring"}
                             \cup (IF ss = "socket" THEN {"socket"} ELSE {}))
    BY <1>2 DEF DestroyFree, Owner
  <2>2. held \subseteq Made \cup Socket
    BY <2>1 DEF HeldInv
  <2>3. ASSUME NEW x \in held'
        PROVE  x = Block("socket") /\ ss = "wrong"
    <3>1. x \in held /\ x \notin Made
      BY <2>1, <2>3, HeldKinds DEF Releasing
    <3>2. x = Block("socket") /\ x[1] = "socket" /\ ss # "default"
      BY <2>2, <3>1, HeldKinds
    <3>3. ss # "socket"
      BY <2>1, <2>3, <3>2 DEF Releasing
    <3> QED BY <3>2, <3>3 DEF ValueInv
  <2>4. \A x \in held' : x = Block("socket")' /\ ss' = "wrong"
    BY <2>1, <2>3 DEF Block
  <2> QED
    BY <2>1, <2>4 DEF HeldInv, CreateUndone, NothingLeft, Serving
<1> QED BY <1>1, <1>2

(* A worker frees its own wrapper, and nothing else.                       *)
LEMMA HeldWorker ==
  ASSUME PlaceInv, ValueInv, StartInv, HeldInv, [Next]_vars,
         NEW w \in Tasks, WorkerStep(w) \/ TakeFails(w)
  PROVE  HeldInv'
<1>1. /\ opc' = opc /\ bad' = bad /\ ss' = ss
      /\ wpc[w] \in {"queued", "armed", "loop", "exit"}
  BY DEF WorkerStep, Take, Taken, TakeFails, Ready, Signalled, Dies, Exit,
         Worker, made
<1>2. opc \in Serving
  <2>1. opc \notin {"freeing", "freed"}
    BY <1>1 DEF StartInv, Gone, Ended
  <2>2. opc \notin {"creating", "failed"}
    <3>1. w[1] \in Nat /\ w[1] > 0
      BY TaskParts
    <3>2. w[1] <= starts
      BY <1>1 DEF StartInv
    <3> QED BY <3>1, <3>2 DEF StartInv
  <2> QED BY <2>1, <2>2 DEF PlaceInv
<1>3. /\ Made \cup {Block("pool")} \subseteq held
      /\ held \subseteq Made \cup {Block("pool")} \cup Wrappers \cup Socket
  BY <1>2 DEF HeldInv
<1>4. Tasks' = Tasks
  BY SizesKept
<1>5. /\ Made' = Made /\ Socket' = Socket /\ Block("pool")' = Block("pool")
  BY <1>1, HeldSame DEF Block
<1>6. /\ Made \cup {Block("pool")} \subseteq held'
      /\ held' \subseteq Made \cup {Block("pool")} \cup Wrappers' \cup Socket
  <2>1. CASE Take(w) \/ TakeFails(w)
    <3>1. /\ held' = held \ Wrapper(w)
          /\ \E to \in {"armed", "lost"} : wpc' = [wpc EXCEPT ![w] = to]
      BY <2>1 DEF Take, Taken, TakeFails, Worker
    <3>2. \A v \in Queued : v # w => v \in Queued'
      BY <1>4, <3>1 DEF Queued, ValueInv
    <3>3. \A x \in Wrappers : x \notin Wrapper(w) => x \in Wrappers'
      BY <3>2 DEF Wrappers, Wrapper
    <3>4. \A x \in Wrapper(w) : x[1] = "wrapper"
      BY DEF Wrapper
    <3>5. \A x \in Made \cup {Block("pool")} : x \notin Wrapper(w)
      BY <3>4, HeldKinds
    <3> QED BY <1>3, <3>1, <3>3, <3>5
  <2>2. CASE Ready(w) \/ Signalled(w) \/ Dies(w) \/ Exit(w)
    <3>1. held' = held /\ wpc[w] # "queued"
      BY <2>2 DEF Ready, Signalled, Dies, Exit, Worker
    <3>2. Queued \subseteq Queued'
      BY <1>4, <2>2, <3>1
         DEF Queued, ValueInv, Ready, Signalled, Dies, Exit, Worker
    <3>3. Wrappers \subseteq Wrappers'
      BY <3>2 DEF Wrappers, Wrapper
    <3> QED BY <1>3, <3>1, <3>3
  <2> QED BY <2>1, <2>2 DEF WorkerStep
<1> QED
  BY <1>1, <1>2, <1>5, <1>6 DEF HeldInv, CreateUndone, NothingLeft, Serving

(* What is held is what the owner's place calls for, whichever step is made*)
LEMMA HeldNext ==
  ASSUME PlaceInv, ValueInv, StartInv, HeldInv, [Next]_vars
  PROVE  HeldInv'
<1>1. CASE UNCHANGED vars
  <2>1. /\ Made' = Made /\ Wrappers' = Wrappers /\ Socket' = Socket
        /\ Steps' = Steps
    BY <1>1, HeldSame, SizesKept DEF vars, made
  <2> QED
    BY <1>1, <2>1
       DEF HeldInv, CreateUndone, NothingLeft, Serving, Block, vars, made
<1> QED
  BY <1>1, HeldAcquire, HeldFails, HeldCalls, HeldStartTask, HeldStartFails,
     HeldDestroy, HeldWorker DEF Next, OwnerStep

-----------------------------------------------------------------------------
(* The theorems.                                                           *)

(* saurion_create starts in the invariant.                                 *)
LEMMA LifeInit ==
  ASSUME Init
  PROVE  LifeInv
<1>1. n \in Nat \ {0} /\ Rings = 0 .. n - 1
  BY RingsExist, LifecycleAssumption DEF Init, Rings
<1>2. Len(Steps) = 2 * n + 6
  BY <1>1, StepsAre
<1>3. PlaceInv
  BY <1>1, <1>2 DEF Init, PlaceInv, Serving
<1>4. ValueInv /\ FlagInv
  <2>1. ValueInv
    BY DEF Init, ValueInv, Ended
  <2>2. zero \in BOOLEAN /\ wild = FALSE /\ overlap = FALSE /\ owing = FALSE
    BY Zenon DEF Init
  <2>3. FlagInv
    BY <2>2 DEF FlagInv
  <2> QED BY <2>1, <2>3
<1>5. StartInv
  <2>1. \A w \in Tasks : wpc[w] = "none"
    BY DEF Init
  <2> QED BY <2>1, LifecycleAssumption DEF Init, StartInv, Ended
<1>6. 1 .. at - 1 = {}
  BY DEF Init
<1>7. HeldInv
  BY <1>6 DEF Init, HeldInv, Serving, CreateUndone, NothingLeft
<1>8. DefinedUse
  BY DEF Init, DefinedUse
<1> QED BY <1>3, <1>4, <1>5, <1>7, <1>8 DEF LifeInv

(* Every step keeps it.                                                    *)
LEMMA LifeNext ==
  ASSUME LifeInv, [Next]_vars
  PROVE  LifeInv'
BY PlaceNext, ValueNext, FlagNext, StartNext, HeldNext, UseNext DEF LifeInv

(* What is held, and what a task uses, by the place of the owner.          *)
LEMMA LifeHolds ==
  ASSUME LifeInv
  PROVE  TypeOK /\ Covered
<1>1. ASSUME NEW r \in bad
      PROVE  <<"efd", r>> \notin held
  <2>1. <<"efd", r>> \notin Made
    BY <1>1 DEF Made, Block
  <2>2. /\ <<"efd", r>> \notin Wrappers /\ <<"efd", r>> \notin Socket
        /\ <<"efd", r>> # Block("pool")
    BY HeldKinds DEF Block
  <2>3. CASE opc = "creating"
    BY <1>1, <2>3 DEF LifeInv, HeldInv
  <2>4. CASE opc = "failed"
    BY <2>4 DEF LifeInv, HeldInv, CreateUndone, Block
  <2>5. CASE opc \in Serving
    BY <2>1, <2>2, <2>5 DEF LifeInv, HeldInv
  <2>6. CASE opc = "freeing"
    BY <2>1, <2>2, <2>6 DEF LifeInv, HeldInv
  <2>7. CASE opc = "freed"
    BY <2>7 DEF LifeInv, HeldInv, NothingLeft, Block
  <2> QED BY <2>3, <2>4, <2>5, <2>6, <2>7 DEF LifeInv, PlaceInv
<1>2. TypeOK
  BY <1>1 DEF LifeInv, PlaceInv, ValueInv, FlagInv, TypeOK
<1>3. ASSUME NEW w \in Tasks, wpc[w] \in Live \cup {"queued"}
      PROVE  Uses(w) \subseteq held
  <2>1. opc \notin {"freeing", "freed"}
    BY <1>3 DEF LifeInv, StartInv, Gone, Ended, Live
  <2>2. opc \notin {"creating", "failed"}
    <3>1. w[1] \in Nat /\ w[1] > 0
      BY TaskParts
    <3>2. w[1] <= starts
      BY <1>3 DEF LifeInv, StartInv, Live
    <3> QED BY <3>1, <3>2 DEF LifeInv, StartInv
  <2>3. Made \cup {Block("pool")} \subseteq held
    BY <2>1, <2>2 DEF LifeInv, PlaceInv, HeldInv
  <2>4. w[2] \in Rings
    BY TaskParts
  <2>5. Uses(w) \subseteq Made \cup {Block("pool")}
    BY <2>4 DEF Uses, Made
  <2> QED BY <2>3, <2>5
<1> QED BY <1>2, <1>3 DEF Covered

(* The invariant holds in every state of a server's life.                  *)
THEOREM LifeInvariant == Spec => []LifeInv
<1>1. Init => LifeInv
  BY LifeInit
<1>2. LifeInv /\ [Next]_vars => LifeInv'
  BY LifeNext
<1> QED BY <1>1, <1>2, PTL DEF Spec

(* saurion_create, saurion_start, saurion_stop and saurion_destroy keep    *)
(* every variable to its values, and a ring whose eventfd failed has none. *)
THEOREM LifeTypes == Spec => []TypeOK
<1>1. LifeInv => TypeOK
  BY LifeHolds
<1> QED BY <1>1, LifeInvariant, PTL

(* The server, the lock, the ring and the eventfd of a worker are not      *)
(* released under it: saurion_destroy joins the threads before it frees.   *)
THEOREM NothingReleasedInUse == Spec => []Covered
<1>1. LifeInv => Covered
  BY LifeHolds
<1> QED BY <1>1, LifeInvariant, PTL

(* Whatever the order and number of calls, and whichever of the failures   *)
(* strike, undefined behaviour has one of five causes: more rings than     *)
(* mutexes, a start over the workers of the last one, a server that could  *)
(* not be made, a start that runs out of memory, and saurion_destroy after *)
(* a worker died of the eventfd it has not.                                *)
THEOREM CausesOfUndefined == Spec => []DefinedUse
<1>1. LifeInv => DefinedUse
  BY DEF LifeInv
<1> QED BY <1>1, LifeInvariant, PTL

(* The error paths of saurion_create release what they should, whichever   *)
(* step fails and however many rings there are.                            *)
THEOREM FailedCreateUndone == Spec => []CreateUndone
<1>1. LifeInv => CreateUndone
  BY DEF LifeInv, HeldInv
<1> QED BY <1>1, LifeInvariant, PTL

(* saurion_destroy releases all that saurion_create and saurion_start      *)
(* acquired, whatever was called between.                                  *)
THEOREM DestroyLeavesNothing == Spec => []NothingLeft
<1>1. LifeInv => NothingLeft
  BY DEF LifeInv, HeldInv
<1> QED BY <1>1, LifeInvariant, PTL
=============================================================================
