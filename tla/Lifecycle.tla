----------------------------- MODULE Lifecycle ------------------------------
(***************************************************************************)
(* The life of a server, from saurion_create to saurion_destroy in         *)
(* saurion/src/low_saurion.c: the resources it acquires and releases, what *)
(* happens when one of them cannot be had, and an owner that calls         *)
(* saurion_start and saurion_stop in any order and number before it calls  *)
(* saurion_destroy.  Reactor follows the one order of main.cpp and looks   *)
(* into the loops; here a worker is only what start, stop and destroy see  *)
(* of it: a task of the pool that reads its eventfd and ends.              *)
(*                                                                         *)
(* Undefined behaviour ends the run in wild: what follows is arbitrary.    *)
(***************************************************************************)
EXTENDS Integers, FiniteSets, Sequences

CONSTANTS
  Asked,     (* the values of n_threads saurion_create is called with      *)
  Cores,     (* the values NUM_CORES may have                              *)
  MaxStarts, (* the calls of saurion_start                                 *)
  MaxStops,  (* the calls of saurion_stop                                  *)
  Failing    (* what may fail: "create", "eventfd", "socket", "start"      *)

LeastOf(a, b) == IF a < b THEN a ELSE b
MostOf(a, b)  == IF a > b THEN a ELSE b

ASSUME LifecycleAssumption ==
  /\ Asked \subseteq Nat /\ Cores \subseteq Nat \ {0}
  /\ MaxStarts \in Nat /\ MaxStops \in Nat
  /\ Failing \subseteq {"create", "eventfd", "socket", "start"}

VARIABLES
  asked, cores, (* the argument of saurion_create and the machine          *)
  zero,     (* descriptor 0 of the process is free                         *)
  held,     (* the resources acquired and not released, as <<kind, which>> *)
  at,       (* the next step of saurion_create                             *)
  bad,      (* the rings whose efds[] holds -1                             *)
  ss,       (* "default", "socket", or "wrong" after a failure             *)
  opc, oi,  (* the position of the owner                                   *)
  starts, stops,
  wpc,      (* the tasks of the pool: one for each start and each ring     *)
  efd,      (* the eventfds that are not 0                                 *)
  status,
  wild,     (* undefined behaviour was reached                             *)
  (* history: a start found workers of an earlier one, no stop followed    *)
  (* the last start                                                        *)
  overlap, owing

made    == <<asked, cores, zero, at, bad, ss>>
calls   == <<starts, stops, overlap, owing>>
vars    == <<made, held, opc, oi, calls, wpc, efd, status, wild>>

-----------------------------------------------------------------------------
(* saurion_create clamps n_threads after it has allocated the mutexes; the *)
(* pool never has less than two threads.                                   *)
n           == LeastOf(MostOf(asked, 2), cores)
Rings       == 0 .. n - 1
PoolThreads == MostOf(n, 2)

Tasks   == (1 .. MaxStarts) \X Rings
AnyTask == (1 .. MaxStarts) \X UNION {0 .. c - 1 : c \in Cores}

Block(kind) == <<kind, 0>>
OfRings(kind) == [i \in 1 .. n |-> <<kind, i - 1>>]

(* What saurion_create acquires, in order.                                 *)
Steps ==
  <<Block("struct"), Block("locks"), Block("m_rings"), Block("efds")>>
  \o OfRings("efd") \o <<Block("rings")>> \o OfRings("ring")
  \o <<Block("pool")>>

(* What each error path releases, by the kind of what failed.  The locks   *)
(* go with the block they are in.                                          *)
Undo_Of(base, efds) ==
  [struct |-> {}, locks |-> base, m_rings |-> base,
   efds   |-> base \cup {"m_rings"},
   efd    |-> base \cup {"m_rings", "efds"} \cup efds,
   rings  |-> base \cup {"m_rings", "efds"} \cup efds,
   ring   |-> base \cup {"m_rings", "efds", "rings"} \cup efds]

(* Mutant: the eventfds stay open.                                         *)
Undo_KeepsEfds == Undo_Of({"struct", "locks"}, {})

Undo == Undo_Of({"struct", "locks"}, {"efd"})

Releasing(kinds) == {x \in held : x[1] \notin kinds}

Owner(from, to) == opc = from /\ opc' = to

(* A step succeeds; for an eventfd whatever number it gets but 0.          *)
Acquire ==
  LET x == Steps[at]
  IN  /\ Owner("creating", IF at = Len(Steps) THEN "idle" ELSE "creating")
      /\ x[1] = "efd" => ~zero
      /\ held' = held \cup {x}
      /\ at' = at + 1
      /\ UNCHANGED <<asked, cores, zero, bad, ss, oi, calls, wpc, efd,
                     status, wild>>

(* Mutant: the failure is noticed, the eventfd is made again, and the mark *)
(* stays.                                                                  *)
EventfdFails_Again ==
  /\ opc = "creating" /\ Steps[at][1] = "efd"
  /\ "eventfd" \in Failing
  /\ bad' = bad \cup {Steps[at][2]}
  /\ UNCHANGED <<asked, cores, zero, at, ss, held, opc, oi, calls, wpc, efd,
                 status, wild>>

(* eventfd() returns -1 when it fails, and the code compares with 0: the   *)
(* failure is not noticed.                                                 *)
EventfdFails ==
  /\ opc = "creating" /\ Steps[at][1] = "efd"
  /\ "eventfd" \in Failing
  /\ bad' = bad \cup {Steps[at][2]}
  /\ at' = at + 1
  /\ UNCHANGED <<asked, cores, zero, ss, held, opc, oi, calls, wpc, efd,
                 status, wild>>

(* Descriptor 0 was free, eventfd() returns it, and the code takes it for  *)
(* a failure: it closes the eventfds before it and not this one.           *)
EventfdZero ==
  /\ Owner("creating", "failed")
  /\ Steps[at][1] = "efd" /\ zero
  /\ held' = Releasing(Undo["efd"]) \cup {Block("zero")}
  /\ zero' = FALSE
  /\ UNCHANGED <<asked, cores, at, bad, ss, oi, calls, wpc, efd, status,
                 wild>>

AcquireFails ==
  /\ Owner("creating", "failed")
  /\ "create" \in Failing
  /\ Steps[at][1] \notin {"efd", "pool"}
  /\ held' = Releasing(Undo[Steps[at][1]])
  /\ UNCHANGED <<made, oi, calls, wpc, efd, status, wild>>

(* The C++ object whose saurion_create failed keeps a null pointer, which  *)
(* init(), stop() and the destructor dereference.                          *)
NullObject ==
  /\ opc = "failed"
  /\ wild' = TRUE
  /\ UNCHANGED <<made, held, opc, oi, calls, wpc, efd, status>>

(* EXTERNAL_set_socket returns SUCCESS_CODE, which is 1, when it fails; a  *)
(* socket() that succeeded is then left open.  Nobody tests the result.    *)
SetSocket ==
  /\ opc = "idle" /\ ss = "default" /\ starts = 0
  /\ \/ ss' = "socket" /\ held' = held \cup {Block("socket")}
     \/ /\ "socket" \in Failing
        /\ ss' = "wrong"
        /\ held' \in {held, held \cup {Block("socket")}}
  /\ UNCHANGED <<asked, cores, zero, at, bad, opc, oi, calls, wpc, efd,
                 status, wild>>

-----------------------------------------------------------------------------
(* saurion_start: ThreadPool_init, which does nothing the second time, and *)
(* one task for each ring.                                                 *)
Ended == {"none", "done"}

Start ==
  /\ Owner("idle", "starting")
  /\ starts < MaxStarts
  /\ starts' = starts + 1
  /\ oi' = 0
  /\ overlap' = (overlap \/ \E w \in Tasks : wpc[w] \notin Ended)
  /\ owing' = TRUE
  /\ UNCHANGED <<made, held, stops, wpc, efd, status, wild>>

Wrapper(w) == IF w[2] = 0 THEN {} ELSE {<<"wrapper", w>>}

(* A slave is told its ring in a saurion_wrapper of its own.               *)
StartTask ==
  LET w == <<starts, oi>>
  IN  /\ Owner("starting", IF oi = n - 1 THEN "idle" ELSE "starting")
      /\ wpc' = [wpc EXCEPT ![w] = "queued"]
      /\ held' = held \cup Wrapper(w)
      /\ oi' = oi + 1
      /\ UNCHANGED <<made, calls, efd, status, wild>>

(* No memory for the wrapper, which is written to all the same.            *)
StartFails ==
  /\ opc = "starting" /\ "start" \in Failing
  /\ Wrapper(<<starts, oi>>) # {}
  /\ wpc' = [wpc EXCEPT ![<<starts, oi>>] = "lost"]
  /\ wild' = TRUE
  /\ UNCHANGED <<made, held, opc, oi, calls, efd, status>>

(* saurion_stop: a write to each eventfd, again and again while it fails,  *)
(* then ThreadPool_wait_empty.                                             *)
Stop ==
  /\ Owner("idle", "stopping")
  /\ stops < MaxStops
  /\ stops' = stops + 1
  /\ oi' = 0
  /\ owing' = FALSE
  /\ UNCHANGED <<made, held, starts, overlap, wpc, efd, status, wild>>

StopSignal ==
  /\ Owner("stopping", IF oi = n - 1 THEN "draining" ELSE "stopping")
  /\ oi \notin bad
  /\ efd' = efd \cup {oi}
  /\ oi' = oi + 1
  /\ UNCHANGED <<made, held, calls, wpc, status, wild>>

Queued == {w \in Tasks : wpc[w] = "queued"}

StopDrained ==
  /\ Owner("draining", "idle")
  /\ Queued = {}
  /\ UNCHANGED <<made, held, oi, calls, wpc, efd, status, wild>>

Destroy ==
  /\ Owner("idle", "destroying")
  /\ UNCHANGED <<made, held, oi, calls, wpc, efd, status, wild>>

DestroyWait ==
  /\ Owner("destroying", "joining")
  /\ status # 1
  /\ UNCHANGED <<made, held, oi, calls, wpc, efd, status, wild>>

(* Mutant: the threads are not joined.                                     *)
DestroyPool_NoJoin ==
  /\ Owner("joining", "freeing")
  /\ held' = Releasing({"pool"})
  /\ UNCHANGED <<made, oi, calls, wpc, efd, status, wild>>

(* ThreadPool_destroy waits for the queue and joins the threads.           *)
DestroyPool ==
  /\ Owner("joining", "freeing")
  /\ \A w \in Tasks : wpc[w] \in Ended \cup {"dead"}
  /\ held' = Releasing({"pool"})
  /\ UNCHANGED <<made, oi, calls, wpc, efd, status, wild>>

(* The rest, in which s->ss is closed whatever it is: descriptor 0 when no *)
(* socket was set, 1 when it could not be had.  The mutexes of all rings   *)
(* are destroyed, those never allocated too, and every request of the list *)
(* is freed, those that workers freed as they died too.                    *)
Dead == {w \in Tasks : wpc[w] = "dead"}

DestroyFree ==
  /\ Owner("freeing", "freed")
  /\ held' = Releasing({"struct", "locks", "m_rings", "efds", "efd", "rings",
                        "ring"} \cup (IF ss = "socket" THEN {"socket"} ELSE {}))
  /\ zero' = (zero \/ ss = "default")
  /\ wild' = (n > asked \/ Dead # {})
  /\ UNCHANGED <<asked, cores, at, bad, ss, oi, calls, wpc, efd, status>>

OwnerStep ==
  \/ Acquire \/ StartTask \/ StopSignal \/ StopDrained
  \/ DestroyWait \/ DestroyPool \/ DestroyFree

-----------------------------------------------------------------------------
(* The workers.                                                            *)

Worker(w, from, to) == wpc[w] = from /\ wpc' = [wpc EXCEPT ![w] = to]

Before(v, w) == v[1] < w[1] \/ (v[1] = w[1] /\ v[2] < w[2])

Live == {"armed", "loop", "exit"}

(* Mutant: a thread of the pool ends with its first task.                  *)
Busy_Forever == {w \in Tasks : wpc[w] \in Live \cup {"done"}}

Busy == {w \in Tasks : wpc[w] \in Live}

(* A free thread of the pool takes the first task, whose first step is to  *)
(* submit a read of its eventfd.                                           *)
Taken(w) ==
  /\ Worker(w, "queued", "armed")
  /\ \A v \in Queued : v = w \/ Before(w, v)
  /\ Cardinality(Busy) < PoolThreads
  /\ UNCHANGED <<made, opc, oi, calls, efd, status>>

(* It does so under a mutex, which has to be one saurion_create allocated. *)
(* Two loops on one ring, or a loop on a ring left in the middle of a      *)
(* failure, take each other's entries.                                     *)
Clash(w, ring) ==
  \/ ring >= asked
  \/ \E v \in Tasks : v[2] = ring /\ v # w /\ wpc[v] \in {"armed", "loop", "dead"}

(* No memory for the request of that read, or it cannot be submitted: an   *)
(* entry in the middle of the ring is given to free().                     *)
TakeFails(w) ==
  /\ "start" \in Failing
  /\ Worker(w, "queued", "lost")
  /\ \A v \in Queued : v = w \/ Before(w, v)
  /\ Cardinality(Busy) < PoolThreads
  /\ held' = held \ Wrapper(w)
  /\ wild' = TRUE
  /\ UNCHANGED <<made, opc, oi, calls, efd, status>>

(* Mutants: the slave does not free its wrapper; all the slaves are told   *)
(* the ring of the last one.                                               *)
Take_KeepsWrapper(w) == Taken(w) /\ wild' = Clash(w, w[2]) /\ UNCHANGED held

Take_LastRing(w) ==
  /\ Taken(w)
  /\ held' = held \ Wrapper(w)
  /\ wild' = \E v \in Tasks : v # w /\ v[1] = w[1] /\ v[2] > 0 /\ w[2] > 0
                              /\ wpc[v] \in Live

Take(w) ==
  /\ Taken(w)
  /\ held' = held \ Wrapper(w)
  /\ wild' = Clash(w, w[2])

Ready(w) ==
  /\ Worker(w, "armed", "loop")
  /\ status' = 1
  /\ UNCHANGED <<made, held, opc, oi, calls, efd, wild>>

(* The read of the eventfd, which takes every signal written so far.       *)
Signalled(w) ==
  /\ Worker(w, "loop", "exit")
  /\ w[2] \in efd
  /\ efd' = efd \ {w[2]}
  /\ UNCHANGED <<made, held, opc, oi, calls, status, wild>>

(* A read of descriptor -1 fails, and the worker frees its request, which  *)
(* stays in the list, and returns.                                         *)
Dies(w) ==
  /\ Worker(w, "loop", "dead")
  /\ w[2] \in bad
  /\ UNCHANGED <<made, held, opc, oi, calls, efd, status, wild>>

(* Mutant: status is left alone.                                           *)
Exit_Silent(w) ==
  /\ Worker(w, "exit", "done")
  /\ UNCHANGED <<made, held, opc, oi, calls, efd, status, wild>>

Exit(w) ==
  /\ Worker(w, "exit", "done")
  /\ status' = 2
  /\ UNCHANGED <<made, held, opc, oi, calls, efd, wild>>

WorkerStep(w) ==
  Take(w) \/ Ready(w) \/ Signalled(w) \/ Dies(w) \/ Exit(w)

-----------------------------------------------------------------------------
Init ==
  /\ asked \in Asked /\ cores \in Cores /\ zero \in BOOLEAN
  /\ held = {} /\ at = 1 /\ bad = {} /\ ss = "default"
  /\ opc = "creating" /\ oi = 0
  /\ starts = 0 /\ stops = 0 /\ overlap = FALSE /\ owing = FALSE
  /\ wpc = [w \in Tasks |-> "none"]
  /\ efd = {} /\ status = 0 /\ wild = FALSE

Next ==
  /\ ~wild
  /\ \/ OwnerStep \/ EventfdFails \/ EventfdZero \/ AcquireFails
     \/ NullObject \/ SetSocket \/ Start \/ StartFails \/ Stop \/ Destroy
     \/ \E w \in Tasks : WorkerStep(w) \/ TakeFails(w)

Spec == Init /\ [][Next]_vars

(* Threads run and the kernel completes the reads; the owner finishes the  *)
(* calls it makes and owes none.                                           *)
FairSpec ==
  /\ Spec
  /\ WF_vars(~wild /\ OwnerStep)
  /\ \A w \in AnyTask : WF_vars(~wild /\ w \in Tasks /\ WorkerStep(w))

-----------------------------------------------------------------------------
(* Properties.                                                             *)

(* The values the variables keep to; a descriptor is in bad or held, never *)
(* both.                                                                   *)
TypeOK ==
  /\ at \in 1 .. Len(Steps) + 1 /\ oi \in 0 .. n
  /\ bad \subseteq Rings /\ efd \subseteq Rings
  /\ \A r \in bad : <<"efd", r>> \notin held
  /\ ss \in {"default", "socket", "wrong"} /\ status \in 0 .. 2
  /\ wpc \in [Tasks -> Ended \cup Live \cup {"queued", "dead", "lost"}]
  /\ {zero, wild, overlap, owing} \subseteq BOOLEAN

(* What a task uses is there as long as the task is: the server, its lock, *)
(* its ring and its eventfd are not released under it, wherever            *)
(* saurion_destroy found it.                                               *)
Uses(w) ==
  {Block("struct"), Block("locks"), Block("m_rings"), Block("efds"),
   Block("rings"), Block("pool"), <<"ring", w[2]>>}
  \cup (IF w[2] \in bad THEN {} ELSE {<<"efd", w[2]>>})

Covered ==
  \A w \in Tasks : wpc[w] \in Live \cup {"queued"} => Uses(w) \subseteq held

(* No sequence of calls and failures leads to undefined behaviour but      *)
(* through one of these: more rings than mutexes, a start made while the   *)
(* workers of an earlier one are there, the use of a server that could not *)
(* be made, a start that runs out of memory, and saurion_destroy after a   *)
(* worker died of an eventfd that could not be had.                        *)
Lost == \E w \in Tasks : wpc[w] = "lost"

DefinedUse ==
  wild => \/ n > asked \/ overlap \/ opc = "failed" \/ Lost
          \/ opc = "freed" /\ \E w \in Dead : w[2] \in bad

(* A saurion_create that failed left nothing behind, but for the rings     *)
(* initialised before the one that failed and an eventfd with number 0.    *)
CreateUndone ==
  opc = "failed" => \A x \in held : x[1] = "ring" \/ x = Block("zero")

(* saurion_destroy releases what saurion_create, saurion_start and         *)
(* EXTERNAL_set_socket acquired, but for the socket of an                  *)
(* EXTERNAL_set_socket that failed.                                        *)
NothingLeft ==
  opc = "freed" => \A x \in held : x = Block("socket") /\ ss = "wrong"

(* Starts and stops in order: each start after the end of the workers      *)
(* before, with mutexes for every ring and eventfds that exist.            *)
Orderly == ~overlap /\ bad = {} /\ n <= asked

(* saurion_stop returns, whatever stops and starts came before it, unless  *)
(* a task queued before it fails to start.                                 *)
StopReturns == (opc = "stopping" /\ Orderly) ~> (opc = "idle" \/ Lost)

(* saurion_destroy returns if a stop was called after the last start, or   *)
(* none was started, with the same exception.                              *)
DestroyEnds ==
  (opc = "destroying" /\ Orderly /\ ~owing) ~> (opc = "freed" \/ Lost)
=============================================================================
