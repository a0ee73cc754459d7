------------------------------ MODULE Reactor -------------------------------
(***************************************************************************)
(* The event loops of saurion/src/low_saurion.c: N io_uring rings, each    *)
(* served by one worker (ring 0 by saurion_worker_master, which also       *)
(* accepts), the list of requests, the status word, and the thread that    *)
(* calls saurion_start, saurion_stop and saurion_destroy.                  *)
(*                                                                         *)
(* Outside src/, and kept abstract: the kernel (it completes the requests  *)
(* submitted to a ring in any order and posts at most CqSize entries in    *)
(* its completion queue), the peers of the connections, the application    *)
(* behind the callbacks, and the pool, of which this module uses what      *)
(* TaskPool states: N threads take the N tasks added and run them.         *)
(*                                                                         *)
(* A segment is what one CHUNK_SZ buffer holds, a message is Parts of      *)
(* them, so that a message longer than a buffer is read by a request and   *)
(* its continuation.  The bytes of the two framings are not modelled.      *)
(***************************************************************************)
EXTENDS Integers, FiniteSets, Bags, SequencesExt

CONSTANTS
  N,        (* n_threads                                                   *)
  Conns,    (* connections peers may open, each once                       *)
  Parts,    (* the segments of a message                                   *)
  MaxSent,  (* the segments a peer sends at most                           *)
  MaxSends, (* the calls of saurion_send                                   *)
  Fds,      (* the numbers of the descriptors left for connections         *)
  CqSize,   (* the entries of a completion queue                           *)
  Stops,    (* whether the owner ever calls saurion_stop                   *)
  Failing,  (* what goes wrong: "reset", "pipe", "wait"                    *)
  None

Rings == 0 .. N - 1

(* client_socket of a request that is not about a connection: 0 for the    *)
(* accept, the descriptor of s->efds[r], which we number apart.            *)
ACCEPT_FD == 0
EFD(r)    == -1 - r

ASSUME ReactorAssumption ==
  /\ N \in Nat \ {0}
  /\ Parts \in Nat \ {0}
  /\ MaxSent \in Nat /\ MaxSends \in Nat
  /\ Fds \subseteq Nat \ {0}
  /\ CqSize \in Nat \ {0}
  /\ Stops \in BOOLEAN
  /\ Failing \subseteq {"reset", "pipe", "wait"}
  /\ None \notin Conns
  /\ None \notin {"accept", "read", "write"} \X Int \X Nat

VARIABLES
  (* the outside: peers, the backlog of ss, the descriptor table           *)
  peer, sent, taken, backlog, file,
  (* the rings, the requests they hold, the connections a block of memory  *)
  (* with the beginning of a message is allocated for                      *)
  inflight, cq, heap, list, prevs,
  (* the workers: position, the request in hand, its cqe->res              *)
  wpc, cur, cqres,
  (* the rest of struct saurion and its owner                              *)
  efd, status, opc, oi,
  (* the application: the connection it knows under each descriptor, what  *)
  (* each connection was reported to have received and those that the      *)
  (* server has lost its place in, those reported closed, the calls of     *)
  (* saurion_send in progress and in all, those of on_wrote, and whether   *)
  (* on_error was seen                                                     *)
  told, got, torn, ended, calls, sends, wrote, erred

outside == <<peer, sent, taken, backlog, file>>
ringv   == <<inflight, cq>>
reqs    == <<heap, list, prevs>>
workers == <<wpc, cur, cqres>>
owner   == <<efd, status, opc, oi>>
app     == <<told, got, torn, ended, calls, sends, wrote, erred>>
vars    == <<outside, ringv, reqs, workers, owner, app>>

(* What the adders leave alone.                                            *)
rest    == <<outside, cur, cqres, owner, app>>

Least(S) == CHOOSE x \in S : \A y \in S : x <= y

-----------------------------------------------------------------------------
(* Requests: set_request, the adders and list_delete_node.                 *)

(*                                                                         *)
(* heap is a function on the addresses allocated.  An address is named     *)
(* after the request it was last allocated for, with a number that keeps   *)
(* those that live at the same time apart; malloc takes the lowest, so     *)
(* that an address freed is used again as soon as possible.                *)
Request(type, fd, conn, data) ==
  [type |-> type, fd |-> fd, conn |-> conn, data |-> data, want |-> None,
   prev |-> FALSE]

Address(r, k) == <<r.type, r.fd, k>>

Malloc(r) == LET used == {k \in 1 .. Cardinality(DOMAIN heap) :
                            Address(r, k) \in DOMAIN heap}
             IN  Address(r, Least((1 .. Cardinality(used) + 1) \ used))

(* list_insert appends a node for the pointer: the list is a bag, because  *)
(* the order of its nodes shows in nothing.                                *)
ListInsert(q) == list' = list (+) SetToBag({q})

(* An adder allocates the request, registers it in the list and submits it *)
(* to ring sel under m_rings[sel].  The kernel takes its reference to the  *)
(* file of the descriptor at the submission.                               *)
Insert(sel, r, others) ==
  LET q == Malloc(r)
  IN  /\ heap' = [p \in DOMAIN others \cup {q} |->
                     IF p = q THEN r ELSE others[p]]
      /\ ListInsert(q)
      /\ inflight' = [inflight EXCEPT ![sel] = @ \cup {q}]
      /\ UNCHANGED cq

Add(sel, r) == Insert(sel, r, heap) /\ UNCHANGED prevs

File(f) == IF f \in Fds THEN file[f] ELSE None

AddAccept == Add(0, Request("accept", ACCEPT_FD, None, <<>>))
AddEfd(r) == Add(r, Request("read", EFD(r), None, <<>>))

(* next() updates s->next with no lock, from any worker and any sender: a  *)
(* data race, so that the caller may get the number of any ring.           *)
NextRing == Rings

AddRead(f) ==
  \E sel \in NextRing : Add(sel, Request("read", f, File(f), <<>>))

(* Mutant: what was read is not taken over.                                *)
AddReadContinue_Fresh(q) ==
  /\ \E sel \in NextRing :
       Insert(sel, Request("read", heap[q].fd, File(heap[q].fd), <<>>),
              [heap EXCEPT ![q].prev = TRUE])
  /\ prevs' = prevs \cup {heap[q].conn}

(* The continuation takes over what was read, prev.                        *)
AddReadContinue(q) ==
  /\ \E sel \in NextRing :
       Insert(sel, [heap[q] EXCEPT !.conn = File(heap[q].fd), !.prev = TRUE],
              [heap EXCEPT ![q].prev = TRUE])
  /\ prevs' = prevs \cup {heap[q].conn}

AddWrite(k) ==
  \E sel \in NextRing :
    Add(sel, [Request("write", k.fd, File(k.fd), <<>>) EXCEPT !.want = k.conn])

Free(q) == Restrict(heap, DOMAIN heap \ {q})

(* Mutant: nodes are told apart by the descriptor of their requests.       *)
ListDelete_BySocket(q) ==
  /\ \E p \in BagToSet(list) \cap DOMAIN heap :
       /\ heap[p].fd = heap[q].fd
       /\ list' = list (-) SetToBag({p}) /\ heap' = Free(p)
  /\ UNCHANGED prevs

(* The first node that holds the pointer is unlinked and freed with it.    *)
ListDelete(q) ==
  /\ IF BagIn(q, list)
       THEN list' = list (-) SetToBag({q}) /\ heap' = Free(q)
       ELSE UNCHANGED <<heap, list>>
  /\ UNCHANGED prevs

(* Every node is freed with its pointer.                                   *)
ListFree ==
  /\ list' = EmptyBag
  /\ heap' = Restrict(heap, DOMAIN heap \ BagToSet(list))
  /\ UNCHANGED prevs

-----------------------------------------------------------------------------
(* Peers.                                                                  *)

Peer(c, from, to) == peer[c] = from /\ peer' = [peer EXCEPT ![c] = to]

PeerConnect(c) ==
  /\ Peer(c, "away", "open")
  /\ backlog' = backlog \cup {c}
  /\ UNCHANGED <<sent, taken, file, ringv, reqs, workers, owner, app>>

PeerSend(c) ==
  /\ peer[c] = "open" /\ sent[c] < MaxSent
  /\ sent' = [sent EXCEPT ![c] = @ + 1]
  /\ UNCHANGED <<peer, taken, backlog, file, ringv, reqs, workers, owner, app>>

PeerClose(c) ==
  /\ \/ Peer(c, "open", "gone")
     \/ "reset" \in Failing /\ Peer(c, "open", "reset")
  /\ UNCHANGED <<sent, taken, backlog, file, ringv, reqs, workers, owner, app>>

-----------------------------------------------------------------------------
(* The kernel completes request q of ring r.                               *)

Post(r, q, res) ==
  /\ q \in inflight[r]
  /\ Len(cq[r]) < CqSize
  /\ inflight' = [inflight EXCEPT ![r] = @ \ {q}]
  /\ cq' = [cq EXCEPT ![r] = Append(@, [req |-> q, res |-> res])]
  /\ UNCHANGED <<list, prevs, peer, sent, workers, status, opc, oi, app>>

FreeFds == {f \in Fds : file[f] = None}

(* Accept takes a connection of the backlog and gives it the lowest free   *)
(* descriptor; with none left it fails (EMFILE).                           *)
CompleteAccept(r, q) ==
  /\ heap[q].type = "accept"
  /\ \/ \E c \in backlog :
          /\ FreeFds # {}
          /\ LET f == Least(FreeFds)
             IN  file' = [file EXCEPT ![f] = c] /\ Post(r, q, f)
          /\ backlog' = backlog \ {c}
     \/ backlog # {} /\ FreeFds = {} /\ Post(r, q, -1)
        /\ UNCHANGED <<backlog, file>>
  /\ UNCHANGED <<taken, heap, efd>>

(* A fresh read has room for one segment, a continuation for the rest of   *)
(* its message, or of what the server takes for one where it has lost its  *)
(* place; the kernel gives what has arrived of that.                       *)
Rooms(q) ==
  IF ~heap[q].prev THEN {1}
  ELSE IF heap[q].conn \in torn THEN 1 .. MaxSent
  ELSE {Parts - Len(heap[q].data)}

Segments(c, n) == [i \in 1 .. n |-> <<c, taken[c] + i>>]

CompleteData(r, q) ==
  /\ heap[q].type = "read"
  /\ LET c == heap[q].conn
     IN  /\ c # None
         /\ peer[c] # "reset"
         /\ \E room \in Rooms(q) : \E n \in 1 .. room :
              /\ n <= sent[c] - taken[c]
              /\ n = room \/ n = sent[c] - taken[c]
              /\ heap' = [heap EXCEPT ![q].data = @ \o Segments(c, n)]
              /\ taken' = [taken EXCEPT ![c] = @ + n]
              /\ Post(r, q, n)
  /\ UNCHANGED <<backlog, file, efd>>

(* End of file once everything was read, an error after a reset and on a   *)
(* descriptor that was closed before the submission.                       *)
CompleteEnd(r, q) ==
  /\ heap[q].type = "read" /\ heap[q].fd # EFD(r)
  /\ LET c == heap[q].conn
     IN  IF c # None /\ peer[c] = "gone"
         THEN sent[c] = taken[c] /\ Post(r, q, 0)
         ELSE (c # None => peer[c] = "reset") /\ Post(r, q, -1)
  /\ UNCHANGED <<taken, backlog, file, heap, efd>>

CompleteEfd(r, q) ==
  /\ heap[q].fd = EFD(r) /\ efd[r] > 0
  /\ efd' = [efd EXCEPT ![r] = 0]
  /\ Post(r, q, 1)
  /\ UNCHANGED <<taken, backlog, file, heap>>

WriteResults(c) ==
  CASE c = None           -> {-1}
    [] peer[c] = "open"   -> {1}
    [] peer[c] = "reset"  -> {-1}
    [] OTHER              -> IF "pipe" \in Failing THEN {1, -1} ELSE {1}

CompleteWrite(r, q) ==
  /\ heap[q].type = "write"
  /\ \E res \in WriteResults(heap[q].conn) : Post(r, q, res)
  /\ UNCHANGED <<taken, backlog, file, heap, efd>>

Complete(r) ==
  \E q \in inflight[r] :
    \/ CompleteAccept(r, q) \/ CompleteData(r, q) \/ CompleteEnd(r, q)
    \/ CompleteEfd(r, q)    \/ CompleteWrite(r, q)

-----------------------------------------------------------------------------
(* The workers.                                                            *)

Go(w, from, to) == wpc[w] = from /\ wpc' = [wpc EXCEPT ![w] = to]

(* The entry was released by io_uring_cqe_seen before the switch, and the  *)
(* handlers still read its res field: the kernel has written over it once  *)
(* the other entries of the queue are in use.                              *)
Result(w) == IF Len(cq[w]) = CqSize THEN Last(cq[w]).res ELSE cqres[w]

(* A thread of the pool takes the task saurion_start added, whose first    *)
(* step is to watch the eventfd of its ring.                               *)
StartEfd(w) ==
  /\ Go(w, "queued", IF w = 0 THEN "add_accept" ELSE "ready")
  /\ AddEfd(w)
  /\ UNCHANGED rest

StartAccept(w) ==
  /\ Go(w, "add_accept", "ready")
  /\ AddAccept
  /\ UNCHANGED rest

Ready(w) ==
  /\ Go(w, "ready", "wait")
  /\ status' = 1
  /\ UNCHANGED <<outside, ringv, reqs, cur, cqres, efd, opc, oi, app>>

(* io_uring_wait_cqe failed: the worker returns.                           *)
WaitFails(w) ==
  /\ "wait" \in Failing
  /\ Go(w, "wait", "dead")
  /\ UNCHANGED <<outside, ringv, reqs, cur, cqres, owner, app>>

(* The request failed: it is freed, stays in the list, and the worker      *)
(* returns, with the entry not released.                                   *)
ReapFailure(w) ==
  /\ cq[w] # <<>> /\ Head(cq[w]).res < 0
  /\ Go(w, "wait", "dead")
  /\ heap' = Free(Head(cq[w]).req)
  /\ UNCHANGED <<outside, ringv, list, prevs, cur, cqres, owner, app>>

(* The stop signal: the loop ends.                                         *)
ReapedStop(w) ==
  /\ cq[w] # <<>> /\ Head(cq[w]).res >= 0
  /\ heap[Head(cq[w]).req].fd = EFD(w)
  /\ Go(w, "wait", "exit")
  /\ cq' = [cq EXCEPT ![w] = Tail(@)]
  /\ UNCHANGED <<outside, inflight, cur, cqres, owner, app>>

(* Mutant: the request of the eventfd is not deleted.                      *)
ReapStop_Kept(w) == ReapedStop(w) /\ UNCHANGED reqs

ReapStop(w) == ReapedStop(w) /\ ListDelete(Head(cq[w]).req)

Reap(w) ==
  /\ cq[w] # <<>> /\ Head(cq[w]).res >= 0
  /\ heap[Head(cq[w]).req].fd # EFD(w)
  /\ Go(w, "wait", heap[Head(cq[w]).req].type)
  /\ cur' = [cur EXCEPT ![w] = Head(cq[w]).req]
  /\ cqres' = [cqres EXCEPT ![w] = Head(cq[w]).res]
  /\ cq' = [cq EXCEPT ![w] = Tail(@)]
  /\ UNCHANGED <<outside, inflight, reqs, owner, app>>

(* handle_accept, then add_accept, then add_read.                          *)
OnConnected(w) ==
  /\ told' = [told EXCEPT ![Result(w)] = File(Result(w))]
  /\ UNCHANGED <<outside, ringv, reqs, cur, cqres, owner,
                 got, torn, ended, calls, sends, wrote, erred>>

HandleAccept(w) == Go(w, "accept", "accept_again") /\ OnConnected(w)

AcceptAgain(w) ==
  Go(w, "accept_again", "accept_read") /\ AddAccept /\ UNCHANGED rest

AcceptRead(w) ==
  Go(w, "accept_read", "delete") /\ AddRead(Result(w)) /\ UNCHANGED rest

(* Mutant: the first read is armed before on_connected.                    *)
Accept_ReadFirst(w) ==
  \/ Go(w, "accept", "accept_again") /\ AddRead(Result(w)) /\ UNCHANGED rest
  \/ AcceptAgain(w)
  \/ Go(w, "accept_read", "delete") /\ OnConnected(w)

Accept(w) == HandleAccept(w) \/ AcceptAgain(w) \/ AcceptRead(w)

(* EVENT_TYPE_READ: cqe->res is read once for each of the three tests, the *)
(* last one after handle_close returned.                                   *)
OnError(w) == erred' = (erred \/ Result(w) < 0)

DispatchRead(w) ==
  /\ Go(w, "read", IF Result(w) < 1 THEN "closing" ELSE "data")
  /\ OnError(w)
  /\ UNCHANGED <<outside, ringv, reqs, cur, cqres, owner,
                 told, got, torn, ended, calls, sends, wrote>>

Fd(w) == heap[cur[w]].fd

(* handle_close: on_closed, then close().                                  *)
OnClosed(w) ==
  /\ told' = [told EXCEPT ![Fd(w)] = None]
  /\ ended' = ended \cup {told[Fd(w)]}
  /\ UNCHANGED <<outside, ringv, reqs, cur, cqres, owner,
                 got, torn, calls, sends, wrote, erred>>

CloseFd(w) ==
  /\ file' = [file EXCEPT ![Fd(w)] = None]
  /\ UNCHANGED <<peer, sent, taken, backlog, ringv, reqs, cur, cqres, owner,
                 app>>

(* Mutant: close() before on_closed.                                       *)
HandleClose_CloseFirst(w) ==
  \/ Go(w, "closing", "closed") /\ CloseFd(w)
  \/ Go(w, "closed", "delete") /\ OnClosed(w)

HandleClose(w) ==
  \/ Go(w, "closing", "closed") /\ OnClosed(w)
  \/ Go(w, "closed", IF Result(w) > 0 THEN "data" ELSE "delete") /\ CloseFd(w)

(* handle_read: the first segment of a longer message is carried over to a *)
(* request for the rest.  All else goes to on_readed and the descriptor is *)
(* read again, through any ring: a message of one segment, the zeros of a  *)
(* buffer that nothing was read into, and what a continuation has, which   *)
(* is taken for the whole rest whatever it holds, as only the length of    *)
(* its last buffer is set from the result.                                 *)
(*                                                                         *)
(* A message handed over with segments missing is completed with zeros,    *)
(* and the next read starts in the middle of it: from then on what the     *)
(* server takes for messages is noise, of any length.  The connection is   *)
(* torn, and got keeps what was received before.                           *)
Whole(q) == Parts = 1 \/ heap[q].prev \/ heap[q].data = <<>>

Torn(q) == heap[q].conn \in torn

Tears(q) == Torn(q) \/ Len(heap[q].data) < Parts

OnReaded(w) ==
  /\ Go(w, "data", "read_again")
  /\ Whole(cur[w]) \/ Torn(cur[w])
  /\ IF Tears(cur[w])
       THEN torn' = torn \cup {heap[cur[w]].conn} /\ UNCHANGED got
       ELSE /\ got' = [got EXCEPT ![told[Fd(w)]] = @ \o heap[cur[w]].data]
            /\ UNCHANGED torn
  /\ heap' = [heap EXCEPT ![cur[w]].prev = FALSE]
  /\ prevs' = prevs \ {heap[cur[w]].conn}
  /\ UNCHANGED <<outside, ringv, list, cur, cqres, owner,
                 told, ended, calls, sends, wrote, erred>>

(* Mutants: the break after the case is lost, so that the case of writes   *)
(* runs too; handle_read returns without reading again.                    *)
ReadAgain_FallsThrough(w) ==
  Go(w, "read_again", "write") /\ AddRead(Fd(w)) /\ UNCHANGED rest

ReadAgain_Dropped(w) ==
  Go(w, "read_again", "delete") /\ UNCHANGED <<ringv, reqs, rest>>

ReadAgain(w) ==
  Go(w, "read_again", "delete") /\ AddRead(Fd(w)) /\ UNCHANGED rest

(* Mutant: the return after add_read_continue is lost, so that add_read is *)
(* called too.                                                             *)
ReadRest_NoReturn(w) ==
  /\ Go(w, "data", "read_again")
  /\ ~Whole(cur[w]) \/ Torn(cur[w])
  /\ AddReadContinue(cur[w])
  /\ UNCHANGED rest

ReadRest(w) ==
  /\ Go(w, "data", "delete")
  /\ ~Whole(cur[w]) \/ Torn(cur[w])
  /\ AddReadContinue(cur[w])
  /\ UNCHANGED rest

OnWrote ==
  /\ wrote' = wrote + 1
  /\ UNCHANGED <<outside, ringv, reqs, cqres, owner,
                 told, got, torn, ended, calls, sends, erred>>

(* Mutants: the request of a write is not deleted; on_wrote is called only *)
(* when it is not set.                                                     *)
HandleWrite_Silent(w) ==
  Go(w, "write", "delete") /\ UNCHANGED <<ringv, reqs, rest>>

HandleWrite_Kept(w) ==
  Go(w, "write", "wait") /\ OnWrote /\ cur' = [cur EXCEPT ![w] = None]

HandleWrite(w) == Go(w, "write", "delete") /\ OnWrote /\ UNCHANGED cur

Delete(w) ==
  /\ Go(w, "delete", "wait")
  /\ ListDelete(cur[w])
  /\ cur' = [cur EXCEPT ![w] = None]
  /\ cqres' = [cqres EXCEPT ![w] = 0]
  /\ UNCHANGED <<outside, ringv, owner, app>>

Exit(w) ==
  /\ Go(w, "exit", "done")
  /\ status' = 2
  /\ UNCHANGED <<outside, ringv, reqs, cur, cqres, efd, opc, oi, app>>

Worker(w) ==
  \/ StartEfd(w) \/ StartAccept(w) \/ Ready(w)
  \/ ReapFailure(w) \/ ReapStop(w) \/ Reap(w)
  \/ Accept(w) \/ DispatchRead(w) \/ HandleClose(w)
  \/ OnReaded(w) \/ ReadAgain(w) \/ ReadRest(w) \/ HandleWrite(w)
  \/ Delete(w) \/ Exit(w)

-----------------------------------------------------------------------------
(* saurion_send is called by an application that sends on the descriptors  *)
(* it was told of and stops when on_closed is called.  The request is      *)
(* submitted once the mutex of the ring was had, and by then the           *)
(* descriptor may be another connection's.                                 *)
Send ==
  /\ opc \in {"running", "stopping", "draining"}
  /\ sends < MaxSends
  /\ sends' = sends + 1
  /\ \E f \in Fds :
       /\ told[f] # None
       /\ calls' = calls \cup {[no |-> sends', fd |-> f, conn |-> told[f]]}
  /\ UNCHANGED <<outside, ringv, reqs, workers, owner,
                 told, got, torn, ended, wrote, erred>>

Submit ==
  /\ \E k \in calls : AddWrite(k) /\ calls' = calls \ {k}
  /\ UNCHANGED <<outside, workers, owner,
                 told, got, torn, ended, sends, wrote, erred>>

-----------------------------------------------------------------------------
(* saurion_start, saurion_stop and saurion_destroy, in this order.         *)

Owner(from, to) == opc = from /\ opc' = to

(* One task for the pool: the master's, then those of the slaves.          *)
StartTask ==
  /\ Owner("starting", IF oi = N - 1 THEN "running" ELSE "starting")
  /\ wpc' = [wpc EXCEPT ![oi] = "queued"]
  /\ oi' = IF oi = N - 1 THEN 0 ELSE oi + 1
  /\ UNCHANGED <<outside, ringv, reqs, cur, cqres, efd, status, app>>

Stop ==
  /\ Stops
  /\ Owner("running", "stopping")
  /\ UNCHANGED <<outside, ringv, reqs, workers, efd, status, oi, app>>

SignalUpTo(last) ==
  /\ Owner("stopping", IF oi = last THEN "draining" ELSE "stopping")
  /\ efd' = [efd EXCEPT ![oi] = 1]
  /\ oi' = oi + 1
  /\ UNCHANGED <<outside, ringv, reqs, workers, status, app>>

(* Mutant: the last eventfd is forgotten.                                  *)
StopSignal_AllButLast == SignalUpTo(N - 2)

StopSignal == SignalUpTo(N - 1)

(* ThreadPool_wait_empty: no task is left in the queue of the pool.        *)
StopDrained ==
  /\ Owner("draining", "stopped")
  /\ \A w \in Rings : wpc[w] # "queued"
  /\ UNCHANGED <<outside, ringv, reqs, workers, efd, status, oi, app>>

(* The caller of saurion_destroy has seen its calls of saurion_send end.   *)
Destroy ==
  /\ Owner("stopped", "destroying")
  /\ calls = {}
  /\ UNCHANGED <<outside, ringv, reqs, workers, efd, status, oi, app>>

DestroyWait ==
  /\ Owner("destroying", "joining")
  /\ status # 1
  /\ UNCHANGED <<outside, ringv, reqs, workers, efd, status, oi, app>>

(* ThreadPool_destroy joins the threads of the pool, the rings are closed  *)
(* and everything the list still holds is freed; the process aborts if a   *)
(* pointer in it was freed before, or is there twice.                      *)
DestroyFree ==
  /\ Owner("joining", IF list = SetToBag(BagToSet(list) \cap DOMAIN heap)
                      THEN "freed" ELSE "aborted")
  /\ \A w \in Rings : wpc[w] \in {"done", "dead"}
  /\ inflight' = [r \in Rings |-> {}]
  /\ cq' = [r \in Rings |-> <<>>]
  /\ ListFree
  /\ UNCHANGED <<outside, workers, efd, status, oi, app>>

OwnerStep == StartTask \/ StopSignal \/ StopDrained \/ Destroy
             \/ DestroyWait \/ DestroyFree

-----------------------------------------------------------------------------
(* saurion_create, and the caller in saurion_start.                        *)
Init ==
  /\ peer = [c \in Conns |-> "away"]
  /\ sent = [c \in Conns |-> 0] /\ taken = [c \in Conns |-> 0]
  /\ backlog = {} /\ file = [f \in Fds |-> None]
  /\ inflight = [r \in Rings |-> {}] /\ cq = [r \in Rings |-> <<>>]
  /\ heap = EmptyBag /\ list = EmptyBag /\ prevs = {}
  /\ wpc = [w \in Rings |-> "none"]
  /\ cur = [w \in Rings |-> None] /\ cqres = [w \in Rings |-> 0]
  /\ efd = [r \in Rings |-> 0] /\ status = 0
  /\ opc = "starting" /\ oi = 0
  /\ told = [f \in Fds |-> None]
  /\ got = [c \in Conns \cup {None} |-> <<>>]
  /\ torn = {} /\ ended = {}
  /\ calls = {} /\ sends = 0 /\ wrote = 0 /\ erred = FALSE

Next ==
  \/ \E c \in Conns : PeerConnect(c) \/ PeerSend(c) \/ PeerClose(c)
  \/ \E r \in Rings : Complete(r) \/ Worker(r) \/ WaitFails(r)
  \/ Send \/ Submit \/ Stop \/ OwnerStep

Spec == Init /\ [][Next]_vars

(* The threads of the process run, and the kernel completes what can be    *)
(* completed.  Peers, the decisions to send and to stop owe nothing.       *)
Fairness ==
  /\ \A r \in Rings : WF_vars(Complete(r)) /\ WF_vars(Worker(r))
  /\ WF_vars(Submit) /\ WF_vars(OwnerStep)

FairSpec == Spec /\ Fairness

-----------------------------------------------------------------------------
(* Properties.                                                             *)

(* The values every variable keeps to: in particular a worker holds a      *)
(* request in the handlers and only there, whatever ring it came through,  *)
(* and no descriptor that is not a connection's is ever in its hands.      *)
Handling == {"accept", "accept_again", "accept_read", "read", "closing",
             "closed", "data", "read_again", "write", "delete"}

Held(r) == inflight[r] \cup {cq[r][i].req : i \in DOMAIN cq[r]}
           \cup ({cur[r]} \ {None})

TypeOK ==
  /\ \A c \in Conns : peer[c] \in {"away", "open", "gone", "reset"}
  /\ \A c \in Conns : 0 <= taken[c] /\ taken[c] <= sent[c]
  /\ file \in [Fds -> Conns \cup {None}] /\ backlog \subseteq Conns
  /\ \A r \in Rings : Len(cq[r]) <= CqSize
  /\ \A q \in DOMAIN heap :
       heap[q].fd \in Fds \cup {ACCEPT_FD} \cup {EFD(r) : r \in Rings}
  /\ \A w \in Rings : cur[w] # None <=> wpc[w] \in Handling
  /\ told \in [Fds -> Conns \cup {None}]
  /\ ended \subseteq Conns /\ torn \subseteq Conns
  /\ calls \subseteq [no : 1 .. sends, fd : Fds, conn : Conns]
  /\ got[None] = <<>> /\ wrote <= sends
  /\ status \in 0 .. 2 /\ oi \in 0 .. N

Alive(w) == wpc[w] # "dead"
AllAlive == \A w \in Rings : Alive(w)

(* As long as no worker died, the list is exactly what low_saurion.c has   *)
(* in its hands: every request in a ring, in a completion queue or in a    *)
(* handler, once, and nothing else.  Each request is therefore freed once, *)
(* by its handler or by list_free.                                         *)
Registry ==
  AllAlive /\ opc # "freed" =>
    /\ list = SetToBag(DOMAIN heap)
    /\ DOMAIN heap = UNION {Held(r) : r \in Rings}

(* A descriptor is read by one request at a time, although the rearming    *)
(* goes through any ring: nothing else keeps the segments of a connection  *)
(* in order.                                                               *)
Reading(f) == {q \in UNION {inflight[r] \cup {cq[r][i].req : i \in DOMAIN cq[r]}
                              : r \in Rings} :
                 q \in DOMAIN heap /\ heap[q].type = "read" /\ heap[q].fd = f}

OneReader == \A f \in Fds : Cardinality(Reading(f)) <= 1

(* A handler finds in the entry it gave back the result it was given: the  *)
(* kernel writes over it only when as many requests as the queue has       *)
(* entries complete meanwhile.                                             *)
ResultKept == \A w \in Rings : wpc[w] \in Handling => Result(w) = cqres[w]

(* The requests of which all that is left to do is to delete them.         *)
Deleting == {cur[w] : w \in {v \in Rings : wpc[v] = "delete"}}

(* The messages submitted and not confirmed by on_wrote yet.               *)
Unconfirmed ==
  {q \in DOMAIN heap \ Deleting : heap[q].type = "write"}

(* A completion queue has room for all that can complete at a time: the    *)
(* accept, the read of an eventfd, a read of each descriptor, and the      *)
(* messages not confirmed yet.  saurion_create asks for the same number of *)
(* entries, SAURION_RING_SIZE, whatever the number of connections.         *)
RoomLeft ==
  IsFiniteSet(Fds) /\ Cardinality(Fds) + Cardinality(Unconfirmed) + 2 < CqSize

(* As long as there is that room no handler finds its result written over, *)
(* although it gave the entry back before it reads it: nothing else ever   *)
(* waits in a queue, and nothing of that twice.                            *)
KeptWhileRoom == []RoomLeft => []ResultKept

(* The memory of a message that is carried over, as long as no worker      *)
(* died: a request that points to it never finds it freed, unless all that *)
(* is left to do with the request is to delete it, and it is lost only     *)
(* with a connection that closed in the middle of the message.             *)
Carrying == {heap[q].conn : q \in {p \in DOMAIN heap \ Deleting : heap[p].prev}}

CarriedOwned ==
  AllAlive /\ opc # "freed" =>
    Carrying \subseteq prevs /\ prevs \ ended \subseteq Carrying

(* The kernel never holds a request that was freed, although failures free *)
(* requests that stay listed and their addresses are used again.           *)
KernelHoldsLive ==
  \A r \in Rings :
    /\ inflight[r] \subseteq DOMAIN heap
    /\ \A p \in Rings \ {r} : inflight[p] \cap inflight[r] = {}

(* What on_readed was called with for a connection, as long as the server  *)
(* has its place in it, is a prefix of what the peer sent, in order,       *)
(* message by message, and no message is credited to a descriptor the      *)
(* application does not know.                                              *)
Delivered ==
  /\ \A c \in Conns : \A i \in DOMAIN got[c] : got[c][i] = <<c, i>>
  /\ \A c \in Conns : Len(got[c]) % Parts = 0
  /\ got[None] = <<>>

(* A message given to saurion_send for a connection is written to that     *)
(* connection, or on_closed was called for it before the message was       *)
(* submitted: the descriptor is not recycled while the connection is open, *)
(* but it may be under a call of saurion_send.                             *)
RightWhileOpen ==
  \A q \in DOMAIN heap :
    heap[q].type = "write" =>
      heap[q].conn = heap[q].want \/ heap[q].want \in ended

(* Every message given to saurion_send is confirmed by on_wrote once: the  *)
(* call is in progress, or its request is, up to on_wrote and no longer,   *)
(* or a worker died or the server was freed.                               *)
WritesConfirmed ==
  AllAlive /\ opc # "freed" =>
    sends = wrote + Cardinality(Unconfirmed) + Cardinality(calls)

(* The callbacks of every connection follow the protocol of Sessions, for  *)
(* which a connection that was reset is one that ended: nothing is lost,   *)
(* added or late before the server loses its place, which it does only in  *)
(* a message longer than two buffers.                                      *)
ServesSessions ==
  INSTANCE Sessions WITH
    peer <- [c \in Conns |-> IF peer[c] = "reset" THEN "gone" ELSE peer[c]],
    told <- [c \in Conns |-> IF c \in ended THEN "closed"
                             ELSE IF c \in torn THEN "torn"
                             ELSE IF \E f \in Fds : told[f] = c
                             THEN "connected" ELSE "nothing"],
    read <- [c \in Conns |-> Len(got[c])]
SessionsKept == ServesSessions!Spec

(* saurion_stop and saurion_destroy finish, from any state of the workers. *)
StopEnds == opc = "stopping" ~> opc = "freed"

Stopping == opc \notin {"starting", "running"}

(* Every whole message is delivered, unless the owner stops the server or  *)
(* the server lost its place in the connection.                            *)
MessagesDelivered ==
  \A c \in Conns : \A k \in 1 .. MaxSent \div Parts :
    (sent[c] >= k * Parts)
      ~> (Len(got[c]) >= k * Parts \/ c \in torn \/ Stopping)

(* The end of every connection is reported, unless the owner stops.        *)
CloseReported ==
  \A c \in Conns : (peer[c] = "gone") ~> (c \in ended \/ Stopping)

(* include/low_saurion.h:114 says that the event loop runs until it        *)
(* receives a stop signal.                                                 *)
LoopsUntilStop == \A w \in Rings : wpc[w] = "dead" => Stopping
=============================================================================
