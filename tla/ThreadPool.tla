----------------------------- MODULE ThreadPool -----------------------------
(***************************************************************************)
(* The task pool of threadpool/src/threadpool.cpp: worker threads that     *)
(* take tasks from several FIFO queues, each with its own limit of tasks   *)
(* in execution, and client threads that call the public methods.          *)
(*                                                                         *)
(* Every critical section of m_q_mtx is one action; what the code does     *)
(* outside it (the reads of m_fstop and m_faccept, the execution of a      *)
(* task) is an action of its own.  pthread_cond_wait puts the thread in    *)
(* the wait set of m_q_cond; a thread that leaves the wait set evaluates   *)
(* the condition of its loop again, as the code does.                      *)
(***************************************************************************)
EXTENDS Integers, FiniteSets, SequencesExt

CONSTANTS
  Workers,  (* the m_nth thread slots of m_ths                             *)
  Clients,  (* threads that call the pool                                  *)
  Owner,    (* the client that calls init(), stop() and the destructor     *)
  Tasks,    (* task identities; each is accepted at most once              *)
  Qids,     (* queue identifiers; 0 is the default queue                   *)
  Limits,   (* the values clients pass as cnt to new_queue()               *)
  CntMod,   (* m_cnt is a uint32_t: arithmetic modulo CntMod (2^32)        *)
  Program,  (* the public methods each client calls                        *)
  NoTask,   (* a worker's task pointer when it has none                    *)
  Erased    (* m_it after the element it designates was erased             *)

Methods == {"init", "reinit", "stop", "add", "new_queue", "remove_queue",
            "wait_empty"}

ASSUME PoolAssumption ==
  /\ IsFiniteSet(Workers) /\ Cardinality(Workers) >= 2
  /\ Workers \cap Clients = {}
  /\ Owner \in Clients
  /\ Qids \subseteq Nat /\ 0 \in Qids
  /\ Limits \subseteq Nat
  /\ CntMod \in Nat /\ CntMod > Cardinality(Workers)
  /\ Program \in [Clients -> SUBSET Methods]
  /\ NoTask \notin Tasks
  /\ Erased \notin Qids

VARIABLES
  m_slots,   (* the slots init() creates threads for: all, none after stop *)
  m_ths,     (* the threads created; m_started is its cardinality          *)
  m_faccept, (* add() is allowed                                           *)
  m_fstop,   (* the workers must leave their loop                          *)
  m_queues,  (* the queue identifiers, in the iteration order of the map   *)
  m_queue,   (* the tasks waiting in each queue                            *)
  m_max,     (* its limit, 0 for none                                      *)
  m_cnt,     (* its number of tasks in execution                           *)
  m_it,      (* the queue front() served last                              *)
  waiting,   (* the wait set of m_q_cond                                   *)
  pc,        (* the position of every thread                               *)
  task, qid, (* thread_worker()'s locals                                   *)
  arg,       (* the queue and the task of the add() in progress            *)
  crashed    (* front() advanced an erased iterator and the process died   *)

(* History variables, read by no guard: what add() has accepted, what has  *)
(* been executed, what remove_queue() discarded, what was accepted when    *)
(* stop() was called, and the workers whose queue was deleted under them.  *)
VARIABLES accepted, done, dropped, owed, orphan

flags   == <<m_slots, m_ths, m_faccept, m_fstop>>
queues  == <<m_queues, m_queue, m_max, m_cnt, m_it>>
threads == <<pc, task, qid, arg>>
history == <<accepted, done, dropped, owed, orphan>>
vars    == <<flags, queues, waiting, threads, crashed, history>>

Threads == Workers \cup Clients
NoArg   == <<>>

-----------------------------------------------------------------------------
(* AsyncMultiQueue and AsyncQueue.                                         *)

Present == ToSet(m_queues)

Empty == \A q \in Present : m_queue[q] = <<>>

(* Mutant: one task too many.                                              *)
AtLimit_OffByOne(q) == m_max[q] # 0 /\ m_cnt[q] > m_max[q]

AtLimit(q) == m_max[q] # 0 /\ m_cnt[q] >= m_max[q]

Position(q) == CHOOSE i \in DOMAIN m_queues : m_queues[i] = q

(* The increments that take the iterator of front() from p to q, past the  *)
(* end of the map and around.                                              *)
Distance(p, q) ==
  LET d == Position(q) - Position(p)
  IN  IF d > 0 THEN d ELSE d + Len(m_queues)

(* The queue front() stops at: the first one with tasks after m_it.  From  *)
(* an erased element the walk can start anywhere.                          *)
NextQueue(q) ==
  /\ q \in Present
  /\ m_queue[q] # <<>>
  /\ m_it # Erased =>
       \A r \in Present :
         m_queue[r] # <<>> => Distance(m_it, q) <= Distance(m_it, r)

Pending == UNION {ToSet(m_queue[q]) : q \in Qids}
Running == {task[w] : w \in Workers} \ {NoTask}

-----------------------------------------------------------------------------
(* m_q_cond.                                                               *)

CondSignal ==
  \/ waiting = {} /\ UNCHANGED waiting
  \/ \E t \in waiting : waiting' = waiting \ {t}

CondBroadcast == waiting' = {}

(* pthread_cond_wait may return without a signal.                          *)
SpuriousWakeup ==
  /\ \E t \in waiting : waiting' = waiting \ {t}
  /\ UNCHANGED <<flags, queues, threads, crashed, history>>

Go(t, from, to) == pc[t] = from /\ pc' = [pc EXCEPT ![t] = to]

-----------------------------------------------------------------------------
(* thread_worker() and wait_closeable().                                   *)

WorkerLoop(w) ==
  /\ Go(w, "loop", IF m_fstop = 0 THEN "front" ELSE "exited")
  /\ UNCHANGED <<flags, queues, waiting, task, qid, arg, crashed, history>>

(* front() throws: no queue has a task, or the queue it stops at is at its *)
(* limit.                                                                  *)
FrontThrows(w) ==
  /\ Go(w, "front", "closeable")
  /\ \/ Empty
     \/ \E q \in Present : NextQueue(q) /\ AtLimit(q)
  /\ UNCHANGED <<flags, queues, waiting, task, qid, arg, crashed, history>>

(* Mutant: front() does not remove the task from its queue.                *)
FrontTakes_Peek(w) ==
  /\ Go(w, "front", "run")
  /\ \E q \in Present :
       /\ NextQueue(q) /\ ~AtLimit(q)
       /\ task' = [task EXCEPT ![w] = Head(m_queue[q])]
       /\ qid' = [qid EXCEPT ![w] = q]
       /\ m_cnt' = [m_cnt EXCEPT ![q] = (@ + 1) % CntMod]
       /\ m_it' = q
  /\ CondSignal
  /\ UNCHANGED <<flags, m_queues, m_queue, m_max, arg, crashed, history>>

FrontTakes(w) ==
  /\ Go(w, "front", "run")
  /\ \E q \in Present :
       /\ NextQueue(q) /\ ~AtLimit(q)
       /\ task' = [task EXCEPT ![w] = Head(m_queue[q])]
       /\ qid' = [qid EXCEPT ![w] = q]
       /\ m_queue' = [m_queue EXCEPT ![q] = Tail(@)]
       /\ m_cnt' = [m_cnt EXCEPT ![q] = (@ + 1) % CntMod]
       /\ m_it' = q
  /\ CondSignal
  /\ UNCHANGED <<flags, m_queues, m_max, arg, crashed, history>>

(* The increment of an iterator to an erased element is undefined: the     *)
(* process may also die.                                                   *)
FrontCrashes(w) ==
  /\ pc[w] = "front" /\ ~Empty /\ m_it = Erased
  /\ crashed' = TRUE
  /\ UNCHANGED <<flags, queues, waiting, threads, history>>

(* The task returns or throws; in both cases it is deleted.                *)
RunTask(w) ==
  /\ Go(w, "run", "pop")
  /\ done' = done \cup {task[w]}
  /\ task' = [task EXCEPT ![w] = NoTask]
  /\ UNCHANGED <<flags, queues, waiting, qid, arg, crashed,
                 accepted, dropped, owed, orphan>>

(* Mutant: pop() wakes a single thread.                                    *)
Pop_Signal(w) ==
  /\ Go(w, "pop", "loop")
  /\ qid[w] \in Present
  /\ m_cnt' = [m_cnt EXCEPT ![qid[w]] = (@ - 1) % CntMod]
  /\ CondSignal
  /\ orphan' = orphan \ {w}
  /\ UNCHANGED <<flags, m_queues, m_queue, m_max, m_it, task, qid, arg,
                 crashed, accepted, done, dropped, owed>>

(* Mutant: m_cnt is a signed integer.                                      *)
Pop_Signed(w) ==
  /\ Go(w, "pop", "loop")
  /\ qid[w] \in Present
  /\ m_cnt' = [m_cnt EXCEPT ![qid[w]] = @ - 1]
  /\ CondBroadcast
  /\ orphan' = orphan \ {w}
  /\ UNCHANGED <<flags, m_queues, m_queue, m_max, m_it, task, qid, arg,
                 crashed, accepted, done, dropped, owed>>

(* Mutant: m_cnt is not decremented.                                       *)
Pop_NoDecrement(w) ==
  /\ Go(w, "pop", "loop")
  /\ qid[w] \in Present
  /\ CondBroadcast
  /\ orphan' = orphan \ {w}
  /\ UNCHANGED <<flags, m_queues, m_queue, m_max, m_cnt, m_it, task,
                 qid, arg, crashed, accepted, done, dropped, owed>>

Pop(w) ==
  /\ Go(w, "pop", "loop")
  /\ qid[w] \in Present
  /\ m_cnt' = [m_cnt EXCEPT ![qid[w]] = (@ - 1) % CntMod]
  /\ CondBroadcast
  /\ orphan' = orphan \ {w}
  /\ UNCHANGED <<flags, m_queues, m_queue, m_max, m_it, task, qid, arg,
                 crashed, accepted, done, dropped, owed>>

(* m_queues.at() throws: the broadcast is skipped.                         *)
PopThrows(w) ==
  /\ Go(w, "pop", "closeable")
  /\ qid[w] \notin Present
  /\ orphan' = orphan \ {w}
  /\ UNCHANGED <<flags, queues, waiting, task, qid, arg, crashed,
                 accepted, done, dropped, owed>>

(* Mutant: the condition is not evaluated under the mutex.                 *)
WaitCloseable_NoRecheck(w) ==
  /\ pc[w] = "closeable" /\ w \notin waiting
  /\ \/ waiting' = waiting \cup {w} /\ UNCHANGED pc
     \/ pc' = [pc EXCEPT ![w] = "loop"] /\ UNCHANGED waiting
  /\ UNCHANGED <<flags, queues, task, qid, arg, crashed, history>>

WaitCloseable(w) ==
  /\ pc[w] = "closeable" /\ w \notin waiting
  /\ IF Empty /\ m_fstop = 0
       THEN waiting' = waiting \cup {w} /\ UNCHANGED pc
       ELSE pc' = [pc EXCEPT ![w] = "loop"] /\ UNCHANGED waiting
  /\ UNCHANGED <<flags, queues, task, qid, arg, crashed, history>>

-----------------------------------------------------------------------------
(* The methods clients call, from C through the functions of               *)
(* cthreadpool.cpp, which pass each call on.                               *)

Calls(c, method) == pc[c] = "idle" /\ method \in Program[c]

(* init() does nothing while threads are started.                          *)
InitCall ==
  /\ Calls(Owner, IF m_slots = {} THEN "reinit" ELSE "init")
  /\ m_ths = {}
  /\ m_faccept' = 1
  /\ m_fstop' = 0
  /\ pc' = [pc EXCEPT ![Owner] = "spawn"]
  /\ UNCHANGED <<m_slots, m_ths, queues, waiting, task, qid, arg, crashed,
                 history>>

InitSpawn ==
  /\ pc[Owner] = "spawn"
  /\ \E w \in m_slots \ m_ths :
       /\ m_ths' = m_ths \cup {w}
       /\ pc' = [pc EXCEPT ![w] = "loop"]
  /\ UNCHANGED <<m_slots, m_faccept, m_fstop, queues, waiting, task, qid,
                 arg, crashed, history>>

InitReturn ==
  /\ Go(Owner, "spawn", "idle")
  /\ m_slots = m_ths
  /\ UNCHANGED <<flags, queues, waiting, task, qid, arg, crashed, history>>

(* stop() does nothing when no thread is started.                          *)
StopCall ==
  /\ Calls(Owner, "stop")
  /\ m_ths # {}
  /\ m_fstop' = 0
  /\ m_faccept' = 0
  /\ pc' = [pc EXCEPT ![Owner] = "stop_drain"]
  /\ owed' = accepted
  /\ UNCHANGED <<m_slots, m_ths, queues, waiting, task, qid, arg, crashed,
                 accepted, done, dropped, orphan>>

(* Mutant: the sleeping workers are not woken.                             *)
StopFlag_NoBroadcast ==
  /\ Go(Owner, "stop_flag", "stop_join")
  /\ m_fstop' = 1
  /\ UNCHANGED <<m_slots, m_ths, m_faccept, queues, waiting, task, qid, arg,
                 crashed, history>>

StopFlag ==
  /\ Go(Owner, "stop_flag", "stop_join")
  /\ m_fstop' = 1
  /\ CondBroadcast
  /\ UNCHANGED <<m_slots, m_ths, m_faccept, queues, task, qid, arg, crashed,
                 history>>

(* Mutant: the threads are not joined.                                     *)
StopJoin_NoJoin ==
  /\ Go(Owner, "stop_join", "idle")
  /\ m_ths' = {}
  /\ m_slots' = {}
  /\ UNCHANGED <<m_faccept, m_fstop, queues, waiting, task, qid, arg,
                 crashed, history>>

(* The join of every thread and the reset of m_started and m_nth.          *)
StopJoin ==
  /\ Go(Owner, "stop_join", "idle")
  /\ \A w \in m_ths : pc[w] = "exited"
  /\ m_ths' = {}
  /\ m_slots' = {}
  /\ UNCHANGED <<m_faccept, m_fstop, queues, waiting, task, qid, arg,
                 crashed, history>>

WaitEmptyCall(c) ==
  /\ Calls(c, "wait_empty")
  /\ pc' = [pc EXCEPT ![c] = "wait_empty"]
  /\ UNCHANGED <<flags, queues, waiting, task, qid, arg, crashed, history>>

(* Mutant: only the default queue is awaited.                              *)
WaitEmpty_DefaultQueue(c) ==
  /\ pc[c] \in {"wait_empty", "stop_drain"} /\ c \notin waiting
  /\ IF m_queue[0] = <<>>
       THEN /\ pc' = [pc EXCEPT ![c] = IF @ = "wait_empty" THEN "idle"
                                                           ELSE "stop_flag"]
            /\ UNCHANGED waiting
       ELSE waiting' = waiting \cup {c} /\ UNCHANGED pc
  /\ UNCHANGED <<flags, queues, task, qid, arg, crashed, history>>

(* wait_empty(), called by a client or by stop().                          *)
WaitEmpty(c) ==
  /\ pc[c] \in {"wait_empty", "stop_drain"} /\ c \notin waiting
  /\ IF Empty
       THEN /\ pc' = [pc EXCEPT ![c] = IF @ = "wait_empty" THEN "idle"
                                                           ELSE "stop_flag"]
            /\ UNCHANGED waiting
       ELSE waiting' = waiting \cup {c} /\ UNCHANGED pc
  /\ UNCHANGED <<flags, queues, task, qid, arg, crashed, history>>

(* add() reads m_faccept before it takes the mutex; refused, it throws and *)
(* changes nothing.                                                        *)
AddCall(c) ==
  /\ Calls(c, "add")
  /\ m_faccept = 1
  /\ \E q \in Qids, t \in Tasks \ accepted :
       /\ \A d \in Clients : arg[d] # NoArg => arg[d][2] # t
       /\ arg' = [arg EXCEPT ![c] = <<q, t>>]
  /\ pc' = [pc EXCEPT ![c] = "push"]
  /\ UNCHANGED <<flags, queues, waiting, task, qid, crashed, history>>

(* Mutant: add() does not signal.                                          *)
Push_NoSignal(c) ==
  /\ Go(c, "push", "idle")
  /\ LET q == arg[c][1]  t == arg[c][2]
     IN  IF q \in Present
           THEN /\ m_queue' = [m_queue EXCEPT ![q] = Append(@, t)]
                /\ accepted' = accepted \cup {t}
           ELSE UNCHANGED <<m_queue, accepted>>
  /\ arg' = [arg EXCEPT ![c] = NoArg]
  /\ UNCHANGED <<flags, m_queues, m_max, m_cnt, m_it, waiting, task, qid,
                 crashed, done, dropped, owed, orphan>>

(* The rest of add(): it signals and, if the queue does not exist, throws. *)
Push(c) ==
  /\ Go(c, "push", "idle")
  /\ LET q == arg[c][1]  t == arg[c][2]
     IN  IF q \in Present
           THEN /\ m_queue' = [m_queue EXCEPT ![q] = Append(@, t)]
                /\ accepted' = accepted \cup {t}
           ELSE UNCHANGED <<m_queue, accepted>>
  /\ arg' = [arg EXCEPT ![c] = NoArg]
  /\ CondSignal
  /\ UNCHANGED <<flags, m_queues, m_max, m_cnt, m_it, task, qid, crashed,
                 done, dropped, owed, orphan>>

(* The insertion may leave the map in any iteration order; an identifier   *)
(* already there makes it throw and changes nothing.                       *)
NewQueue(c) ==
  /\ Calls(c, "new_queue")
  /\ \E q \in Qids \ Present, max \in Limits :
       /\ m_queues' \in SetToSeqs(Present \cup {q})
       /\ m_max' = [m_max EXCEPT ![q] = max]
  /\ UNCHANGED <<flags, m_queue, m_cnt, m_it, waiting, threads, crashed,
                 history>>

(* Mutant: the tasks outlive their queue.                                  *)
RemoveQueue_KeepsTasks(c) ==
  /\ Calls(c, "remove_queue")
  /\ \E q \in Qids \ {0} :
       IF q \in Present
         THEN /\ m_queues' = RemoveAt(m_queues, Position(q))
              /\ m_max' = [m_max EXCEPT ![q] = 0]
              /\ m_cnt' = [m_cnt EXCEPT ![q] = 0]
              /\ m_it' = IF m_it = q THEN Erased ELSE m_it
              /\ dropped' = dropped \cup ToSet(m_queue[q])
              /\ orphan' = orphan \cup {w \in Workers :
                                          pc[w] \in {"run", "pop"} /\ qid[w] = q}
         ELSE UNCHANGED <<m_queues, m_max, m_cnt, m_it, dropped, orphan>>
  /\ CondSignal
  /\ UNCHANGED <<flags, m_queue, threads, crashed, accepted, done, owed>>

(* Queue 0 is left alone.  The tasks that were waiting are never executed. *)
RemoveQueue(c) ==
  /\ Calls(c, "remove_queue")
  /\ \E q \in Qids \ {0} :
       IF q \in Present
         THEN /\ m_queues' = RemoveAt(m_queues, Position(q))
              /\ m_queue' = [m_queue EXCEPT ![q] = <<>>]
              /\ m_max' = [m_max EXCEPT ![q] = 0]
              /\ m_cnt' = [m_cnt EXCEPT ![q] = 0]
              /\ m_it' = IF m_it = q THEN Erased ELSE m_it
              /\ dropped' = dropped \cup ToSet(m_queue[q])
              /\ orphan' = orphan \cup {w \in Workers :
                                          pc[w] \in {"run", "pop"} /\ qid[w] = q}
         ELSE UNCHANGED <<queues, dropped, orphan>>
  /\ CondSignal
  /\ UNCHANGED <<flags, threads, crashed, accepted, done, owed>>

-----------------------------------------------------------------------------
Init ==
  /\ m_slots = Workers
  /\ m_ths = {}
  /\ m_faccept = 0
  /\ m_fstop = 0
  /\ m_queues = <<0>>
  /\ m_queue = [q \in Qids |-> <<>>]
  /\ m_max = [q \in Qids |-> 0]
  /\ m_cnt = [q \in Qids |-> 0]
  /\ m_it = 0
  /\ waiting = {}
  /\ pc = [t \in Threads |-> IF t \in Workers THEN "none" ELSE "idle"]
  /\ task = [w \in Workers |-> NoTask]
  /\ qid = [w \in Workers |-> 0]
  /\ arg = [c \in Clients |-> NoArg]
  /\ crashed = FALSE
  /\ accepted = {} /\ done = {} /\ dropped = {} /\ owed = {} /\ orphan = {}

WorkerStep(w) ==
  \/ WorkerLoop(w) \/ FrontThrows(w) \/ FrontTakes(w) \/ FrontCrashes(w)
  \/ RunTask(w) \/ Pop(w) \/ PopThrows(w) \/ WaitCloseable(w)

(* The steps of a method already called, which the scheduler must run.     *)
OwnerStep == InitSpawn \/ InitReturn \/ StopFlag \/ StopJoin
ClientStep(c) == WaitEmpty(c) \/ Push(c)

(* The calls, which clients make if and when they like.                    *)
ClientCall(c) ==
  WaitEmptyCall(c) \/ AddCall(c) \/ NewQueue(c) \/ RemoveQueue(c)

Next ==
  /\ ~crashed
  /\ \/ \E w \in Workers : WorkerStep(w)
     \/ \E c \in Clients : ClientStep(c) \/ ClientCall(c)
     \/ OwnerStep \/ InitCall \/ StopCall
     \/ SpuriousWakeup

Spec == Init /\ [][Next]_vars

(* Every thread runs, every critical section is entered in the end, and    *)
(* every task terminates; no client has to call anything.                  *)
Fairness ==
  /\ \A w \in Workers : WF_vars(~crashed /\ WorkerStep(w))
  /\ \A c \in Clients : WF_vars(~crashed /\ ClientStep(c))
  /\ WF_vars(~crashed /\ OwnerStep)

FairSpec == Spec /\ Fairness

-----------------------------------------------------------------------------
(* Every variable has a value of its type; in particular m_cnt stays a     *)
(* uint32_t whatever the order of remove_queue(), new_queue() and pop().   *)
TypeOK ==
  /\ m_slots \in {Workers, {}}
  /\ m_ths \subseteq Workers
  /\ m_faccept \in 0..1 /\ m_fstop \in 0..1
  /\ m_queues \in Seq(Qids)
  /\ m_queue \in [Qids -> Seq(Tasks)]
  /\ m_max \in [Qids -> Nat]
  /\ m_cnt \in [Qids -> 0..CntMod-1]
  /\ m_it \in Qids \cup {Erased}
  /\ waiting \subseteq Threads
  /\ pc \in [Threads -> {"none", "loop", "front", "run", "pop", "closeable",
                         "exited", "idle", "spawn", "stop_drain",
                         "stop_flag", "stop_join", "wait_empty", "push"}]
  /\ task \in [Workers -> Tasks \cup {NoTask}]
  /\ qid \in [Workers -> Qids]
  /\ arg \in [Clients -> (Qids \X Tasks) \cup {NoArg}]
  /\ crashed \in BOOLEAN
  /\ accepted \subseteq Tasks /\ done \subseteq Tasks
  /\ dropped \subseteq Tasks /\ owed \subseteq Tasks
  /\ orphan \subseteq Workers

(* No task is lost, duplicated or executed twice: a task that add()        *)
(* accepted is in exactly one place, once in one queue, in the hands of    *)
(* one worker, executed, or discarded with its queue by remove_queue().    *)
TaskConservation ==
  /\ accepted = Pending \cup Running \cup done \cup dropped
  /\ Pending \cap (Running \cup done \cup dropped) = {}
  /\ Running \cap (done \cup dropped) = {}
  /\ done \cap dropped = {}
  /\ \A q \in Qids : IsInjective(m_queue[q])
  /\ \A p, q \in Qids : p # q => ToSet(m_queue[p]) \cap ToSet(m_queue[q]) = {}
  /\ \A v, w \in Workers : v # w /\ task[v] = task[w] => task[v] = NoTask

(* The level of concurrency of a queue: never more than cnt of the tasks   *)
(* taken from a queue made with new_queue(qid, cnt) are in execution at    *)
(* once.  Tasks taken from an earlier queue of that identifier are not     *)
(* counted.                                                                *)
LimitRespected ==
  \A q \in Present : m_max[q] # 0 =>
    Cardinality({w \in Workers \ orphan : pc[w] = "run" /\ qid[w] = q})
      <= m_max[q]

(* stop() waits for the tasks: when it has returned, each task accepted    *)
(* before it was called has been executed or was discarded by              *)
(* remove_queue(), whatever other clients add or wait for meanwhile.       *)
StopCompletes == m_slots = {} => owed \subseteq done \cup dropped

(* No lost wakeup of wait_empty(): front() signals m_q_cond once and an    *)
(* idle worker may take the signal, but a client that sleeps although the  *)
(* queues are empty has a worker that will still broadcast in pop().       *)
WakeupToCome ==
  waiting \cap Clients # {} /\ Empty =>
    \E w \in Workers : pc[w] \in {"run", "pop"} /\ qid[w] \in Present

(* No lost wakeup of the workers: add() signals m_q_cond once and a client *)
(* in wait_empty() may take the signal, but while a task waits in a queue  *)
(* the started threads are never all asleep.                               *)
SomeWorkerAwake == m_ths # {} /\ ~Empty => ~(m_ths \subseteq waiting)

(* The same when queues are removed.  remove_queue() signals once too, so  *)
(* that a client can go on sleeping in wait_empty() on a pool without      *)
(* tasks, and the next add() may wake that client instead of a worker: all *)
(* the threads sleep beside a task only while a client is in wait_empty(). *)
AsleepOnlyBehindWaiter ==
  m_ths # {} /\ ~Empty /\ m_ths \subseteq waiting =>
    \E c \in Clients : pc[c] \in {"wait_empty", "stop_drain"}

(* The pool implements the abstract one.                                   *)
TP == INSTANCE TaskPool WITH pending <- Pending, running <- Running,
                             N <- Cardinality(Workers)
PoolImplementsTaskPool == TP!Spec

(* Every task accepted by an open pool is executed in the end, or its      *)
(* queue is removed, with idle workers and clients competing for the same  *)
(* signals and queues at their limit in the way of others.                 *)
EveryTaskDone ==
  \A t \in Tasks :
    (t \in accepted /\ m_faccept = 1) ~> (t \in done \cup dropped \/ crashed)

(* A call of wait_empty() returns, with idle workers and other clients     *)
(* taking the single signals of front() and add(), unless the owner        *)
(* stopped the pool.                                                       *)
WaitEmptyReturns ==
  \A c \in Clients : (pc[c] = "wait_empty") ~> (pc[c] = "idle" \/ m_slots = {})

(* A call of stop() returns: the drain ends and every worker leaves its    *)
(* loop, the sleeping ones included.                                       *)
StopReturns == (pc[Owner] = "stop_drain") ~> (m_slots = {})

(* threadpool/README.md:94 says that stop() waits for all the tasks: a     *)
(* stopped pool has no accepted task that was not executed.                *)
StoppedPoolOwesNothing == m_slots = {} => accepted \subseteq done \cup dropped
=============================================================================
