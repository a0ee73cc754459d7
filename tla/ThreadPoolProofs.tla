-------------------------- MODULE ThreadPoolProofs --------------------------
(***************************************************************************)
(* Theorems of ThreadPool, for any number of workers, clients, tasks and   *)
(* queues: what becomes of every task, what stop() waits for, and the      *)
(* refinement of TaskPool, for any program of the clients; and who is      *)
(* awake, for programs without remove_queue().                             *)
(***************************************************************************)
EXTENDS ThreadPool, TLAPS, FiniteSetTheorems, SequenceTheorems

(* A worker is inside the loop of thread_worker() only between its         *)
(* creation and its join, and has a task exactly while it executes it; a   *)
(* client is inside a method and has a task to push exactly in the second  *)
(* half of add().                                                          *)
ThreadState ==
  /\ \A w \in Workers :
       /\ pc[w] \in {"none", "loop", "front", "run", "pop", "closeable",
                     "exited"}
       /\ w \notin m_ths => pc[w] \in {"none", "exited"}
       /\ task[w] = NoTask <=> pc[w] # "run"
  /\ \A c \in Clients :
       /\ pc[c] \in {"idle", "spawn", "stop_drain", "stop_flag", "stop_join",
                     "wait_empty", "push"}
       /\ arg[c] = NoArg <=> pc[c] # "push"

Typed == TypeOK /\ ThreadState

-----------------------------------------------------------------------------
(* Sequences.                                                              *)

(* The set of the elements of a sequence, as the operations change it.     *)
LEMMA ToSetType ==
  ASSUME NEW S, NEW s \in Seq(S)
  PROVE  /\ ToSet(s) \subseteq S
         /\ IsFiniteSet(ToSet(s))
<1>1. ToSet(s) \subseteq S
  BY DEF ToSet
<1>2. s \in Surjection(DOMAIN s, ToSet(s))
  <2>1. s \in [1..Len(s) -> ToSet(s)] /\ DOMAIN s = 1..Len(s)
    BY LenProperties DEF ToSet
  <2> QED BY <2>1 DEF Surjection, ToSet
<1>3. IsFiniteSet(DOMAIN s)
  BY LenProperties, FS_Interval
<1> QED BY <1>1, <1>2, <1>3, FS_Surjection

(* Append adds its argument, and only it.                                  *)
LEMMA ToSetAppend ==
  ASSUME NEW S, NEW s \in Seq(S), NEW e \in S
  PROVE  ToSet(Append(s, e)) = ToSet(s) \cup {e}
BY AppendProperties, LenProperties DEF ToSet

(* The head and the tail share out the elements.                           *)
LEMMA ToSetHeadTail ==
  ASSUME NEW S, NEW s \in Seq(S), s # <<>>
  PROVE  /\ Head(s) \in S
         /\ Tail(s) \in Seq(S)
         /\ ToSet(s) = {Head(s)} \cup ToSet(Tail(s))
<1>1. /\ Head(s) \in S
      /\ Tail(s) \in Seq(S)
      /\ Len(Tail(s)) = Len(s) - 1
      /\ \A i \in 1..Len(Tail(s)) : Tail(s)[i] = s[i+1]
  BY HeadTailProperties
<1>2. /\ Len(s) \in Nat \ {0}
      /\ DOMAIN s = 1..Len(s)
      /\ DOMAIN Tail(s) = 1..Len(Tail(s))
      /\ Head(s) = s[1]
  BY <1>1, LenProperties, EmptySeq
<1>3. ToSet(s) \subseteq {Head(s)} \cup ToSet(Tail(s))
  <2>1. SUFFICES ASSUME NEW i \in 1..Len(s), i # 1
                 PROVE  s[i] \in ToSet(Tail(s))
    BY <1>2 DEF ToSet
  <2>2. i-1 \in 1..Len(Tail(s)) /\ s[i] = Tail(s)[i-1]
    BY <1>1, <1>2, <2>1
  <2> QED BY <1>2, <2>2 DEF ToSet
<1>4. Head(s) \in ToSet(s)
  BY <1>2 DEF ToSet
<1>5. ToSet(Tail(s)) \subseteq ToSet(s)
  <2>1. SUFFICES ASSUME NEW i \in 1..Len(Tail(s))
                 PROVE  Tail(s)[i] \in ToSet(s)
    BY <1>2 DEF ToSet
  <2>2. i+1 \in 1..Len(s)
    BY <1>1, <1>2
  <2> QED BY <1>1, <1>2, <2>2 DEF ToSet
<1> QED BY <1>1, <1>3, <1>4, <1>5

(* Erasing an entry of the map leaves a sequence.                          *)
LEMMA RemoveAtType ==
  ASSUME NEW S, NEW s \in Seq(S), NEW i \in DOMAIN s
  PROVE  RemoveAt(s, i) \in Seq(S)
<1>1. Len(s) \in Nat /\ DOMAIN s = 1..Len(s)
  BY LenProperties
<1> QED BY <1>1 DEF RemoveAt

(* The iteration orders of a set are sequences of it.                      *)
LEMMA SetToSeqsType ==
  ASSUME NEW S, IsFiniteSet(S), NEW s \in SetToSeqs(S)
  PROVE  s \in Seq(S)
<1>1. Cardinality(S) \in Nat
  BY FS_CardinalityType
<1>2. s \in [1..Cardinality(S) -> S]
  BY DEF SetToSeqs
<1> QED BY <1>1, <1>2

-----------------------------------------------------------------------------
(* The types.                                                              *)

(* The place front() starts from is that of a queue in the map.            *)
LEMMA PositionType ==
  ASSUME NEW q \in Present
  PROVE  Position(q) \in DOMAIN m_queues
BY DEF Present, ToSet, Position

(* What every step needs of the constants.                                 *)
LEMMA Constants ==
  /\ 0 \in Qids /\ Qids \subseteq Nat
  /\ CntMod \in Nat /\ CntMod >= 3
  /\ Owner \in Clients
  /\ Workers \cap Clients = {}
  /\ NoTask \notin Tasks
<1>1. Cardinality(Workers) \in Nat
  BY PoolAssumption, FS_CardinalityType
<1> QED BY <1>1, PoolAssumption

(* m_cnt wraps around.                                                     *)
LEMMA Wraps ==
  ASSUME NEW n \in Int
  PROVE  n % CntMod \in 0..CntMod-1
BY Constants

(* pthread_cond_signal only takes threads out of the wait set.             *)
LEMMA SignalShrinks == CondSignal => waiting' \subseteq waiting
BY DEF CondSignal

(* The types hold at first.                                                *)
LEMMA TypedInit == Init => Typed
<1> SUFFICES ASSUME Init PROVE Typed
  OBVIOUS
<1> USE Constants
<1>1. m_queues \in Seq(Qids)
  BY DEF Init
<1>2. m_cnt \in [Qids -> 0..CntMod-1] /\ m_queue \in [Qids -> Seq(Tasks)]
  BY EmptySeq DEF Init
<1>3. TypeOK
  <2>1. /\ m_slots \in {Workers, {}} /\ m_ths \subseteq Workers
        /\ m_faccept \in 0..1 /\ m_fstop \in 0..1
        /\ m_max \in [Qids -> Nat] /\ m_it \in Qids \cup {Erased}
        /\ waiting \subseteq Threads
    BY DEF Init
  <2>2. pc \in [Threads -> {"none", "loop", "front", "run", "pop", "closeable",
                           "exited", "idle", "spawn", "stop_drain",
                           "stop_flag", "stop_join", "wait_empty", "push"}]
    BY DEF Init
  <2>3. /\ task \in [Workers -> Tasks \cup {NoTask}]
        /\ qid \in [Workers -> Qids]
        /\ arg \in [Clients -> (Qids \X Tasks) \cup {NoArg}]
    BY DEF Init
  <2>4. /\ crashed \in BOOLEAN
        /\ accepted \subseteq Tasks /\ done \subseteq Tasks
        /\ dropped \subseteq Tasks /\ owed \subseteq Tasks
        /\ orphan \subseteq Workers
    BY DEF Init
  <2> QED BY <1>1, <1>2, <2>1, <2>2, <2>3, <2>4 DEF TypeOK
<1>4. ThreadState
  BY DEF Init, ThreadState, Threads
<1> QED BY <1>3, <1>4 DEF Typed

(* Every step keeps the types.                                             *)
LEMMA TypedNext == Typed /\ [Next]_vars => Typed'
<1> SUFFICES ASSUME Typed, [Next]_vars
             PROVE  Typed'
  OBVIOUS
<1> USE Constants DEF Typed
<1>1. ASSUME NEW w \in Workers, WorkerLoop(w)
      PROVE  Typed'
  BY <1>1 DEF WorkerLoop, TypeOK, ThreadState, Go, flags, queues, history, Threads
<1>2. ASSUME NEW w \in Workers, FrontThrows(w)
      PROVE  Typed'
  BY <1>2 DEF FrontThrows, TypeOK, ThreadState, Go, flags, queues, history, Threads
<1>3. ASSUME NEW w \in Workers, FrontTakes(w)
      PROVE  Typed'
  <2>1. PICK q \in Present :
          /\ m_queue[q] # <<>>
          /\ task' = [task EXCEPT ![w] = Head(m_queue[q])]
          /\ qid' = [qid EXCEPT ![w] = q]
          /\ m_queue' = [m_queue EXCEPT ![q] = Tail(@)]
          /\ m_cnt' = [m_cnt EXCEPT ![q] = (@ + 1) % CntMod]
          /\ m_it' = q
    BY <1>3 DEF FrontTakes, NextQueue
  <2>2. q \in Qids
    BY ToSetType DEF TypeOK, Present
  <2>3. Head(m_queue[q]) \in Tasks /\ Tail(m_queue[q]) \in Seq(Tasks)
    BY <2>1, <2>2, ToSetHeadTail DEF TypeOK
  <2>4. (m_cnt[q] + 1) % CntMod \in 0..CntMod-1
    <3>1. m_cnt[q] + 1 \in Int
      BY <2>2 DEF TypeOK
    <3> QED BY <3>1, Wraps
  <2>5. waiting' \subseteq Threads
    BY <1>3, SignalShrinks DEF FrontTakes, TypeOK
  <2>6. TypeOK'
    BY <1>3, <2>1, <2>2, <2>3, <2>4, <2>5
    DEF FrontTakes, TypeOK, Go, flags, history, Threads
  <2>7. ThreadState'
    BY SMTT(30), <1>3, <2>1, <2>3 DEF FrontTakes, TypeOK, ThreadState, Go, Threads, flags
  <2> QED BY <2>6, <2>7
<1>4. ASSUME NEW w \in Workers, FrontCrashes(w)
      PROVE  Typed'
  BY <1>4 DEF FrontCrashes, TypeOK, ThreadState, flags, queues, history, threads
<1>5. ASSUME NEW w \in Workers, RunTask(w)
      PROVE  Typed'
  BY SMTT(30), <1>5 DEF RunTask, TypeOK, ThreadState, Go, flags, queues, history, Threads
<1>6. ASSUME NEW w \in Workers, Pop(w)
      PROVE  Typed'
  <2>1. (m_cnt[qid[w]] - 1) % CntMod \in 0..CntMod-1
    <3>1. qid[w] \in Qids /\ m_cnt \in [Qids -> 0..CntMod-1]
      BY DEF TypeOK
    <3>2. m_cnt[qid[w]] \in 0..CntMod-1
      BY <3>1
    <3>3. m_cnt[qid[w]] - 1 \in Int
      BY <3>2
    <3> QED BY <3>3, Wraps
  <2>2. m_cnt' \in [Qids -> 0..CntMod-1]
    BY <1>6, <2>1 DEF Pop, TypeOK
  <2>3. TypeOK'
    BY <1>6, <2>2 DEF Pop, TypeOK, Go, flags, Threads, CondBroadcast
  <2>4. ThreadState'
    BY <1>6 DEF Pop, TypeOK, ThreadState, Go, Threads, flags
  <2> QED BY <2>3, <2>4
<1>7. ASSUME NEW w \in Workers, PopThrows(w)
      PROVE  Typed'
  BY <1>7 DEF PopThrows, TypeOK, ThreadState, Go, flags, queues, Threads
<1>8. ASSUME NEW w \in Workers, WaitCloseable(w)
      PROVE  Typed'
  <2>1. /\ waiting' \subseteq Threads
        /\ pc[w] = "closeable"
        /\ pc' = pc \/ pc' = [pc EXCEPT ![w] = "loop"]
        /\ UNCHANGED <<flags, queues, task, qid, arg, crashed, history>>
    BY <1>8 DEF WaitCloseable, TypeOK, Threads
  <2>2. TypeOK'
    BY <2>1 DEF TypeOK, flags, queues, history, Threads
  <2>3. ThreadState'
    BY <2>1 DEF TypeOK, ThreadState, Threads, flags
  <2> QED BY <2>2, <2>3
<1>9. ASSUME NEW c \in Clients, WaitEmpty(c)
      PROVE  Typed'
  <2>1. /\ waiting' \subseteq Threads
        /\ pc[c] \in {"wait_empty", "stop_drain"}
        /\ \/ pc' = pc
           \/ pc' = [pc EXCEPT ![c] = "idle"]
           \/ pc' = [pc EXCEPT ![c] = "stop_flag"]
        /\ UNCHANGED <<flags, queues, task, qid, arg, crashed, history>>
    BY <1>9 DEF WaitEmpty, TypeOK, Threads
  <2>2. TypeOK'
    BY <2>1 DEF TypeOK, flags, queues, history, Threads
  <2>3. ThreadState'
    BY <2>1 DEF TypeOK, ThreadState, Threads, flags
  <2> QED BY <2>2, <2>3
<1>10. ASSUME NEW c \in Clients, Push(c)
       PROVE  Typed'
  <2>1. arg[c] \in Qids \X Tasks
    BY <1>10 DEF Push, TypeOK, ThreadState, Go, Threads
  <2>2. /\ m_queue' \in [Qids -> Seq(Tasks)]
        /\ accepted' \subseteq Tasks
    <3> DEFINE q == arg[c][1]
               t == arg[c][2]
    <3>1. q \in Qids /\ t \in Tasks
      BY <2>1
    <3>2. Append(m_queue[q], t) \in Seq(Tasks)
      BY <3>1, AppendProperties DEF TypeOK
    <3>3. \/ /\ m_queue' = [m_queue EXCEPT ![q] = Append(@, t)]
             /\ accepted' = accepted \cup {t}
          \/ UNCHANGED <<m_queue, accepted>>
      BY <1>10 DEF Push
    <3> HIDE DEF q, t
    <3> QED BY ZenonT(30), <3>1, <3>2, <3>3 DEF TypeOK
  <2>3. waiting' \subseteq Threads
    BY <1>10, SignalShrinks DEF Push, TypeOK
  <2>4. TypeOK'
    BY <1>10, <2>2, <2>3 DEF Push, TypeOK, Go, flags, Threads, NoArg
  <2>5. ThreadState'
    BY <1>10 DEF Push, TypeOK, ThreadState, Go, Threads, NoArg, flags
  <2> QED BY <2>4, <2>5
<1>11. ASSUME NEW c \in Clients, WaitEmptyCall(c)
       PROVE  Typed'
  BY <1>11 DEF WaitEmptyCall, Calls, TypeOK, ThreadState, flags, queues, history, Threads
<1>12. ASSUME NEW c \in Clients, AddCall(c)
       PROVE  Typed'
  <2>1. PICK q \in Qids, t \in Tasks : arg' = [arg EXCEPT ![c] = <<q, t>>]
    BY <1>12 DEF AddCall
  <2>2. <<q, t>> # NoArg
    BY DEF NoArg
  <2>3. TypeOK'
    BY <1>12, <2>1 DEF AddCall, TypeOK, flags, queues, history, Threads
  <2>4. ThreadState'
    BY <1>12, <2>1, <2>2 DEF AddCall, Calls, TypeOK, ThreadState, Threads, flags
  <2> QED BY <2>3, <2>4
<1>13. ASSUME NEW c \in Clients, NewQueue(c)
       PROVE  Typed'
  <2>1. PICK q \in Qids \ Present, max \in Limits :
          /\ m_queues' \in SetToSeqs(Present \cup {q})
          /\ m_max' = [m_max EXCEPT ![q] = max]
    BY <1>13 DEF NewQueue
  <2>2. Present \cup {q} \subseteq Qids /\ IsFiniteSet(Present \cup {q})
    BY ToSetType, FS_AddElement DEF TypeOK, Present
  <2>3. m_queues' \in Seq(Qids)
    BY <2>1, <2>2, SetToSeqsType, SeqMonotonic
  <2>4. m_max' \in [Qids -> Nat]
    BY <2>1, PoolAssumption DEF TypeOK
  <2>5. TypeOK'
    BY <1>13, <2>3, <2>4 DEF NewQueue, TypeOK, flags, threads, history, Threads
  <2>6. ThreadState'
    BY <1>13 DEF NewQueue, ThreadState, threads, flags
  <2> QED BY <2>5, <2>6
<1>14. ASSUME NEW c \in Clients, RemoveQueue(c)
       PROVE  Typed'
  <2>1. PICK q \in Qids :
          IF q \in Present
            THEN /\ m_queues' = RemoveAt(m_queues, Position(q))
                 /\ m_queue' = [m_queue EXCEPT ![q] = <<>>]
                 /\ m_max' = [m_max EXCEPT ![q] = 0]
                 /\ m_cnt' = [m_cnt EXCEPT ![q] = 0]
                 /\ m_it' = IF m_it = q THEN Erased ELSE m_it
                 /\ dropped' = dropped \cup ToSet(m_queue[q])
                 /\ orphan' = orphan \cup {w \in Workers :
                                           pc[w] \in {"run", "pop"} /\ qid[w] = q}
            ELSE UNCHANGED <<queues, dropped, orphan>>
    BY <1>14 DEF RemoveQueue
  <2>2. m_queues' \in Seq(Qids)
    BY <2>1, RemoveAtType, PositionType DEF TypeOK, queues
  <2>3. dropped' \subseteq Tasks
    <3>1. ToSet(m_queue[q]) \subseteq Tasks
      BY ToSetType DEF TypeOK
    <3> QED BY <2>1, <3>1 DEF TypeOK
  <2>4. /\ m_queue' \in [Qids -> Seq(Tasks)]
        /\ m_cnt' \in [Qids -> 0..CntMod-1]
        /\ m_max' \in [Qids -> Nat]
        /\ m_it' \in Qids \cup {Erased}
        /\ orphan' \subseteq Workers
    <3>1. <<>> \in Seq(Tasks)
      BY EmptySeq
    <3>2. 0 \in 0..CntMod-1
      OBVIOUS
    <3>3. CASE q \in Present
      <4>1. m_queue' \in [Qids -> Seq(Tasks)]
        <5>1. m_queue' = [m_queue EXCEPT ![q] = <<>>] /\ m_queue \in [Qids -> Seq(Tasks)]
          BY <2>1, <3>3 DEF TypeOK
        <5> QED BY <3>1, <5>1
      <4>2. /\ m_cnt' = [m_cnt EXCEPT ![q] = 0]
            /\ m_max' = [m_max EXCEPT ![q] = 0]
            /\ m_cnt \in [Qids -> 0..CntMod-1]
            /\ m_max \in [Qids -> Nat]
        BY <2>1, <3>3 DEF TypeOK
      <4>3. m_it' \in Qids \cup {Erased} /\ orphan' \subseteq Workers
        BY <2>1, <3>3 DEF TypeOK
      <4> QED BY <3>2, <4>1, <4>2, <4>3
    <3>4. CASE q \notin Present
      BY <2>1, <3>4 DEF TypeOK, queues
    <3> QED BY <3>3, <3>4
  <2>5. waiting' \subseteq Threads
    BY <1>14, SignalShrinks DEF RemoveQueue, TypeOK
  <2>6. TypeOK'
    BY <1>14, <2>1, <2>2, <2>3, <2>4, <2>5
    DEF RemoveQueue, TypeOK, flags, threads, Threads
  <2>7. ThreadState'
    BY <1>14 DEF RemoveQueue, ThreadState, threads, flags
  <2> QED BY <2>6, <2>7
<1>15. ASSUME OwnerStep
       PROVE  Typed'
  <2>1. CASE InitSpawn
    <3>1. PICK w \in m_slots \ m_ths :
            m_ths' = m_ths \cup {w} /\ pc' = [pc EXCEPT ![w] = "loop"]
      BY <2>1 DEF InitSpawn
    <3>2. w \in Workers
      BY DEF TypeOK
    <3>3. TypeOK'
      BY <2>1, <3>1, <3>2 DEF InitSpawn, TypeOK, queues, history, Threads
    <3>4. ThreadState'
      BY <2>1, <3>1, <3>2 DEF InitSpawn, TypeOK, ThreadState, Threads
    <3> QED BY <3>3, <3>4
  <2>2. CASE InitReturn
    BY <2>2 DEF InitReturn, TypeOK, ThreadState, Go, flags, queues, history, Threads
  <2>3. CASE StopFlag
    BY SMTT(30), <2>3
    DEF StopFlag, TypeOK, ThreadState, Go, queues, history, Threads, CondBroadcast
  <2>4. CASE StopJoin
    BY <2>4 DEF StopJoin, TypeOK, ThreadState, Go, queues, history, Threads
  <2> QED BY <1>15, <2>1, <2>2, <2>3, <2>4 DEF OwnerStep
<1>16. ASSUME InitCall
       PROVE  Typed'
  <2>1. TypeOK'
    BY <1>16 DEF InitCall, Calls, TypeOK, queues, history, Threads
  <2>2. ThreadState'
    BY <1>16 DEF InitCall, Calls, TypeOK, ThreadState, Threads
  <2> QED BY <2>1, <2>2
<1>17. ASSUME StopCall
       PROVE  Typed'
  BY <1>17 DEF StopCall, Calls, TypeOK, ThreadState, queues, history, Threads
<1>18. ASSUME SpuriousWakeup
       PROVE  Typed'
  BY <1>18 DEF SpuriousWakeup, TypeOK, ThreadState, flags, queues, threads, history
<1>19. CASE UNCHANGED vars
  BY <1>19 DEF vars, TypeOK, ThreadState, flags, queues, threads, history
<1> QED
  BY <1>1, <1>2, <1>3, <1>4, <1>5, <1>6, <1>7, <1>8, <1>9, <1>10, <1>11,
     <1>12, <1>13, <1>14, <1>15, <1>16, <1>17, <1>18, <1>19
  DEF Next, WorkerStep, ClientStep, ClientCall

(* Every variable keeps its type, m_cnt included, whatever the clients do. *)
THEOREM PoolTypes == Spec => []TypeOK
<1>1. Spec => []Typed
  BY TypedInit, TypedNext, PTL DEF Spec
<1>2. Typed => TypeOK
  BY DEF Typed
<1> QED BY <1>1, <1>2, PTL

-----------------------------------------------------------------------------
(* No task is lost, duplicated or executed twice.                          *)

(* A queue without duplicates has none after its head is taken.            *)
LEMMA InjectiveTail ==
  ASSUME NEW S, NEW s \in Seq(S), s # <<>>, IsInjective(s)
  PROVE  IsInjective(Tail(s)) /\ Head(s) \notin ToSet(Tail(s))
<1>1. /\ Len(s) \in Nat \ {0}
      /\ DOMAIN s = 1..Len(s)
      /\ Tail(s) \in Seq(S)
      /\ Len(Tail(s)) = Len(s) - 1
      /\ \A i \in 1..Len(Tail(s)) : Tail(s)[i] = s[i+1]
      /\ Head(s) = s[1]
  BY HeadTailProperties, LenProperties, EmptySeq
<1>2. DOMAIN Tail(s) = 1..Len(s)-1
  BY <1>1, LenProperties
<1>3. \A i \in 1..Len(s)-1 : i+1 \in DOMAIN s /\ 1 \in DOMAIN s /\ i+1 # 1
  BY <1>1
<1>4. IsInjective(Tail(s))
  <2>1. SUFFICES ASSUME NEW a \in 1..Len(s)-1, NEW b \in 1..Len(s)-1,
                        Tail(s)[a] = Tail(s)[b]
                 PROVE  a = b
    BY <1>2 DEF IsInjective
  <2>2. s[a+1] = s[b+1]
    BY <1>1, <2>1
  <2>3. a+1 = b+1
    BY <1>3, <2>2 DEF IsInjective
  <2> QED BY <1>1, <2>3
<1>5. Head(s) \notin ToSet(Tail(s))
  <2>1. SUFFICES ASSUME NEW a \in 1..Len(s)-1, s[1] = Tail(s)[a]
                 PROVE  FALSE
    BY <1>1, <1>2 DEF ToSet
  <2>2. s[1] = s[a+1]
    BY <1>1, <2>1
  <2> QED BY <1>3, <2>2 DEF IsInjective
<1> QED BY <1>4, <1>5

(* A task that is new to a queue is in it once after the push.             *)
LEMMA InjectiveAppend ==
  ASSUME NEW S, NEW s \in Seq(S), NEW e \in S, IsInjective(s), e \notin ToSet(s)
  PROVE  IsInjective(Append(s, e))
<1>1. /\ Len(s) \in Nat
      /\ DOMAIN s = 1..Len(s)
      /\ DOMAIN Append(s, e) = 1..Len(s)+1
      /\ \A i \in 1..Len(s) : Append(s, e)[i] = s[i]
      /\ Append(s, e)[Len(s)+1] = e
  BY AppendProperties, LenProperties
<1>2. \A i \in 1..Len(s) : s[i] # e
  BY <1>1 DEF ToSet
<1>3. SUFFICES ASSUME NEW a \in 1..Len(s)+1, NEW b \in 1..Len(s)+1,
                      Append(s, e)[a] = Append(s, e)[b]
               PROVE  a = b
  BY <1>1 DEF IsInjective
<1>4. CASE a \in 1..Len(s) /\ b \in 1..Len(s)
  BY <1>1, <1>3, <1>4 DEF IsInjective
<1>5. CASE a = Len(s)+1 \/ b = Len(s)+1
  <2>1. a \in 1..Len(s) \/ a = Len(s)+1
    BY <1>1
  <2>2. b \in 1..Len(s) \/ b = Len(s)+1
    BY <1>1
  <2> QED BY <1>1, <1>2, <1>3, <1>5, <2>1, <2>2
<1> QED BY <1>1, <1>4, <1>5

(* The tasks that calls of add() have in hand are new and distinct.        *)
ArgsFresh ==
  \A c \in Clients : arg[c] # NoArg =>
    /\ arg[c][2] \notin accepted
    /\ \A d \in Clients : arg[d] # NoArg /\ arg[d][2] = arg[c][2] => d = c

Conserved == Typed /\ TaskConservation /\ ArgsFresh

(* Initially no task was accepted.                                         *)
LEMMA ConservedInit == Init => Conserved
<1> SUFFICES ASSUME Init PROVE Conserved
  OBVIOUS
<1>1. Typed
  BY TypedInit
<1>2. \A q \in Qids : ToSet(m_queue[q]) = {} /\ IsInjective(m_queue[q])
  BY DEF Init, ToSet, IsInjective
<1>3. Pending = {} /\ Running = {}
  BY <1>2 DEF Init, Pending, Running
<1>4. TaskConservation
  BY <1>2, <1>3 DEF TaskConservation, Init
<1>5. ArgsFresh
  BY DEF Init, ArgsFresh
<1> QED BY <1>1, <1>4, <1>5 DEF Conserved

(* A step that leaves the tasks where they are.                            *)
LEMMA ConservedUnchanged ==
  ASSUME Conserved, Typed',
         UNCHANGED <<m_queue, task, arg, accepted, done, dropped>>
  PROVE  Conserved'
BY DEF Conserved, TaskConservation, ArgsFresh, Pending, Running

(* front(): the head of a queue goes to a worker that had no task.         *)
LEMMA ConservedTake ==
  ASSUME Conserved, Typed', NEW w \in Workers, FrontTakes(w)
  PROVE  Conserved'
<1> USE DEF Conserved
<1>1. PICK q \in Present :
        /\ m_queue[q] # <<>>
        /\ task' = [task EXCEPT ![w] = Head(m_queue[q])]
        /\ m_queue' = [m_queue EXCEPT ![q] = Tail(@)]
  BY DEF FrontTakes, NextQueue
<1>2. q \in Qids
  BY ToSetType DEF Typed, TypeOK, Present
<1>3. m_queue[q] \in Seq(Tasks) /\ IsInjective(m_queue[q])
  BY <1>2 DEF Typed, TypeOK, TaskConservation
<1> DEFINE h == Head(m_queue[q])
           tl == Tail(m_queue[q])
<1>4. /\ h \in Tasks /\ tl \in Seq(Tasks)
      /\ ToSet(m_queue[q]) = {h} \cup ToSet(tl)
      /\ IsInjective(tl) /\ h \notin ToSet(tl)
  BY <1>1, <1>3, ToSetHeadTail, InjectiveTail
<1>5. /\ m_queue' = [m_queue EXCEPT ![q] = tl]
      /\ task' = [task EXCEPT ![w] = h]
      /\ task[w] = NoTask /\ h # NoTask
      /\ UNCHANGED <<arg, accepted, done, dropped>>
  BY <1>1, <1>4, PoolAssumption
  DEF FrontTakes, history, Go, Typed, ThreadState
<1> HIDE DEF h, tl
<1>6. \A p \in Qids : ToSet(m_queue'[p]) =
                        IF p = q THEN ToSet(tl) ELSE ToSet(m_queue[p])
  BY <1>2, <1>5 DEF Typed, TypeOK
<1>7. \A p \in Qids : p # q => h \notin ToSet(m_queue[p])
  BY <1>2, <1>4 DEF TaskConservation
<1>8. Pending' = Pending \ {h} /\ h \in Pending
  BY <1>2, <1>4, <1>6, <1>7 DEF Pending
<1>9. Running' = Running \cup {h}
  <2>1. task'[w] = h /\ \A v \in Workers : v # w => task'[v] = task[v]
    BY <1>5 DEF Typed, TypeOK
  <2> QED BY <1>5, <2>1 DEF Running
<1>10. \A p \in Qids : IsInjective(m_queue'[p])
  BY <1>2, <1>4, <1>5 DEF Typed, TypeOK, TaskConservation
<1>11. \A p, r \in Qids : p # r => ToSet(m_queue'[p]) \cap ToSet(m_queue'[r]) = {}
  BY <1>4, <1>6 DEF TaskConservation
<1>12. \A v \in Workers : task[v] # h
  BY <1>5, <1>8 DEF TaskConservation, Running
<1>13. \A v, x \in Workers : v # x /\ task'[v] = task'[x] => task'[v] = NoTask
  BY <1>5, <1>12 DEF TaskConservation, Typed, TypeOK
<1>14. TaskConservation'
  BY <1>5, <1>8, <1>9, <1>10, <1>11, <1>13 DEF TaskConservation
<1>15. ArgsFresh'
  BY <1>5 DEF ArgsFresh
<1> QED BY <1>14, <1>15

(* The task in hand is executed.                                           *)
LEMMA ConservedRun ==
  ASSUME Conserved, Typed', NEW w \in Workers, RunTask(w)
  PROVE  Conserved'
<1> USE DEF Conserved
<1>1. /\ task[w] # NoTask
      /\ task' = [task EXCEPT ![w] = NoTask]
      /\ done' = done \cup {task[w]}
      /\ UNCHANGED <<m_queue, arg, accepted, dropped>>
  BY DEF RunTask, Go, queues, Typed, ThreadState
<1>2. task[w] \in Running /\ Running' = Running \ {task[w]}
  <2>1. \A v \in Workers : v # w => task'[v] = task[v] /\ task[v] # task[w]
    BY <1>1 DEF Typed, TypeOK, TaskConservation
  <2>2. task'[w] = NoTask
    BY <1>1 DEF Typed, TypeOK
  <2> QED BY <1>1, <2>1, <2>2 DEF Running
<1>3. Pending' = Pending
  BY <1>1 DEF Pending
<1>4. \A v, x \in Workers : v # x /\ task'[v] = task'[x] => task'[v] = NoTask
  BY <1>1 DEF TaskConservation, Typed, TypeOK
<1>5. TaskConservation'
  BY <1>1, <1>2, <1>3, <1>4 DEF TaskConservation
<1>6. ArgsFresh'
  BY <1>1 DEF ArgsFresh
<1> QED BY <1>5, <1>6

(* add(): a new task enters one queue.                                     *)
LEMMA ConservedPush ==
  ASSUME Conserved, Typed', NEW c \in Clients, Push(c)
  PROVE  Conserved'
<1> USE DEF Conserved
<1> DEFINE q == arg[c][1]
           t == arg[c][2]
<1>1. /\ arg[c] # NoArg /\ q \in Qids /\ t \in Tasks /\ t \notin accepted
      /\ arg' = [arg EXCEPT ![c] = NoArg]
      /\ UNCHANGED <<task, done, dropped>>
  <2>1. arg[c] # NoArg
    BY DEF Push, Go, Typed, ThreadState
  <2>2. arg[c] \in Qids \X Tasks
    BY <2>1 DEF Typed, TypeOK
  <2> QED BY <2>1, <2>2 DEF Push, ArgsFresh
<1>2. \/ /\ m_queue' = [m_queue EXCEPT ![q] = Append(@, t)]
         /\ accepted' = accepted \cup {t}
      \/ UNCHANGED <<m_queue, accepted>>
  BY DEF Push
<1>3. /\ m_queue[q] \in Seq(Tasks) /\ IsInjective(m_queue[q])
      /\ t \notin Pending /\ t \notin ToSet(m_queue[q])
  <2>1. m_queue[q] \in Seq(Tasks) /\ IsInjective(m_queue[q])
    BY <1>1 DEF Typed, TypeOK, TaskConservation
  <2>2. t \notin Pending
    BY <1>1 DEF TaskConservation
  <2> HIDE DEF q, t
  <2>3. ToSet(m_queue[q]) \subseteq Pending
    BY <1>1 DEF Pending
  <2> QED BY <2>1, <2>2, <2>3
<1>4. /\ ToSet(Append(m_queue[q], t)) = ToSet(m_queue[q]) \cup {t}
      /\ IsInjective(Append(m_queue[q], t))
  BY <1>1, <1>3, ToSetAppend, InjectiveAppend
<1>5. ArgsFresh'
  <2>1. \A d \in Clients : arg'[d] # NoArg => d # c /\ arg'[d] = arg[d]
    BY <1>1 DEF Typed, TypeOK
  <2>2. accepted' \subseteq accepted \cup {t}
    BY <1>2
  <2> QED BY <1>1, <2>1, <2>2 DEF ArgsFresh
<1> HIDE DEF q, t
<1>6. CASE UNCHANGED <<m_queue, accepted>>
  BY <1>1, <1>5, <1>6 DEF TaskConservation, Pending, Running
<1>7. CASE /\ m_queue' = [m_queue EXCEPT ![q] = Append(@, t)]
           /\ accepted' = accepted \cup {t}
  <2>1. \A p \in Qids : ToSet(m_queue'[p]) =
          IF p = q THEN ToSet(m_queue[q]) \cup {t} ELSE ToSet(m_queue[p])
    BY <1>1, <1>4, <1>7 DEF Typed, TypeOK
  <2>2. Pending' = Pending \cup {t}
    BY <1>1, <2>1 DEF Pending
  <2>3. Running' = Running
    BY <1>1 DEF Running
  <2>4. \A p \in Qids : IsInjective(m_queue'[p])
    BY <1>1, <1>4, <1>7 DEF Typed, TypeOK, TaskConservation
  <2>5. \A p, r \in Qids : p # r => ToSet(m_queue'[p]) \cap ToSet(m_queue'[r]) = {}
    BY <1>3, <2>1 DEF TaskConservation, Pending
  <2>6. TaskConservation'
    BY <1>1, <1>7, <2>2, <2>3, <2>4, <2>5 DEF TaskConservation
  <2> QED BY <1>5, <2>6
<1> QED BY <1>2, <1>6, <1>7

(* remove_queue(): the tasks of one queue are discarded.                   *)
LEMMA ConservedRemove ==
  ASSUME Conserved, Typed', NEW c \in Clients, RemoveQueue(c)
  PROVE  Conserved'
<1> USE DEF Conserved
<1>1. PICK q \in Qids :
        \/ /\ m_queue' = [m_queue EXCEPT ![q] = <<>>]
           /\ dropped' = dropped \cup ToSet(m_queue[q])
        \/ UNCHANGED <<m_queue, dropped>>
  BY DEF RemoveQueue, queues
<1>2. UNCHANGED <<task, arg, accepted, done>>
  BY DEF RemoveQueue, threads
<1>3. CASE UNCHANGED <<m_queue, dropped>>
  BY <1>2, <1>3, ConservedUnchanged
<1>4. CASE /\ m_queue' = [m_queue EXCEPT ![q] = <<>>]
           /\ dropped' = dropped \cup ToSet(m_queue[q])
  <2>1. \A p \in Qids : ToSet(m_queue'[p]) =
                          IF p = q THEN {} ELSE ToSet(m_queue[p])
    BY <1>4 DEF Typed, TypeOK, ToSet
  <2>2. ToSet(m_queue[q]) \subseteq Pending
    BY DEF Pending
  <2>3. Pending' = Pending \ ToSet(m_queue[q])
    BY <2>1 DEF Pending, TaskConservation
  <2>4. Running' = Running
    BY <1>2 DEF Running
  <2>5. \A p \in Qids : IsInjective(m_queue'[p])
    BY <1>4 DEF Typed, TypeOK, TaskConservation, IsInjective
  <2>6. \A p, r \in Qids : p # r => ToSet(m_queue'[p]) \cap ToSet(m_queue'[r]) = {}
    BY <2>1 DEF TaskConservation
  <2>7. TaskConservation'
    BY <1>2, <1>4, <2>2, <2>3, <2>4, <2>5, <2>6 DEF TaskConservation
  <2>8. ArgsFresh'
    BY <1>2 DEF ArgsFresh
  <2> QED BY <2>7, <2>8
<1> QED BY <1>1, <1>3, <1>4

(* Every step conserves the tasks.                                         *)
LEMMA ConservedNext == Conserved /\ [Next]_vars => Conserved'
<1> SUFFICES ASSUME Conserved, [Next]_vars
             PROVE  Conserved'
  OBVIOUS
<1>1. Typed'
  BY TypedNext DEF Conserved
<1> DEFINE Still == UNCHANGED <<m_queue, task, arg, accepted, done, dropped>>
<1>2. ASSUME NEW w \in Workers, WorkerStep(w)
      PROVE  Conserved'
  <2>1. CASE FrontTakes(w)
    BY <1>1, <2>1, ConservedTake
  <2>2. CASE RunTask(w)
    BY <1>1, <2>2, ConservedRun
  <2>3. CASE \/ WorkerLoop(w) \/ FrontThrows(w) \/ FrontCrashes(w)
             \/ Pop(w) \/ PopThrows(w) \/ WaitCloseable(w)
    <3>1. Still
      BY <2>3 DEF WorkerLoop, FrontThrows, FrontCrashes, Pop, PopThrows,
                  WaitCloseable, queues, threads, history
    <3> QED BY <1>1, <3>1, ConservedUnchanged
  <2> QED BY <1>2, <2>1, <2>2, <2>3 DEF WorkerStep
<1>3. ASSUME NEW c \in Clients, ClientStep(c) \/ ClientCall(c)
      PROVE  Conserved'
  <2>1. CASE Push(c)
    BY <1>1, <2>1, ConservedPush
  <2>2. CASE RemoveQueue(c)
    BY <1>1, <2>2, ConservedRemove
  <2>3. CASE AddCall(c)
    <3>1. PICK q \in Qids, t \in Tasks \ accepted :
            /\ \A d \in Clients : arg[d] # NoArg => arg[d][2] # t
            /\ arg' = [arg EXCEPT ![c] = <<q, t>>]
      BY <2>3 DEF AddCall
    <3>2. UNCHANGED <<m_queue, task, accepted, done, dropped>>
      BY <2>3 DEF AddCall, queues, history
    <3>3. TaskConservation'
      BY <3>2 DEF Conserved, TaskConservation, Pending, Running
    <3>4. ArgsFresh'
      BY <3>1, <3>2 DEF Conserved, ArgsFresh, Typed, TypeOK
    <3> QED BY <1>1, <3>3, <3>4 DEF Conserved
  <2>4. CASE WaitEmpty(c) \/ WaitEmptyCall(c) \/ NewQueue(c)
    <3>1. Still
      BY <2>4 DEF WaitEmpty, WaitEmptyCall, NewQueue, queues, threads, history
    <3> QED BY <1>1, <3>1, ConservedUnchanged
  <2> QED BY <1>3, <2>1, <2>2, <2>3, <2>4 DEF ClientStep, ClientCall
<1>4. CASE OwnerStep \/ InitCall \/ StopCall \/ SpuriousWakeup \/ UNCHANGED vars
  <2>1. Still
    BY <1>4 DEF OwnerStep, InitSpawn, InitReturn, StopFlag, StopJoin, InitCall,
                StopCall, SpuriousWakeup, vars, flags, queues, threads, history
  <2> QED BY <1>1, <2>1, ConservedUnchanged
<1> QED BY <1>2, <1>3, <1>4 DEF Next

(* Wherever the steps of the workers and the calls of the clients          *)
(* interleave, and whichever queues are removed, each accepted task is in  *)
(* exactly one place.                                                      *)
THEOREM TasksConserved == Spec => []TaskConservation
<1>1. Spec => []Conserved
  BY ConservedInit, ConservedNext, PTL DEF Spec
<1>2. Conserved => TaskConservation
  BY DEF Conserved
<1> QED BY <1>1, <1>2, PTL

-----------------------------------------------------------------------------
(* stop() waits for the tasks.                                             *)

(* A sequence of each element of a finite set once has all its elements.   *)
LEMMA ToSetPermutation ==
  ASSUME NEW S, IsFiniteSet(S), NEW s \in SetToSeqs(S)
  PROVE  ToSet(s) = S
<1>1. Cardinality(S) \in Nat
  BY FS_CardinalityType
<1> DEFINE D == 1..Cardinality(S)
<1>2. /\ s \in [D -> S]
      /\ \A i, j \in D : i # j => s[i] # s[j]
  BY DEF SetToSeqs
<1>3. IsFiniteSet(D) /\ Cardinality(D) = Cardinality(S)
  BY <1>1, FS_Interval
<1> HIDE DEF D
<1>4. s \in Surjection(D, ToSet(s)) /\ s \in Injection(D, ToSet(s))
  BY <1>2 DEF ToSet, Surjection, Injection, IsInjective
<1>5. Cardinality(ToSet(s)) = Cardinality(S)
  BY <1>3, <1>4, FS_Surjection
<1>6. ToSet(s) \in SUBSET S
  BY <1>2 DEF ToSet
<1> QED BY <1>5, <1>6, FS_Subset

(* Erasing the entry of q leaves the other queues in the map.              *)
LEMMA ToSetRemoveAt ==
  ASSUME NEW S, NEW s \in Seq(S), NEW i \in DOMAIN s
  PROVE  ToSet(s) \subseteq ToSet(RemoveAt(s, i)) \cup {s[i]}
<1>1. /\ Len(s) \in Nat /\ DOMAIN s = 1..Len(s)
      /\ i \in 1..Len(s)
  BY LenProperties
<1> DEFINE r == RemoveAt(s, i)
<1>2. /\ r \in Seq(S) /\ Len(r) = Len(s) - 1
      /\ \A j \in 1..Len(s)-1 : r[j] = IF j < i THEN s[j] ELSE s[j+1]
  <2> DEFINE a == SubSeq(s, 1, i-1)
             b == SubSeq(s, i+1, Len(s))
  <2>1. /\ a \in Seq(S) /\ Len(a) = i-1
        /\ \A j \in 1..i-1 : a[j] = s[j]
    BY <1>1
  <2>2. /\ b \in Seq(S) /\ Len(b) = Len(s) - i
        /\ \A j \in 1..Len(s)-i : b[j] = s[i+j]
    BY <1>1
  <2>3. r = a \o b
    BY DEF RemoveAt
  <2> HIDE DEF a, b, r
  <2>4. /\ r \in Seq(S) /\ Len(r) = Len(a) + Len(b)
        /\ \A j \in 1..Len(a)+Len(b) :
             r[j] = IF j <= Len(a) THEN a[j] ELSE b[j - Len(a)]
    BY <2>1, <2>2, <2>3, ConcatProperties
  <2>5. Len(r) = Len(s) - 1
    BY <1>1, <2>1, <2>2, <2>4
  <2>6. ASSUME NEW j \in 1..Len(s)-1
        PROVE  r[j] = IF j < i THEN s[j] ELSE s[j+1]
    <3>1. CASE j < i
      BY <1>1, <2>1, <2>2, <2>4, <3>1
    <3>2. CASE j >= i
      <4>1. r[j] = b[j - (i-1)]
        BY <1>1, <2>1, <2>2, <2>4, <3>2
      <4>2. j - (i-1) \in 1..Len(s)-i /\ i + (j - (i-1)) = j+1
        BY <1>1, <3>2
      <4> QED BY <1>1, <2>2, <3>2, <4>1, <4>2
    <3> QED BY <1>1, <3>1, <3>2
  <2> QED BY <2>4, <2>5, <2>6
<1>3. DOMAIN r = 1..Len(s)-1
  BY <1>2, LenProperties
<1> HIDE DEF r
<1>4. SUFFICES ASSUME NEW j \in 1..Len(s), j # i
               PROVE  s[j] \in ToSet(r)
  BY <1>1 DEF ToSet, r
<1>5. CASE j < i
  <2>1. j \in 1..Len(s)-1 /\ r[j] = s[j]
    BY <1>1, <1>2, <1>5
  <2> QED BY <1>3, <2>1 DEF ToSet
<1>6. CASE j > i
  <2>1. j-1 \in 1..Len(s)-1 /\ r[j-1] = s[j]
    BY <1>1, <1>2, <1>6
  <2> QED BY <1>3, <2>1 DEF ToSet
<1> QED BY <1>1, <1>4, <1>5, <1>6

(* A queue that is not in the map has no task.                             *)
AbsentEmpty == \A q \in Qids \ Present : m_queue[q] = <<>>

(* What stop() relies on: the tasks it owes were accepted; once the drain  *)
(* has ended none of them is in a queue, although others may be; after the *)
(* join no worker has one.                                                 *)
StopInv ==
  /\ AbsentEmpty
  /\ m_ths \subseteq m_slots
  /\ owed \subseteq accepted
  /\ pc[Owner] \in {"stop_flag", "stop_join"} => owed \cap Pending = {}
  /\ StopCompletes

(* A queue that is not in the map has no tasks, after any step.            *)
LEMMA AbsentEmptyNext ==
  ASSUME Typed, AbsentEmpty, [Next]_vars
  PROVE  AbsentEmpty'
<1>1. ASSUME NEW w \in Workers, FrontTakes(w)
      PROVE  AbsentEmpty'
  <2>1. PICK q \in Present : m_queue' = [m_queue EXCEPT ![q] = Tail(@)]
    BY <1>1 DEF FrontTakes
  <2>2. m_queues' = m_queues
    BY <1>1 DEF FrontTakes
  <2> QED BY <2>1, <2>2 DEF AbsentEmpty, Present, Typed, TypeOK
<1>2. ASSUME NEW c \in Clients, Push(c)
      PROVE  AbsentEmpty'
  <2>1. \/ m_queue' = m_queue
        \/ \E q \in Present : m_queue' = [m_queue EXCEPT ![q] = Append(@, arg[c][2])]
    BY <1>2 DEF Push
  <2>2. m_queues' = m_queues
    BY <1>2 DEF Push
  <2> QED BY <2>1, <2>2 DEF AbsentEmpty, Present, Typed, TypeOK
<1>3. ASSUME NEW c \in Clients, NewQueue(c)
      PROVE  AbsentEmpty'
  <2>1. PICK q \in Qids : m_queues' \in SetToSeqs(Present \cup {q})
    BY <1>3 DEF NewQueue
  <2>2. IsFiniteSet(Present \cup {q})
    BY ToSetType, FS_AddElement DEF Typed, TypeOK, Present
  <2>3. Present' = Present \cup {q}
    BY <2>1, <2>2, ToSetPermutation DEF Present
  <2> QED BY <1>3, <2>3 DEF NewQueue, AbsentEmpty
<1>4. ASSUME NEW c \in Clients, RemoveQueue(c)
      PROVE  AbsentEmpty'
  <2>1. PICK q \in Qids :
          IF q \in Present
            THEN /\ m_queues' = RemoveAt(m_queues, Position(q))
                 /\ m_queue' = [m_queue EXCEPT ![q] = <<>>]
            ELSE UNCHANGED <<m_queues, m_queue>>
    BY <1>4 DEF RemoveQueue, queues
  <2>2. CASE q \in Present
    <3>1. Position(q) \in DOMAIN m_queues /\ m_queues[Position(q)] = q
      BY <2>2 DEF Present, ToSet, Position
    <3>2. m_queues \in Seq(Qids)
      BY DEF Typed, TypeOK
    <3>3. Present \subseteq Present' \cup {q}
      BY <2>1, <2>2, <3>1, <3>2, ToSetRemoveAt DEF Present
    <3> QED BY <2>1, <2>2, <3>3 DEF AbsentEmpty, Typed, TypeOK
  <2>3. CASE q \notin Present
    BY <2>1, <2>3 DEF AbsentEmpty, Present
  <2> QED BY <2>2, <2>3
<1>5. CASE UNCHANGED <<m_queues, m_queue>>
  BY <1>5 DEF AbsentEmpty, Present
<1>6. ASSUME NEW w \in Workers,
             \/ WorkerLoop(w) \/ FrontThrows(w) \/ FrontCrashes(w) \/ RunTask(w)
             \/ Pop(w) \/ PopThrows(w) \/ WaitCloseable(w)
      PROVE  UNCHANGED <<m_queues, m_queue>>
  BY <1>6 DEF WorkerLoop, FrontThrows, FrontCrashes, RunTask, Pop, PopThrows,
              WaitCloseable, queues
<1>7. ASSUME NEW c \in Clients, WaitEmpty(c) \/ WaitEmptyCall(c) \/ AddCall(c)
      PROVE  UNCHANGED <<m_queues, m_queue>>
  BY <1>7 DEF WaitEmpty, WaitEmptyCall, AddCall, queues
<1>8. ASSUME OwnerStep \/ InitCall \/ StopCall \/ SpuriousWakeup \/ UNCHANGED vars
      PROVE  UNCHANGED <<m_queues, m_queue>>
  BY <1>8 DEF OwnerStep, InitSpawn, InitReturn, StopFlag, StopJoin, InitCall,
              StopCall, SpuriousWakeup, vars, queues
<1> QED
  BY <1>1, <1>2, <1>3, <1>4, <1>5, <1>6, <1>7, <1>8
  DEF Next, WorkerStep, ClientStep, ClientCall

(* Tasks only enter a queue when they are new, and nothing is forgotten.   *)
LEMMA History ==
  ASSUME Conserved, [Next]_vars
  PROVE  /\ Pending' \subseteq Pending \cup (Tasks \ accepted)
         /\ accepted \subseteq accepted'
         /\ done \cup dropped \subseteq done' \cup dropped'
<1>1. Conserved'
  BY ConservedNext
<1>2. /\ accepted \subseteq accepted'
      /\ done \subseteq done'
      /\ dropped \subseteq dropped'
  <2>1. ASSUME NEW w \in Workers, WorkerStep(w)
        PROVE  accepted' = accepted /\ done \subseteq done' /\ dropped' = dropped
    BY <2>1 DEF WorkerStep, WorkerLoop, FrontThrows, FrontTakes, FrontCrashes,
                RunTask, Pop, PopThrows, WaitCloseable, history
  <2>2. ASSUME NEW c \in Clients, ClientStep(c) \/ ClientCall(c)
        PROVE  accepted \subseteq accepted' /\ done' = done /\ dropped \subseteq dropped'
    BY <2>2 DEF ClientStep, ClientCall, WaitEmpty, Push, WaitEmptyCall, AddCall,
                NewQueue, RemoveQueue, history
  <2>3. CASE OwnerStep \/ InitCall \/ StopCall \/ SpuriousWakeup \/ UNCHANGED vars
    BY <2>3 DEF OwnerStep, InitSpawn, InitReturn, StopFlag, StopJoin, InitCall,
                StopCall, SpuriousWakeup, vars, history
  <2> QED BY <2>1, <2>2, <2>3 DEF Next
<1>3. Running \subseteq Running' \cup done'
  <2>1. ASSUME NEW w \in Workers, FrontTakes(w)
        PROVE  Running \subseteq Running' \cup done'
    <3>1. task[w] = NoTask /\ \E h : task' = [task EXCEPT ![w] = h]
      BY <2>1 DEF FrontTakes, Go, Conserved, Typed, ThreadState
    <3> QED BY <3>1 DEF Running, Conserved, Typed, TypeOK
  <2>2. ASSUME NEW w \in Workers, RunTask(w)
        PROVE  Running \subseteq Running' \cup done'
    BY <2>2 DEF RunTask, Running, Conserved, Typed, TypeOK
  <2>3. CASE UNCHANGED task
    BY <2>3 DEF Running
  <2>4. ASSUME NEW w \in Workers,
               \/ WorkerLoop(w) \/ FrontThrows(w) \/ FrontCrashes(w)
               \/ Pop(w) \/ PopThrows(w) \/ WaitCloseable(w)
        PROVE  UNCHANGED task
    BY <2>4 DEF WorkerLoop, FrontThrows, FrontCrashes, Pop, PopThrows,
                WaitCloseable, threads
  <2>5. ASSUME NEW c \in Clients, ClientStep(c) \/ ClientCall(c)
        PROVE  UNCHANGED task
    BY <2>5 DEF ClientStep, ClientCall, WaitEmpty, Push, WaitEmptyCall, AddCall,
                NewQueue, RemoveQueue, threads
  <2>6. ASSUME OwnerStep \/ InitCall \/ StopCall \/ SpuriousWakeup \/ UNCHANGED vars
        PROVE  UNCHANGED task
    BY <2>6 DEF OwnerStep, InitSpawn, InitReturn, StopFlag, StopJoin, InitCall,
                StopCall, SpuriousWakeup, vars, threads
  <2> QED BY <2>1, <2>2, <2>3, <2>4, <2>5, <2>6 DEF Next, WorkerStep
<1>4. /\ accepted = Pending \cup Running \cup done \cup dropped
      /\ Pending' \subseteq Tasks
      /\ Pending' \cap (Running' \cup done' \cup dropped') = {}
  BY <1>1 DEF Conserved, TaskConservation, Typed, TypeOK
<1> QED BY <1>2, <1>3, <1>4

(* The invariant of stop() holds at first.                                 *)
LEMMA StopInvInit == Init => StopInv
<1> SUFFICES ASSUME Init PROVE StopInv
  OBVIOUS
<1> QED BY DEF Init, StopInv, AbsentEmpty, StopCompletes

(* Every step keeps the invariant of stop().                               *)
LEMMA StopInvNext == Conserved /\ StopInv /\ [Next]_vars => StopInv'
<1> SUFFICES ASSUME Conserved, StopInv, [Next]_vars
             PROVE  StopInv'
  OBVIOUS
<1>1. AbsentEmpty'
  BY AbsentEmptyNext DEF Conserved, StopInv
<1>2. /\ Pending' \subseteq Pending \cup (Tasks \ accepted)
      /\ accepted \subseteq accepted'
      /\ done \cup dropped \subseteq done' \cup dropped'
  BY History
<1>3. pc \in [Threads -> {"none", "loop", "front", "run", "pop", "closeable",
                         "exited", "idle", "spawn", "stop_drain",
                         "stop_flag", "stop_join", "wait_empty", "push"}]
  BY DEF Conserved, Typed, TypeOK
<1>4. Owner \in Clients /\ Workers \cap Clients = {}
  BY Constants
<1>5. ASSUME UNCHANGED <<m_slots, m_ths, owed>>,
             pc'[Owner] \in {"stop_flag", "stop_join"} =>
               pc[Owner] \in {"stop_flag", "stop_join"}
      PROVE  StopInv'
  BY <1>1, <1>2, <1>5 DEF StopInv, StopCompletes
<1>6. ASSUME NEW w \in Workers, WorkerStep(w)
      PROVE  StopInv'
  <2>1. UNCHANGED <<m_slots, m_ths, owed>> /\ pc'[Owner] = pc[Owner]
    BY <1>3, <1>4, <1>6
    DEF WorkerStep, WorkerLoop, FrontThrows, FrontTakes, FrontCrashes, RunTask,
        Pop, PopThrows, WaitCloseable, Go, flags, threads, history, Threads
  <2> QED BY <1>5, <2>1
<1>7. ASSUME NEW c \in Clients, WaitEmpty(c), Empty, c = Owner
      PROVE  StopInv'
  <2>1. Pending = {}
    BY <1>7 DEF StopInv, AbsentEmpty, Empty, Pending, ToSet
  <2>2. UNCHANGED <<m_slots, m_ths, owed, queues>>
    BY <1>7 DEF WaitEmpty, flags, history
  <2>3. Pending' = {}
    BY <2>1, <2>2 DEF queues, Pending
  <2> QED BY <1>1, <1>2, <2>2, <2>3 DEF StopInv, StopCompletes
<1>8. ASSUME NEW c \in Clients,
             \/ WaitEmpty(c) /\ ~(Empty /\ c = Owner)
             \/ Push(c) \/ ClientCall(c)
      PROVE  StopInv'
  <2>1. UNCHANGED <<m_slots, m_ths, owed>>
    BY <1>8 DEF ClientCall, WaitEmpty, Push, WaitEmptyCall, AddCall, NewQueue,
                RemoveQueue, flags, history
  <2>2. pc'[Owner] \in {"stop_flag", "stop_join"} => pc'[Owner] = pc[Owner]
    BY <1>3, <1>4, <1>8 DEF ClientCall, WaitEmpty, Push, WaitEmptyCall, AddCall, NewQueue,
                RemoveQueue, Go, threads, Threads
  <2> QED BY <1>5, <2>1, <2>2
<1>9. CASE StopJoin
  <2>1. \A w \in Workers : task[w] = NoTask
    BY <1>9 DEF StopJoin, Conserved, Typed, ThreadState
  <2>2. Running = {}
    BY <2>1 DEF Running
  <2>3. owed \subseteq done \cup dropped
    BY <1>9, <2>2 DEF StopJoin, Go, StopInv, Conserved, TaskConservation
  <2>4. /\ m_ths' = {} /\ m_slots' = {}
        /\ UNCHANGED <<owed, done, dropped, accepted>>
        /\ pc'[Owner] = "idle"
    BY <1>3, <1>4, <1>9 DEF StopJoin, Go, history, Threads
  <2> QED BY <1>1, <2>3, <2>4 DEF StopInv, StopCompletes
<1>10. CASE StopCall
  <2>1. /\ m_ths # {} /\ owed' = accepted /\ pc'[Owner] = "stop_drain"
        /\ UNCHANGED <<m_slots, m_ths, accepted>>
    BY <1>3, <1>4, <1>10 DEF StopCall, Threads
  <2> QED BY <1>1, <2>1 DEF StopInv, StopCompletes
<1>11. CASE InitSpawn
  <2>1. /\ m_ths' \subseteq m_slots' /\ m_slots' = m_slots /\ owed' = owed
        /\ pc'[Owner] = pc[Owner]
    BY <1>3, <1>4, <1>11
    DEF InitSpawn, StopInv, history, Threads, Conserved, Typed, TypeOK
  <2> QED BY <1>1, <1>2, <2>1 DEF StopInv, StopCompletes
<1>12. CASE StopFlag
  <2>1. UNCHANGED <<m_slots, m_ths, owed>> /\ pc[Owner] = "stop_flag"
    BY <1>12 DEF StopFlag, Go, history
  <2> QED BY <1>5, <2>1
<1>13. CASE InitReturn \/ InitCall \/ SpuriousWakeup \/ UNCHANGED vars
  <2>1. /\ UNCHANGED <<m_slots, m_ths, owed>>
        /\ pc'[Owner] \in {"stop_flag", "stop_join"} => pc'[Owner] = pc[Owner]
    BY <1>3, <1>4, <1>13 DEF InitReturn, InitCall, SpuriousWakeup, vars, Go,
                             flags, threads, history, Threads
  <2> QED BY <1>5, <2>1
<1> QED
  BY <1>6, <1>7, <1>8, <1>9, <1>10, <1>11, <1>12, <1>13
  DEF Next, ClientStep, OwnerStep

(* When stop() has returned every task accepted before it was called has   *)
(* been executed, or was discarded with its queue, although other clients  *)
(* may add tasks and remove queues during the drain.                       *)
THEOREM StopWaits == Spec => []StopCompletes
<1>1. Spec => [](Conserved /\ StopInv)
  <2>1. Init => Conserved /\ StopInv
    BY ConservedInit, StopInvInit
  <2>2. (Conserved /\ StopInv) /\ [Next]_vars => (Conserved /\ StopInv)'
    BY ConservedNext, StopInvNext
  <2> QED BY <2>1, <2>2, PTL DEF Spec
<1>2. StopInv => StopCompletes
  BY DEF StopInv
<1> QED BY <1>1, <1>2, PTL

-----------------------------------------------------------------------------
(* ThreadPool implements TaskPool, for any number of workers, clients,     *)
(* tasks and queues.  The tasks pending are those in the queues, the tasks *)
(* running those in the hands of a worker; TaskConservation, with its      *)
(* strengthening Conserved, is what makes each step of the queues a step   *)
(* of the abstract pool.                                                   *)

(* A step of the detailed pool that leaves the tasks where they are.       *)
TasksStay == UNCHANGED <<m_queue, task, done, dropped>>

(* It is a stuttering step of the abstract pool.                           *)
LEMMA StayStutters == TasksStay => UNCHANGED TP!vars
BY DEF TasksStay, TP!vars, Pending, Running

(* A worker without a task leaves room for one more: no two workers have   *)
(* the same task, and there are as many threads as workers.                *)
LEMMA RoomToRun ==
  ASSUME TypeOK, NEW w \in Workers, task[w] = NoTask
  PROVE  Cardinality(Running) < Cardinality(Workers)
<1> DEFINE Busy == {v \in Workers : task[v] # NoTask}
           f == [v \in Busy |-> task[v]]
<1>1. /\ IsFiniteSet(Workers \ {w})
      /\ Cardinality(Workers \ {w}) = Cardinality(Workers) - 1
      /\ Cardinality(Workers) \in Nat
  BY PoolAssumption, FS_RemoveElement, FS_CardinalityType
<1>2. Busy \in SUBSET (Workers \ {w})
  OBVIOUS
<1> HIDE DEF Busy
<1>3. IsFiniteSet(Busy) /\ Cardinality(Busy) <= Cardinality(Workers \ {w})
  BY <1>1, <1>2, FS_Subset
<1>4. Running = {task[v] : v \in Busy}
  BY DEF Running, Busy
<1>5. f \in Surjection(Busy, Running)
  BY <1>4 DEF Surjection
<1> HIDE DEF f
<1>6. IsFiniteSet(Running) /\ Cardinality(Running) <= Cardinality(Busy)
  BY <1>3, <1>5, FS_Surjection
<1>7. Cardinality(Running) \in Nat /\ Cardinality(Busy) \in Nat
  BY <1>3, <1>6, FS_CardinalityType
<1> QED BY <1>1, <1>3, <1>6, <1>7

(* front() that takes a task is Start.                                     *)
LEMMA TakeStarts ==
  ASSUME Conserved, Conserved', NEW w \in Workers, FrontTakes(w)
  PROVE  \E t \in Tasks : TP!Start(t)
<1>1. PICK q \in Present :
        /\ m_queue[q] # <<>>
        /\ task' = [task EXCEPT ![w] = Head(m_queue[q])]
        /\ m_queue' = [m_queue EXCEPT ![q] = Tail(@)]
  BY DEF FrontTakes, NextQueue
<1>2. /\ q \in Qids /\ m_queue[q] \in Seq(Tasks)
      /\ IsInjective(m_queue[q])
  BY ToSetType DEF Conserved, TaskConservation, Typed, TypeOK, Present
<1> DEFINE h == Head(m_queue[q])
           tl == Tail(m_queue[q])
<1>3. /\ h \in Tasks
      /\ ToSet(m_queue[q]) = {h} \cup ToSet(tl)
      /\ h \notin ToSet(tl)
  BY <1>1, <1>2, ToSetHeadTail, InjectiveTail
<1>4. /\ m_queue' = [m_queue EXCEPT ![q] = tl]
      /\ task' = [task EXCEPT ![w] = h]
      /\ task[w] = NoTask /\ h # NoTask
      /\ UNCHANGED <<done, dropped>>
  BY <1>1, <1>3, PoolAssumption
  DEF FrontTakes, history, Go, Conserved, Typed, ThreadState
<1> HIDE DEF h, tl
<1>5. \A p \in Qids : ToSet(m_queue'[p]) =
                        IF p = q THEN ToSet(tl) ELSE ToSet(m_queue[p])
  BY <1>2, <1>4 DEF Conserved, Typed, TypeOK
<1>6. \A p \in Qids : p # q => h \notin ToSet(m_queue[p])
  BY <1>2, <1>3 DEF Conserved, TaskConservation
<1>7. Pending' = Pending \ {h} /\ h \in Pending
  BY <1>2, <1>3, <1>5, <1>6 DEF Pending
<1>8. Running' = Running \cup {h}
  <2>1. task'[w] = h /\ \A v \in Workers : v # w => task'[v] = task[v]
    BY <1>4 DEF Conserved, Typed, TypeOK
  <2> QED BY <1>4, <2>1 DEF Running
<1>9. Cardinality(Running) < Cardinality(Workers)
  BY <1>4, RoomToRun DEF Conserved, Typed
<1>10. TP!Cardinality(Running) = Cardinality(Running)
  BY DEF TP!Cardinality, Cardinality, TP!IsFiniteSet, IsFiniteSet
<1>11. TP!Start(h)
  BY <1>4, <1>7, <1>8, <1>9, <1>10 DEF TP!Start
<1> QED BY <1>3, <1>11

(* The end of a task is Finish.                                            *)
LEMMA RunFinishes ==
  ASSUME Conserved, NEW w \in Workers, RunTask(w)
  PROVE  \E t \in Tasks : TP!Finish(t)
<1>1. /\ task[w] # NoTask /\ task[w] \in Tasks
      /\ task' = [task EXCEPT ![w] = NoTask]
      /\ done' = done \cup {task[w]}
      /\ UNCHANGED <<m_queue, dropped>>
  BY DEF RunTask, Go, queues, Conserved, Typed, TypeOK, ThreadState
<1>2. task[w] \in Running /\ Running' = Running \ {task[w]}
  <2>1. \A v \in Workers : v # w => task'[v] = task[v] /\ task[v] # task[w]
    BY <1>1 DEF Conserved, Typed, TypeOK, TaskConservation
  <2>2. task'[w] = NoTask
    BY <1>1 DEF Conserved, Typed, TypeOK
  <2> QED BY <1>1, <2>1, <2>2 DEF Running
<1>3. Pending' = Pending
  BY <1>1 DEF Pending
<1>4. TP!Finish(task[w])
  BY <1>1, <1>2, <1>3 DEF TP!Finish
<1> QED BY <1>1, <1>4

(* An add() that finds its queue is Submit, any other is no step.          *)
LEMMA PushSubmits ==
  ASSUME Conserved, NEW c \in Clients, Push(c)
  PROVE  (\E t \in Tasks : TP!Submit(t)) \/ UNCHANGED TP!vars
<1> DEFINE q == arg[c][1]
           t == arg[c][2]
<1>1. /\ q \in Qids /\ t \in Tasks /\ t \notin accepted
      /\ UNCHANGED <<task, done, dropped>>
  <2>1. arg[c] # NoArg
    BY DEF Push, Go, Conserved, Typed, ThreadState
  <2>2. arg[c] \in Qids \X Tasks
    BY <2>1 DEF Conserved, Typed, TypeOK
  <2> QED BY <2>1, <2>2 DEF Push, Conserved, ArgsFresh
<1>2. m_queue' = [m_queue EXCEPT ![q] = Append(@, t)] \/ UNCHANGED m_queue
  BY DEF Push
<1> HIDE DEF q, t
<1>3. CASE UNCHANGED m_queue
  BY <1>1, <1>3, StayStutters DEF TasksStay
<1>4. CASE m_queue' = [m_queue EXCEPT ![q] = Append(@, t)]
  <2>1. ToSet(Append(m_queue[q], t)) = ToSet(m_queue[q]) \cup {t}
    BY <1>1, ToSetAppend DEF Conserved, Typed, TypeOK
  <2>2. \A p \in Qids : ToSet(m_queue'[p]) =
          IF p = q THEN ToSet(m_queue[q]) \cup {t} ELSE ToSet(m_queue[p])
    BY <1>1, <1>4, <2>1 DEF Conserved, Typed, TypeOK
  <2>3. Pending' = Pending \cup {t}
    BY <1>1, <2>2 DEF Pending
  <2>4. Running' = Running
    BY <1>1 DEF Running
  <2>5. t \notin Pending \cup Running \cup done \cup dropped
    BY <1>1 DEF Conserved, TaskConservation
  <2>6. TP!Submit(t)
    BY <1>1, <2>3, <2>4, <2>5 DEF TP!Submit
  <2> QED BY <1>1, <2>6
<1> QED BY <1>2, <1>3, <1>4

(* A remove_queue() that finds its queue is Discard of what waits in it.   *)
LEMMA RemoveDiscards ==
  ASSUME Conserved, NEW c \in Clients, RemoveQueue(c)
  PROVE  (\E S \in SUBSET Tasks : TP!Discard(S)) \/ UNCHANGED TP!vars
<1>1. PICK q \in Qids :
        \/ /\ m_queue' = [m_queue EXCEPT ![q] = <<>>]
           /\ dropped' = dropped \cup ToSet(m_queue[q])
        \/ UNCHANGED <<m_queue, dropped>>
  BY DEF RemoveQueue, queues
<1>2. UNCHANGED <<task, done>>
  BY DEF RemoveQueue, threads
<1>3. CASE UNCHANGED <<m_queue, dropped>>
  BY <1>2, <1>3, StayStutters DEF TasksStay
<1>4. CASE /\ m_queue' = [m_queue EXCEPT ![q] = <<>>]
           /\ dropped' = dropped \cup ToSet(m_queue[q])
  <2>1. \A p \in Qids : ToSet(m_queue'[p]) =
                          IF p = q THEN {} ELSE ToSet(m_queue[p])
    BY <1>4 DEF Conserved, Typed, TypeOK, ToSet
  <2>2. ToSet(m_queue[q]) \subseteq Pending /\ ToSet(m_queue[q]) \subseteq Tasks
    BY ToSetType DEF Pending, Conserved, Typed, TypeOK
  <2>3. Pending' = Pending \ ToSet(m_queue[q])
    BY <2>1 DEF Pending, Conserved, TaskConservation
  <2>4. Running' = Running
    BY <1>2 DEF Running
  <2>5. TP!Discard(ToSet(m_queue[q]))
    BY <1>2, <1>4, <2>2, <2>3, <2>4 DEF TP!Discard
  <2> QED BY <2>2, <2>5
<1> QED BY <1>1, <1>3, <1>4

(* An empty pool at first.                                                 *)
LEMMA TaskPoolInit == Init => TP!Init
<1> SUFFICES ASSUME Init PROVE TP!Init
  OBVIOUS
<1>1. Pending = {} /\ Running = {}
  BY DEF Init, Pending, Running, ToSet
<1> QED BY <1>1 DEF Init, TP!Init

(* Every step of the pool is a step of the abstract one, or none.          *)
LEMMA TaskPoolNext ==
  Conserved /\ Conserved' /\ [Next]_vars => [TP!Next]_(TP!vars)
<1> SUFFICES ASSUME Conserved, Conserved', [Next]_vars
             PROVE  TP!Next \/ UNCHANGED TP!vars
  OBVIOUS
<1>1. ASSUME NEW w \in Workers, WorkerStep(w)
      PROVE  TP!Next \/ UNCHANGED TP!vars
  <2>1. CASE FrontTakes(w)
    BY <2>1, TakeStarts DEF TP!Next
  <2>2. CASE RunTask(w)
    BY <2>2, RunFinishes DEF TP!Next
  <2>3. CASE \/ WorkerLoop(w) \/ FrontThrows(w) \/ FrontCrashes(w)
             \/ Pop(w) \/ PopThrows(w) \/ WaitCloseable(w)
    <3>1. TasksStay
      BY <2>3 DEF TasksStay, WorkerLoop, FrontThrows, FrontCrashes, Pop,
                  PopThrows, WaitCloseable, queues, threads, history
    <3> QED BY <3>1, StayStutters
  <2> QED BY <1>1, <2>1, <2>2, <2>3 DEF WorkerStep
<1>2. ASSUME NEW c \in Clients, ClientStep(c) \/ ClientCall(c)
      PROVE  TP!Next \/ UNCHANGED TP!vars
  <2>1. CASE Push(c)
    BY <2>1, PushSubmits DEF TP!Next
  <2>2. CASE RemoveQueue(c)
    BY <2>2, RemoveDiscards DEF TP!Next
  <2>3. CASE WaitEmpty(c) \/ WaitEmptyCall(c) \/ AddCall(c) \/ NewQueue(c)
    <3>1. TasksStay
      BY <2>3 DEF TasksStay, WaitEmpty, WaitEmptyCall, AddCall, NewQueue,
                  queues, threads, history
    <3> QED BY <3>1, StayStutters
  <2> QED BY <1>2, <2>1, <2>2, <2>3 DEF ClientStep, ClientCall
<1>3. CASE OwnerStep \/ InitCall \/ StopCall \/ SpuriousWakeup \/ UNCHANGED vars
  <2>1. TasksStay
    BY <1>3 DEF TasksStay, OwnerStep, InitSpawn, InitReturn, StopFlag, StopJoin,
                InitCall, StopCall, SpuriousWakeup, vars, flags, queues,
                threads, history
  <2> QED BY <2>1, StayStutters
<1> QED BY <1>1, <1>2, <1>3 DEF Next

(* The pool promises what TaskPool states, through any interleaving of     *)
(* add(), remove_queue(), stop() and the workers: a task runs once, among  *)
(* no more than Cardinality(Workers) at a time, and only a queue that is   *)
(* removed takes tasks with it.                                            *)
THEOREM PoolRefinesTaskPool == Spec => PoolImplementsTaskPool
<1>1. Spec => []Conserved
  BY ConservedInit, ConservedNext, PTL DEF Spec
<1>2. Spec => TP!Init /\ [][TP!Next]_(TP!vars)
  BY <1>1, TaskPoolInit, TaskPoolNext, PTL DEF Spec
<1> QED BY <1>2 DEF PoolImplementsTaskPool, TP!Spec

-----------------------------------------------------------------------------
(* The wakeups.  add(), front() and remove_queue() signal m_q_cond once,   *)
(* workers and clients sleep on it together, and only pop() and stop()     *)
(* broadcast: that the right thread is awake in the end is an invariant of *)
(* all of them together.                                                   *)
(*                                                                         *)
(* The first theorem is about every program of the clients, the others     *)
(* about programs that do not call remove_queue(), as low_saurion.c does   *)
(* not: with it they are false.  The last part is about what such programs *)
(* can also rely on: the limits of the queues, and an iterator in front()  *)
(* that is never of an erased element.                                     *)

NoRemoval == \A c \in Clients : "remove_queue" \notin Program[c]

Draining == {"wait_empty", "stop_drain"}

(* Who may be in the wait set: a worker in wait_closeable(), a client in   *)
(* wait_empty() or in the drain of stop().                                 *)
SleepState ==
  /\ \A w \in Workers \cap waiting : pc[w] = "closeable"
  /\ \A c \in Clients \cap waiting : pc[c] \in Draining

AwakeInv == AbsentEmpty /\ SleepState /\ AsleepOnlyBehindWaiter

(* The queue of a task in execution is there, and front() served one that  *)
(* is.                                                                     *)
QueuesKept ==
  /\ m_it \in Present
  /\ \A w \in Workers : pc[w] \in {"run", "pop"} => qid[w] \in Present

SharedInv ==
  /\ AbsentEmpty /\ SleepState /\ QueuesKept
  /\ WakeupToCome /\ SomeWorkerAwake

-----------------------------------------------------------------------------
(* What a step may do to the queues.                                       *)

(* Erasing an entry of the map adds none.                                  *)
LEMMA ToSetRemoveAtShrinks ==
  ASSUME NEW S, NEW s \in Seq(S), NEW i \in DOMAIN s
  PROVE  ToSet(RemoveAt(s, i)) \subseteq ToSet(s)
<1>1. /\ Len(s) \in Nat /\ DOMAIN s = 1..Len(s)
      /\ i \in 1..Len(s)
  BY LenProperties
<1> DEFINE a == SubSeq(s, 1, i-1)
           b == SubSeq(s, i+1, Len(s))
<1>2. /\ a \in Seq(S) /\ Len(a) = i-1
      /\ \A j \in 1..i-1 : a[j] = s[j]
  BY <1>1
<1>3. /\ b \in Seq(S) /\ Len(b) = Len(s) - i
      /\ \A j \in 1..Len(s)-i : b[j] = s[i+j]
  BY <1>1
<1>4. RemoveAt(s, i) = a \o b
  BY DEF RemoveAt
<1> HIDE DEF a, b
<1>5. /\ DOMAIN (a \o b) = 1..Len(a)+Len(b)
      /\ \A j \in 1..Len(a)+Len(b) :
           (a \o b)[j] = IF j <= Len(a) THEN a[j] ELSE b[j - Len(a)]
  <2>1. a \in Seq(S) /\ b \in Seq(S)
    BY <1>2, <1>3
  <2>2. /\ a \o b \in Seq(S) /\ Len(a \o b) = Len(a) + Len(b)
        /\ \A j \in 1 .. Len(a) + Len(b) :
             (a \o b)[j] = IF j <= Len(a) THEN a[j] ELSE b[j - Len(a)]
    BY <2>1, ConcatProperties, Zenon
  <2>3. DOMAIN (a \o b) = 1 .. Len(a \o b)
    BY <2>2, LenProperties, Zenon
  <2> QED BY <2>2, <2>3, Zenon
<1>6. SUFFICES ASSUME NEW j \in 1..Len(a)+Len(b)
               PROVE  (a \o b)[j] \in ToSet(s)
  BY <1>4, <1>5 DEF ToSet
<1>7. CASE j <= Len(a)
  <2>1. j \in 1..i-1 /\ j \in 1..Len(s) /\ (a \o b)[j] = a[j]
    BY <1>1, <1>2, <1>3, <1>5, <1>7
  <2> QED BY <1>1, <1>2, <2>1 DEF ToSet
<1>8. CASE j > Len(a)
  <2> DEFINE k == j - Len(a)
  <2>1. k \in 1..Len(s)-i /\ i+k \in 1..Len(s) /\ (a \o b)[j] = b[k]
    BY SMTT(30), <1>1, <1>2, <1>3, <1>5, <1>8
  <2> HIDE DEF k
  <2> QED BY <1>1, <1>3, <2>1 DEF ToSet
<1> QED BY <1>2, <1>3, <1>7, <1>8

(* The steps that touch the map or the tasks in it.                        *)
LEMMA QueueSteps ==
  ASSUME [Next]_vars
  PROVE  \/ \E w \in Workers : FrontTakes(w)
         \/ \E c \in Clients : Push(c) \/ NewQueue(c) \/ RemoveQueue(c)
         \/ UNCHANGED <<m_queues, m_queue>>
<1>1. ASSUME NEW w \in Workers,
             \/ WorkerLoop(w) \/ FrontThrows(w) \/ FrontCrashes(w) \/ RunTask(w)
             \/ Pop(w) \/ PopThrows(w) \/ WaitCloseable(w)
      PROVE  UNCHANGED <<m_queues, m_queue>>
  BY <1>1 DEF WorkerLoop, FrontThrows, FrontCrashes, RunTask, Pop, PopThrows,
              WaitCloseable, queues
<1>2. ASSUME NEW c \in Clients, WaitEmpty(c) \/ WaitEmptyCall(c) \/ AddCall(c)
      PROVE  UNCHANGED <<m_queues, m_queue>>
  BY <1>2 DEF WaitEmpty, WaitEmptyCall, AddCall, queues
<1>3. ASSUME OwnerStep \/ InitCall \/ StopCall \/ SpuriousWakeup \/ UNCHANGED vars
      PROVE  UNCHANGED <<m_queues, m_queue>>
  BY <1>3 DEF OwnerStep, InitSpawn, InitReturn, StopFlag, StopJoin, InitCall,
              StopCall, SpuriousWakeup, vars, queues
<1> QED
  BY <1>1, <1>2, <1>3 DEF Next, WorkerStep, ClientStep, ClientCall

(* new_queue() adds the queue it names, and only it.                       *)
LEMMA NewQueueAdds ==
  ASSUME Typed, NEW c \in Clients, NewQueue(c)
  PROVE  /\ UNCHANGED m_queue
         /\ \E q \in Qids \ Present, max \in Limits :
              Present' = Present \cup {q} /\ m_max' = [m_max EXCEPT ![q] = max]
<1>1. PICK q \in Qids \ Present, max \in Limits :
        /\ m_queues' \in SetToSeqs(Present \cup {q})
        /\ m_max' = [m_max EXCEPT ![q] = max]
  BY DEF NewQueue
<1>2. IsFiniteSet(Present \cup {q})
  BY ToSetType, FS_AddElement DEF Typed, TypeOK, Present
<1>3. Present' = Present \cup {q}
  BY <1>1, <1>2, ToSetPermutation DEF Present
<1> QED BY <1>1, <1>3 DEF NewQueue

(* remove_queue() takes queues and tasks away.                             *)
LEMMA RemoveQueueShrinks ==
  ASSUME Typed, NEW c \in Clients, RemoveQueue(c)
  PROVE  /\ Present' \subseteq Present
         /\ \A q \in Qids : m_queue'[q] # <<>> => m_queue'[q] = m_queue[q]
<1>1. PICK q \in Qids :
        IF q \in Present
          THEN /\ m_queues' = RemoveAt(m_queues, Position(q))
               /\ m_queue' = [m_queue EXCEPT ![q] = <<>>]
          ELSE UNCHANGED <<m_queues, m_queue>>
  BY DEF RemoveQueue, queues
<1>2. CASE q \in Present
  <2>1. Position(q) \in DOMAIN m_queues /\ m_queues \in Seq(Qids)
    BY <1>2, PositionType DEF Typed, TypeOK
  <2>2. Present' \subseteq Present
    BY <1>1, <1>2, <2>1, ToSetRemoveAtShrinks DEF Present
  <2> QED BY <1>1, <1>2, <2>2 DEF Typed, TypeOK
<1>3. CASE q \notin Present
  BY <1>1, <1>3 DEF Present
<1> QED BY <1>2, <1>3

(* Tasks come to an empty pool by add() alone.                             *)
LEMMA OnlyPushFills ==
  ASSUME Typed, AbsentEmpty, [Next]_vars, Empty, ~Empty'
  PROVE  \E c \in Clients : Push(c)
<1>1. \A q \in Qids : m_queue[q] = <<>>
  BY DEF AbsentEmpty, Empty
<1>2. PICK q \in Present' : m_queue'[q] # <<>>
  BY DEF Empty
<1>3. ASSUME NEW w \in Workers, FrontTakes(w)
      PROVE  FALSE
  <2>1. PICK p \in Present : m_queue[p] # <<>>
    BY <1>3 DEF FrontTakes, NextQueue
  <2> QED BY <2>1 DEF Empty
<1>4. ASSUME NEW c \in Clients, NewQueue(c)
      PROVE  FALSE
  <2>1. Present' \subseteq Qids /\ UNCHANGED m_queue
    BY <1>4, NewQueueAdds, ToSetType DEF Typed, TypeOK, Present
  <2> QED BY <1>1, <1>2, <2>1
<1>5. ASSUME NEW c \in Clients, RemoveQueue(c)
      PROVE  FALSE
  <2>1. /\ Present' \subseteq Qids
        /\ \A p \in Qids : m_queue'[p] # <<>> => m_queue'[p] = m_queue[p]
    BY <1>5, RemoveQueueShrinks, ToSetType DEF Typed, TypeOK, Present
  <2> QED BY <1>1, <1>2, <2>1
<1>6. ASSUME UNCHANGED <<m_queues, m_queue>>
      PROVE  FALSE
  BY <1>6 DEF Empty, Present
<1> QED BY <1>3, <1>4, <1>5, <1>6, QueueSteps

(* The last task leaves its queue for a worker or with its queue.          *)
LEMMA OnlyTakeEmpties ==
  ASSUME Typed, [Next]_vars, ~Empty, Empty'
  PROVE  \/ \E w \in Workers : FrontTakes(w)
         \/ \E c \in Clients : RemoveQueue(c)
<1>1. PICK q \in Present : m_queue[q] # <<>>
  BY DEF Empty
<1>2. q \in Qids
  BY ToSetType DEF Typed, TypeOK, Present
<1>3. ASSUME NEW c \in Clients, Push(c)
      PROVE  FALSE
  <2>1. \/ UNCHANGED m_queue
        \/ \E p \in Present : m_queue' = [m_queue EXCEPT ![p] = Append(@, arg[c][2])]
    BY <1>3 DEF Push
  <2>2. m_queues' = m_queues
    BY <1>3 DEF Push
  <2>3. m_queue[q] \in Seq(Tasks) /\ m_queue \in [Qids -> Seq(Tasks)]
    BY <1>2 DEF Typed, TypeOK
  <2>4. arg[c][2] \in Tasks
    BY <1>3 DEF Push, Go, Typed, TypeOK, ThreadState
  <2>5. Append(m_queue[q], arg[c][2]) # <<>>
    BY <2>3, <2>4, AppendProperties
  <2>6. m_queue'[q] # <<>>
    BY <1>1, <1>2, <2>1, <2>3, <2>5
  <2> QED BY <1>1, <2>2, <2>6 DEF Empty, Present
<1>4. ASSUME NEW c \in Clients, NewQueue(c)
      PROVE  FALSE
  <2>1. Present \subseteq Present' /\ UNCHANGED m_queue
    BY <1>4, NewQueueAdds
  <2> QED BY <1>1, <2>1 DEF Empty
<1>5. ASSUME UNCHANGED <<m_queues, m_queue>>
      PROVE  FALSE
  BY <1>5 DEF Empty, Present
<1> QED BY <1>3, <1>4, <1>5, QueueSteps

-----------------------------------------------------------------------------
(* What a step may do to the wait set.                                     *)

(* Every position is a string of its own, and a thread is a worker or a    *)
(* client.                                                                 *)
LEMMA Positions ==
  ASSUME Typed
  PROVE  /\ DOMAIN pc = Threads /\ pc = [t \in Threads |-> pc[t]]
         /\ waiting \subseteq Threads
         /\ Workers \cap Clients = {} /\ Owner \in Clients
         /\ Threads = Workers \cup Clients
BY PoolAssumption DEF Typed, TypeOK, Threads

(* Nobody sleeps anywhere but in the two loops.                            *)
LEMMA SleepStateNext ==
  ASSUME Typed, SleepState, [Next]_vars
  PROVE  SleepState'
<1> USE Positions DEF SleepState, Draining
<1>1. ASSUME NEW t \in Threads, t \notin waiting, waiting' \subseteq waiting,
             NEW p, pc' = [pc EXCEPT ![t] = p]
      PROVE  SleepState'
  BY <1>1
<1>2. ASSUME waiting' \subseteq waiting, UNCHANGED pc
      PROVE  SleepState'
  BY <1>2
<1>3. ASSUME NEW w \in Workers, WorkerStep(w)
      PROVE  SleepState'
  <2>1. CASE WaitCloseable(w)
    <3>1. \/ waiting' = waiting \cup {w} /\ pc[w] = "closeable" /\ UNCHANGED pc
          \/ w \notin waiting /\ waiting' = waiting /\ pc' = [pc EXCEPT ![w] = "loop"]
      BY <2>1 DEF WaitCloseable
    <3>2. w \in Threads
      OBVIOUS
    <3> QED BY <1>1, <3>1, <3>2
  <2>2. CASE FrontCrashes(w)
    BY <1>2, <2>2 DEF FrontCrashes, threads
  <2>3. CASE \/ WorkerLoop(w) \/ FrontThrows(w) \/ FrontTakes(w) \/ RunTask(w)
             \/ Pop(w) \/ PopThrows(w)
    <3>1. waiting' \subseteq waiting
      BY <2>3, SignalShrinks DEF WorkerLoop, FrontThrows, FrontTakes, RunTask, Pop,
                                 PopThrows, CondBroadcast
    <3>2. /\ pc[w] \in {"loop", "front", "run", "pop"}
          /\ \E p : pc' = [pc EXCEPT ![w] = p]
      BY <2>3 DEF WorkerLoop, FrontThrows, FrontTakes, RunTask, Pop, PopThrows, Go
    <3>3. w \in Threads /\ w \notin waiting
      BY <3>2
    <3> QED BY <1>1, <3>1, <3>2, <3>3
  <2> QED BY <1>3, <2>1, <2>2, <2>3 DEF WorkerStep
<1>4. ASSUME NEW c \in Clients, ClientStep(c) \/ ClientCall(c)
      PROVE  SleepState'
  <2>1. CASE WaitEmpty(c)
    <3>1. \/ /\ waiting' = waiting \cup {c} /\ pc[c] \in Draining /\ UNCHANGED pc
          \/ /\ c \notin waiting /\ waiting' = waiting
             /\ \E p : pc' = [pc EXCEPT ![c] = p]
      BY <2>1 DEF WaitEmpty
    <3>2. c \in Threads
      OBVIOUS
    <3> QED BY <1>1, <3>1, <3>2
  <2>2. CASE NewQueue(c) \/ RemoveQueue(c)
    BY <1>2, <2>2, SignalShrinks DEF NewQueue, RemoveQueue, threads
  <2>3. CASE Push(c) \/ WaitEmptyCall(c) \/ AddCall(c)
    <3>1. waiting' \subseteq waiting
      BY <2>3, SignalShrinks DEF Push, WaitEmptyCall, AddCall
    <3>2. pc[c] \in {"push", "idle"} /\ \E p : pc' = [pc EXCEPT ![c] = p]
      BY <2>3 DEF Push, WaitEmptyCall, AddCall, Go, Calls
    <3>3. c \in Threads /\ c \notin waiting
      BY <3>2
    <3> QED BY <1>1, <3>1, <3>2, <3>3
  <2> QED BY <1>4, <2>1, <2>2, <2>3 DEF ClientStep, ClientCall
<1>5. CASE InitSpawn
  <2>1. PICK w \in m_slots \ m_ths : pc' = [pc EXCEPT ![w] = "loop"]
    BY <1>5 DEF InitSpawn
  <2>2. w \in Workers /\ pc[w] \in {"none", "exited"}
    BY DEF Typed, TypeOK, ThreadState
  <2>3. w \in Threads /\ w \notin waiting /\ waiting' = waiting
    BY <1>5, <2>2 DEF InitSpawn
  <2> QED BY <1>1, <2>1, <2>3
<1>6. CASE InitReturn \/ StopFlag \/ StopJoin \/ InitCall \/ StopCall
  <2>1. waiting' \subseteq waiting
    BY <1>6 DEF InitReturn, StopFlag, StopJoin, InitCall, StopCall, CondBroadcast
  <2>2. /\ pc[Owner] \in {"spawn", "stop_flag", "stop_join", "idle"}
        /\ \E p : pc' = [pc EXCEPT ![Owner] = p]
    BY <1>6 DEF InitReturn, StopFlag, StopJoin, InitCall, StopCall, Go, Calls
  <2>3. Owner \in Threads /\ Owner \notin waiting
    BY <2>2
  <2> QED BY <1>1, <2>1, <2>2, <2>3
<1>7. CASE SpuriousWakeup \/ UNCHANGED vars
  BY <1>2, <1>7 DEF SpuriousWakeup, vars, threads
<1> QED BY <1>3, <1>4, <1>5, <1>6, <1>7 DEF Next, OwnerStep

(* If all the threads sleep after a step that found tasks in the queues,   *)
(* they all slept before it: a worker only goes to sleep beside empty      *)
(* queues.                                                                 *)
LEMMA AsleepBefore ==
  ASSUME Typed, SleepState, [Next]_vars, ~Empty,
         m_ths' # {}, m_ths' \subseteq waiting'
  PROVE  m_ths' = m_ths /\ m_ths \subseteq waiting
<1> USE Positions
<1>1. m_ths \subseteq Workers /\ m_ths' \subseteq Workers
  BY TypedNext DEF Typed, TypeOK
<1>2. ASSUME NEW w \in Workers, WorkerStep(w)
      PROVE  m_ths' = m_ths /\ waiting' \subseteq waiting
  BY <1>2, SignalShrinks
  DEF WorkerStep, WorkerLoop, FrontThrows, FrontTakes, FrontCrashes, RunTask,
      Pop, PopThrows, WaitCloseable, CondBroadcast, flags
<1>3. ASSUME NEW c \in Clients, ClientStep(c) \/ ClientCall(c)
      PROVE  m_ths' = m_ths /\ waiting' \subseteq waiting \cup Clients
  BY <1>3, SignalShrinks
  DEF ClientStep, ClientCall, WaitEmpty, Push, WaitEmptyCall, AddCall, NewQueue,
      RemoveQueue, flags
<1>4. CASE InitSpawn
  <2>1. PICK w \in m_slots \ m_ths : m_ths' = m_ths \cup {w}
    BY <1>4 DEF InitSpawn
  <2>2. w \in Workers /\ pc[w] \in {"none", "exited"}
    BY DEF Typed, TypeOK, ThreadState
  <2>3. w \notin waiting /\ waiting' = waiting
    BY <1>4, <2>2 DEF InitSpawn, SleepState
  <2> QED BY <2>1, <2>3
<1>5. CASE StopJoin
  BY <1>5 DEF StopJoin
<1>6. CASE InitReturn \/ StopFlag \/ InitCall \/ StopCall
           \/ SpuriousWakeup \/ UNCHANGED vars
  BY <1>6 DEF InitReturn, StopFlag, InitCall, StopCall, SpuriousWakeup, vars,
              flags, CondBroadcast
<1> QED BY <1>1, <1>2, <1>3, <1>4, <1>5, <1>6 DEF Next, OwnerStep

(* If all the threads sleep after an add(), its signal went to a client in *)
(* wait_empty(), which did not move.                                       *)
LEMMA SignalStolen ==
  ASSUME Typed, SleepState, NEW c \in Clients, Push(c),
         m_ths' # {}, m_ths' \subseteq waiting'
  PROVE  /\ m_ths \subseteq waiting
         /\ \E d \in Clients \cap waiting : pc[d] \in Draining /\ pc'[d] = pc[d]
<1> USE Positions
<1>1. /\ m_ths' = m_ths /\ pc[c] = "push"
      /\ pc' = [pc EXCEPT ![c] = "idle"]
      /\ CondSignal
  BY DEF Push, Go, flags
<1>2. PICK t \in waiting : waiting' = waiting \ {t}
  BY <1>1 DEF CondSignal
<1>3. t \notin Workers
  BY <1>1, <1>2 DEF SleepState, Typed, ThreadState
<1>4. t \in Clients /\ pc[t] \in Draining
  BY <1>3 DEF SleepState
<1>5. t # c
  BY <1>1, <1>4 DEF Draining
<1> QED BY <1>1, <1>2, <1>4, <1>5

(* A client leaves wait_empty() only when the queues are empty.            *)
LEMMA DrainersStay ==
  ASSUME Typed, [Next]_vars, ~Empty, NEW c \in Clients, pc[c] \in Draining
  PROVE  pc'[c] = pc[c]
<1> USE Positions DEF Draining
<1>1. ASSUME NEW w \in Workers, WorkerStep(w)
      PROVE  pc'[c] = pc[c]
  BY <1>1
  DEF WorkerStep, WorkerLoop, FrontThrows, FrontTakes, FrontCrashes, RunTask,
      Pop, PopThrows, WaitCloseable, Go, threads
<1>2. ASSUME NEW d \in Clients, ClientStep(d) \/ ClientCall(d)
      PROVE  pc'[c] = pc[c]
  BY <1>2
  DEF ClientStep, ClientCall, WaitEmpty, Push, WaitEmptyCall, AddCall, NewQueue,
      RemoveQueue, Go, Calls, threads
<1>3. CASE InitSpawn
  <2>1. PICK w \in m_slots \ m_ths : pc' = [pc EXCEPT ![w] = "loop"]
    BY <1>3 DEF InitSpawn
  <2>2. w \in Workers
    BY DEF Typed, TypeOK
  <2> QED BY <2>1, <2>2
<1>4. CASE \/ InitReturn \/ StopFlag \/ StopJoin \/ InitCall \/ StopCall
           \/ SpuriousWakeup \/ UNCHANGED vars
  BY <1>4 DEF InitReturn, StopFlag, StopJoin, InitCall, StopCall, SpuriousWakeup,
              vars, Go, Calls, threads
<1> QED BY <1>1, <1>2, <1>3, <1>4 DEF Next, OwnerStep

-----------------------------------------------------------------------------
(* Every program.                                                          *)

(* Initially nobody sleeps.                                                *)
LEMMA AwakeInvInit == Init => AwakeInv
<1> SUFFICES ASSUME Init PROVE AwakeInv
  OBVIOUS
<1> QED BY DEF Init, AwakeInv, AbsentEmpty, SleepState, AsleepOnlyBehindWaiter

(* Every step of any program keeps the threads awake, or behind a waiter.  *)
LEMMA AwakeInvNext == Typed /\ AwakeInv /\ [Next]_vars => AwakeInv'
<1> SUFFICES ASSUME Typed, AwakeInv, [Next]_vars
             PROVE  AwakeInv'
  OBVIOUS
<1>1. AbsentEmpty' /\ SleepState'
  BY AbsentEmptyNext, SleepStateNext DEF AwakeInv
<1>2. SUFFICES ASSUME m_ths' # {}, ~Empty', m_ths' \subseteq waiting'
               PROVE  \E c \in Clients : pc'[c] \in Draining
  BY <1>1 DEF AwakeInv, AsleepOnlyBehindWaiter, Draining
<1>3. CASE Empty
  <2>1. PICK c \in Clients : Push(c)
    BY <1>2, <1>3, OnlyPushFills DEF AwakeInv
  <2>2. PICK d \in Clients : pc[d] \in Draining /\ pc'[d] = pc[d]
    BY <1>2, <2>1, SignalStolen DEF AwakeInv
  <2> QED BY <2>2
<1>4. CASE ~Empty
  <2>1. m_ths' = m_ths /\ m_ths \subseteq waiting
    BY <1>2, <1>4, AsleepBefore DEF AwakeInv
  <2>2. PICK c \in Clients : pc[c] \in Draining
    BY <1>2, <1>4, <2>1 DEF AwakeInv, AsleepOnlyBehindWaiter, Draining
  <2> QED BY <1>4, <2>2, DrainersStay
<1> QED BY <1>3, <1>4

(* Whatever queues are removed under tasks and waiting clients: if all the *)
(* threads sleep while a task waits, a client is in wait_empty() or in the *)
(* drain of stop(), which took the signal of an add().                     *)
THEOREM AsleepBehindWaiter == Spec => []AsleepOnlyBehindWaiter
<1>1. Spec => [](Typed /\ AwakeInv)
  <2>1. Init => Typed /\ AwakeInv
    BY TypedInit, AwakeInvInit
  <2>2. (Typed /\ AwakeInv) /\ [Next]_vars => (Typed /\ AwakeInv)'
    BY TypedNext, AwakeInvNext
  <2> QED BY <2>1, <2>2, PTL DEF Spec
<1>2. AwakeInv => AsleepOnlyBehindWaiter
  BY DEF AwakeInv
<1> QED BY <1>1, <1>2, PTL

-----------------------------------------------------------------------------
(* Programs without remove_queue().                                        *)

(* A queue that was made stays.                                            *)
LEMMA PresentGrows ==
  ASSUME NoRemoval, Typed, [Next]_vars
  PROVE  Present \subseteq Present'
<1>1. ASSUME NEW w \in Workers, FrontTakes(w)
      PROVE  Present' = Present
  BY <1>1 DEF FrontTakes, Present
<1>2. ASSUME NEW c \in Clients, Push(c)
      PROVE  Present' = Present
  BY <1>2 DEF Push, Present
<1>3. ASSUME NEW c \in Clients, NewQueue(c)
      PROVE  Present \subseteq Present'
  BY <1>3, NewQueueAdds
<1>4. ASSUME NEW c \in Clients, RemoveQueue(c)
      PROVE  FALSE
  BY <1>4 DEF RemoveQueue, Calls, NoRemoval
<1>5. CASE UNCHANGED <<m_queues, m_queue>>
  BY <1>5 DEF Present
<1> QED BY <1>1, <1>2, <1>3, <1>4, <1>5, QueueSteps

(* A worker begins a task in front() and is done with it in pop(); qid is  *)
(* set by front() alone.                                                   *)
LEMMA UsersNext ==
  ASSUME Typed, [Next]_vars, NEW v \in Workers, pc'[v] \in {"run", "pop"},
         ~FrontTakes(v)
  PROVE  pc[v] \in {"run", "pop"} /\ qid'[v] = qid[v]
<1> USE Positions
<1>1. qid \in [Workers -> Qids]
  BY DEF Typed, TypeOK
<1>2. ASSUME NEW w \in Workers, WorkerStep(w)
      PROVE  pc[v] \in {"run", "pop"} /\ qid'[v] = qid[v]
  <2>1. CASE FrontTakes(w)
    <3>1. v # w
      BY <2>1
    <3>2. /\ \E p : pc' = [pc EXCEPT ![w] = p]
          /\ \E q : qid' = [qid EXCEPT ![w] = q]
      BY <2>1 DEF FrontTakes, Go
    <3> QED BY <1>1, <3>1, <3>2
  <2>2. CASE \/ WorkerLoop(w) \/ FrontThrows(w) \/ FrontCrashes(w) \/ RunTask(w)
             \/ Pop(w) \/ PopThrows(w) \/ WaitCloseable(w)
    BY <2>2 DEF WorkerLoop, FrontThrows, FrontCrashes, RunTask, Pop, PopThrows,
                WaitCloseable, Go, threads
  <2> QED BY <1>2, <2>1, <2>2 DEF WorkerStep
<1>3. ASSUME NEW d \in Clients, ClientStep(d) \/ ClientCall(d)
      PROVE  pc[v] \in {"run", "pop"} /\ qid'[v] = qid[v]
  <2>1. qid' = qid /\ (UNCHANGED pc \/ \E p : pc' = [pc EXCEPT ![d] = p])
    BY <1>3
    DEF ClientStep, ClientCall, WaitEmpty, Push, WaitEmptyCall, AddCall, NewQueue,
        RemoveQueue, Go, threads
  <2> QED BY <2>1
<1>4. CASE OwnerStep \/ InitCall \/ StopCall \/ SpuriousWakeup \/ UNCHANGED vars
  BY <1>4 DEF OwnerStep, InitSpawn, InitReturn, StopFlag, StopJoin, InitCall,
              StopCall, SpuriousWakeup, vars, Go, Calls, threads
<1> QED BY <1>2, <1>3, <1>4 DEF Next

(* Without remove_queue() front() never meets an erased iterator, and the  *)
(* queue of a task outlives it.                                            *)
LEMMA QueuesKeptNext ==
  ASSUME NoRemoval, Typed, QueuesKept, [Next]_vars
  PROVE  QueuesKept'
<1> USE DEF QueuesKept
<1>1. Present \subseteq Present'
  BY PresentGrows
<1>2. ASSUME NEW w \in Workers, FrontTakes(w)
      PROVE  m_it' \in Present' /\ qid'[w] \in Present'
  BY <1>1, <1>2 DEF FrontTakes, Typed, TypeOK
<1>3. m_it' \in Present'
  <2>1. ASSUME NEW w \in Workers, WorkerStep(w), ~FrontTakes(w)
        PROVE  m_it' = m_it
    BY <2>1 DEF WorkerStep, WorkerLoop, FrontThrows, FrontCrashes, RunTask, Pop,
                PopThrows, WaitCloseable, queues
  <2>2. ASSUME NEW c \in Clients, ClientStep(c) \/ ClientCall(c)
        PROVE  m_it' = m_it
    BY <2>2 DEF ClientStep, ClientCall, WaitEmpty, Push, WaitEmptyCall, AddCall,
                NewQueue, RemoveQueue, Calls, NoRemoval, queues
  <2>3. ASSUME OwnerStep \/ InitCall \/ StopCall \/ SpuriousWakeup \/ UNCHANGED vars
        PROVE  m_it' = m_it
    BY <2>3 DEF OwnerStep, InitSpawn, InitReturn, StopFlag, StopJoin, InitCall,
                StopCall, SpuriousWakeup, vars, queues
  <2> QED BY <1>1, <1>2, <2>1, <2>2, <2>3 DEF Next
<1>4. ASSUME NEW v \in Workers, pc'[v] \in {"run", "pop"}
      PROVE  qid'[v] \in Present'
  <2>1. CASE FrontTakes(v)
    BY <1>2, <2>1
  <2>2. CASE ~FrontTakes(v)
    BY <1>1, <1>4, <2>2, UsersNext
  <2> QED BY <2>1, <2>2
<1> QED BY <1>3, <1>4

(* A worker that has a task to pop goes on, or wakes everybody.            *)
LEMMA PopToCome ==
  ASSUME Typed, QueuesKept, [Next]_vars, waiting' # {},
         NEW v \in Workers, pc[v] \in {"run", "pop"}
  PROVE  pc'[v] \in {"run", "pop"} /\ qid'[v] = qid[v]
<1> USE Positions
<1>1. qid \in [Workers -> Qids]
  BY DEF Typed, TypeOK
<1>2. ASSUME NEW w \in Workers, WorkerStep(w)
      PROVE  pc'[v] \in {"run", "pop"} /\ qid'[v] = qid[v]
  <2>1. CASE FrontTakes(w)
    <3>1. v # w
      BY <2>1 DEF FrontTakes, Go
    <3>2. /\ \E p : pc' = [pc EXCEPT ![w] = p]
          /\ \E q : qid' = [qid EXCEPT ![w] = q]
      BY <2>1 DEF FrontTakes, Go
    <3> QED BY <1>1, <3>1, <3>2
  <2>2. CASE Pop(w)
    BY <2>2 DEF Pop, CondBroadcast
  <2>3. CASE PopThrows(w)
    BY <2>3 DEF PopThrows, Go, QueuesKept
  <2>4. CASE \/ WorkerLoop(w) \/ FrontThrows(w) \/ FrontCrashes(w) \/ RunTask(w)
             \/ WaitCloseable(w)
    BY <2>4 DEF WorkerLoop, FrontThrows, FrontCrashes, RunTask, WaitCloseable,
                Go, threads
  <2> QED BY <1>2, <2>1, <2>2, <2>3, <2>4 DEF WorkerStep
<1>3. ASSUME NEW d \in Clients, ClientStep(d) \/ ClientCall(d)
      PROVE  pc'[v] \in {"run", "pop"} /\ qid'[v] = qid[v]
  <2>1. qid' = qid /\ (UNCHANGED pc \/ \E p : pc' = [pc EXCEPT ![d] = p])
    BY <1>3
    DEF ClientStep, ClientCall, WaitEmpty, Push, WaitEmptyCall, AddCall, NewQueue,
        RemoveQueue, Go, threads
  <2> QED BY <2>1
<1>4. CASE InitSpawn
  <2>1. PICK w \in m_slots \ m_ths : pc' = [pc EXCEPT ![w] = "loop"] /\ qid' = qid
    BY <1>4 DEF InitSpawn
  <2>2. w \in Workers /\ pc[w] \in {"none", "exited"}
    BY DEF Typed, TypeOK, ThreadState
  <2> QED BY <2>1, <2>2
<1>5. CASE \/ InitReturn \/ StopFlag \/ StopJoin \/ InitCall \/ StopCall
           \/ SpuriousWakeup \/ UNCHANGED vars
  BY <1>5 DEF InitReturn, StopFlag, StopJoin, InitCall, StopCall, SpuriousWakeup,
              vars, Go, Calls, threads
<1> QED BY <1>2, <1>3, <1>4, <1>5 DEF Next, OwnerStep

(* A client goes to sleep only beside tasks.                               *)
LEMMA ClientsSleepBesideTasks ==
  ASSUME Typed, [Next]_vars, Empty
  PROVE  waiting' \cap Clients \subseteq waiting
<1> USE Positions
<1>1. ASSUME NEW w \in Workers, WorkerStep(w)
      PROVE  waiting' \cap Clients \subseteq waiting
  BY <1>1, SignalShrinks
  DEF WorkerStep, WorkerLoop, FrontThrows, FrontTakes, FrontCrashes, RunTask,
      Pop, PopThrows, WaitCloseable, CondBroadcast
<1>2. ASSUME NEW c \in Clients, ClientStep(c) \/ ClientCall(c)
      PROVE  waiting' \subseteq waiting
  BY <1>2, SignalShrinks
  DEF ClientStep, ClientCall, WaitEmpty, Push, WaitEmptyCall, AddCall, NewQueue,
      RemoveQueue
<1>3. CASE OwnerStep \/ InitCall \/ StopCall \/ SpuriousWakeup \/ UNCHANGED vars
  BY <1>3 DEF OwnerStep, InitSpawn, InitReturn, StopFlag, StopJoin, InitCall,
              StopCall, SpuriousWakeup, vars, CondBroadcast
<1> QED BY <1>1, <1>2, <1>3 DEF Next

(* Between the step that empties the queues and the broadcast of the       *)
(* worker that made it, nothing is lost.                                   *)
LEMMA WakeupToComeNext ==
  ASSUME NoRemoval, Typed, QueuesKept, WakeupToCome, [Next]_vars
  PROVE  WakeupToCome'
<1>1. SUFFICES ASSUME waiting' \cap Clients # {}, Empty'
               PROVE  \E w \in Workers : pc'[w] \in {"run", "pop"}
                                         /\ qid'[w] \in Present'
  BY DEF WakeupToCome
<1>2. CASE Empty
  <2>1. waiting \cap Clients # {}
    BY <1>1, <1>2, ClientsSleepBesideTasks
  <2>2. PICK v \in Workers : pc[v] \in {"run", "pop"} /\ qid[v] \in Present
    BY <1>2, <2>1 DEF WakeupToCome
  <2> QED BY <1>1, <2>2, PopToCome, PresentGrows
<1>3. CASE ~Empty
  <2>1. ~\E c \in Clients : RemoveQueue(c)
    BY DEF RemoveQueue, Calls, NoRemoval
  <2>2. PICK w \in Workers : FrontTakes(w)
    BY <1>1, <1>3, <2>1, OnlyTakeEmpties
  <2>3. pc'[w] = "run"
    BY <2>2, Positions DEF FrontTakes, Go
  <2> QED BY <2>3, QueuesKeptNext DEF QueuesKept
<1> QED BY <1>2, <1>3

(* When an add() finds all the threads asleep and wakes a client in their  *)
(* place, that client slept beside empty queues, and the worker that will  *)
(* broadcast was awake.                                                    *)
LEMMA SomeWorkerAwakeNext ==
  ASSUME NoRemoval, Typed, SharedInv, [Next]_vars
  PROVE  SomeWorkerAwake'
<1> USE DEF SharedInv
<1>1. SUFFICES ASSUME m_ths' # {}, ~Empty', m_ths' \subseteq waiting'
               PROVE  FALSE
  BY DEF SomeWorkerAwake
<1>2. CASE Empty
  <2>1. PICK c \in Clients : Push(c)
    BY <1>1, <1>2, OnlyPushFills
  <2>2. m_ths \subseteq waiting /\ Clients \cap waiting # {}
    BY <1>1, <2>1, SignalStolen
  <2>3. PICK v \in Workers : pc[v] \in {"run", "pop"}
    BY <1>2, <2>2 DEF WakeupToCome
  <2>4. v \in m_ths
    BY <2>3 DEF Typed, ThreadState
  <2> QED BY <2>2, <2>3, <2>4 DEF SleepState
<1>3. CASE ~Empty
  BY <1>1, <1>3, AsleepBefore DEF SomeWorkerAwake
<1> QED BY <1>2, <1>3

(* Initially nobody sleeps and the default queue is there.                 *)
LEMMA SharedInvInit == Init => SharedInv
<1> SUFFICES ASSUME Init PROVE SharedInv
  OBVIOUS
<1>1. Present = {0}
  BY DEF Init, Present, ToSet
<1>2. QueuesKept
  BY <1>1 DEF Init, QueuesKept, Threads
<1> QED BY <1>2 DEF Init, SharedInv, AbsentEmpty, SleepState, WakeupToCome,
                    SomeWorkerAwake

(* Every step of a program without remove_queue() keeps the wakeups.       *)
LEMMA SharedInvNext ==
  ASSUME NoRemoval
  PROVE  Typed /\ SharedInv /\ [Next]_vars => SharedInv'
<1> SUFFICES ASSUME Typed, SharedInv, [Next]_vars
             PROVE  SharedInv'
  OBVIOUS
<1>1. AbsentEmpty' /\ SleepState'
  BY AbsentEmptyNext, SleepStateNext DEF SharedInv
<1>2. QueuesKept' /\ WakeupToCome'
  BY QueuesKeptNext, WakeupToComeNext DEF SharedInv
<1>3. SomeWorkerAwake'
  BY SomeWorkerAwakeNext
<1> QED BY <1>1, <1>2, <1>3 DEF SharedInv

(* The inductive invariant of the two theorems below.                      *)
LEMMA SharedInvAlways ==
  ASSUME NoRemoval
  PROVE  Spec => [](Typed /\ SharedInv)
<1>1. Init => Typed /\ SharedInv
  BY TypedInit, SharedInvInit
<1>2. (Typed /\ SharedInv) /\ [Next]_vars => (Typed /\ SharedInv)'
  BY TypedNext, SharedInvNext
<1> QED BY <1>1, <1>2, PTL DEF Spec

(* No wakeup of wait_empty() is lost: a client that sleeps although the    *)
(* queues are empty has a worker that will broadcast in pop().             *)
THEOREM NoClientForgotten ==
  ASSUME NoRemoval
  PROVE  Spec => []WakeupToCome
<1>1. SharedInv => WakeupToCome
  BY DEF SharedInv
<1> QED BY <1>1, SharedInvAlways, PTL

(* No wakeup of the workers is lost: while a task waits, some started      *)
(* thread is not in the wait set, although clients compete for the single  *)
(* signals of add() and front().                                           *)
THEOREM NoTaskForgotten ==
  ASSUME NoRemoval
  PROVE  Spec => []SomeWorkerAwake
<1>1. SharedInv => SomeWorkerAwake
  BY DEF SharedInv
<1> QED BY <1>1, SharedInvAlways, PTL

-----------------------------------------------------------------------------
(* The limit of a queue.                                                   *)

Using(q) == {w \in Workers : pc[w] \in {"run", "pop"} /\ qid[w] = q}

(* m_cnt counts the workers between front() and pop(), exactly, and stays  *)
(* under the limit.                                                        *)
Counted ==
  \A q \in Qids :
    /\ m_cnt[q] = Cardinality(Using(q))
    /\ q \in Present /\ m_max[q] # 0 => m_cnt[q] <= m_max[q]

(* The workers on a queue are fewer than the modulus of m_cnt.             *)
LEMMA UsingBound ==
  ASSUME NEW q
  PROVE  /\ IsFiniteSet(Using(q)) /\ Cardinality(Using(q)) \in Nat
         /\ Cardinality(Using(q)) < CntMod
<1>1. Using(q) \in SUBSET Workers
  BY DEF Using
<1>2. /\ IsFiniteSet(Using(q))
      /\ Cardinality(Using(q)) <= Cardinality(Workers)
  BY <1>1, PoolAssumption, FS_Subset
<1>3. Cardinality(Using(q)) \in Nat /\ Cardinality(Workers) \in Nat
  BY <1>2, PoolAssumption, FS_CardinalityType
<1> QED BY <1>2, <1>3, PoolAssumption

(* front() counts the worker; there are fewer workers than the counter     *)
(* holds, so that it does not wrap.                                        *)
LEMMA CountedTake ==
  ASSUME Typed, Typed', Counted, NEW w \in Workers, FrontTakes(w)
  PROVE  Counted'
<1> USE Positions
<1>1. PICK q \in Present :
        /\ ~AtLimit(q)
        /\ qid' = [qid EXCEPT ![w] = q]
        /\ m_cnt' = [m_cnt EXCEPT ![q] = (@ + 1) % CntMod]
  BY DEF FrontTakes
<1>2. /\ q \in Qids /\ m_cnt \in [Qids -> 0..CntMod-1]
      /\ m_max \in [Qids -> Nat] /\ qid \in [Workers -> Qids]
      /\ CntMod \in Nat
  BY ToSetType, Constants DEF Typed, TypeOK, Present
<1>3. /\ pc[w] = "front" /\ pc' = [pc EXCEPT ![w] = "run"]
      /\ UNCHANGED <<m_queues, m_max>>
  BY DEF FrontTakes, Go
<1>4. Using(q)' = Using(q) \cup {w} /\ w \notin Using(q)
  BY <1>1, <1>2, <1>3 DEF Using
<1>5. \A p \in Qids \ {q} : Using(p)' = Using(p)
  BY <1>1, <1>2, <1>3 DEF Using
<1>6. Cardinality(Using(q)') = m_cnt[q] + 1
  <2>1. IsFiniteSet(Using(q)) /\ Cardinality(Using(q)) = m_cnt[q]
    BY <1>2, UsingBound DEF Counted
  <2>2. Cardinality(Using(q) \cup {w}) = Cardinality(Using(q)) + 1
    BY <1>4, <2>1, FS_AddElement
  <2> QED BY <1>4, <2>1, <2>2
<1>7. Cardinality(Using(q)') < CntMod
  <2> DEFINE U == Using(q) \cup {w}
  <2>1. U \in SUBSET Workers
    BY DEF Using
  <2>2. IsFiniteSet(U) /\ Cardinality(U) <= Cardinality(Workers)
    BY <2>1, PoolAssumption, FS_Subset
  <2>3. Cardinality(U) \in Nat /\ Cardinality(Workers) \in Nat
    BY <2>2, PoolAssumption, FS_CardinalityType
  <2> QED BY <1>4, <2>2, <2>3, PoolAssumption
<1>8. m_cnt'[q] = m_cnt[q] + 1
  <2>1. m_cnt'[q] = (m_cnt[q] + 1) % CntMod
    BY <1>1, <1>2
  <2>2. m_cnt[q] + 1 \in 0..CntMod-1
    BY <1>2, <1>6, <1>7
  <2>3. m_cnt[q] \in 0..CntMod-1
    BY <1>2
  <2>4. \A n \in 0..CntMod-1 : n % CntMod = n
    BY <1>2, Constants
  <2> QED BY <2>1, <2>2, <2>4
<1>9. m_max[q] # 0 => m_cnt[q] + 1 <= m_max[q]
  <2>1. m_cnt[q] \in Nat /\ m_max[q] \in Nat
    BY <1>2
  <2> QED BY <1>1, <2>1 DEF AtLimit
<1>10. ASSUME NEW p \in Qids
       PROVE  /\ m_cnt'[p] = Cardinality(Using(p)')
              /\ p \in Present' /\ m_max'[p] # 0 => m_cnt'[p] <= m_max'[p]
  <2>1. CASE p = q
    BY <1>3, <1>6, <1>8, <1>9, <2>1
  <2>2. CASE p # q
    BY <1>1, <1>2, <1>3, <1>5, <2>2 DEF Counted, Present
  <2> QED BY <2>1, <2>2
<1> QED BY <1>10 DEF Counted

(* pop() takes the worker off the count, which is not zero.                *)
LEMMA CountedPop ==
  ASSUME Typed, Counted, NEW w \in Workers, Pop(w)
  PROVE  Counted'
<1> USE Positions
<1>1. PICK q \in Qids : q = qid[w]
  BY DEF Typed, TypeOK
<1>2. /\ q \in Qids /\ m_cnt \in [Qids -> 0..CntMod-1]
      /\ m_max \in [Qids -> Nat] /\ CntMod \in Nat
  BY Constants DEF Typed, TypeOK
<1>3. /\ pc[w] = "pop" /\ pc' = [pc EXCEPT ![w] = "loop"]
      /\ UNCHANGED <<m_queues, m_max, qid>>
      /\ m_cnt' = [m_cnt EXCEPT ![q] = (@ - 1) % CntMod]
  BY <1>1 DEF Pop, Go
<1>4. Using(q)' = Using(q) \ {w} /\ w \in Using(q)
  BY <1>1, <1>3 DEF Using
<1>5. \A p \in Qids \ {q} : Using(p)' = Using(p)
  BY <1>1, <1>3 DEF Using
<1>6. Cardinality(Using(q)') = m_cnt[q] - 1
  <2>1. IsFiniteSet(Using(q)) /\ Cardinality(Using(q)) = m_cnt[q]
    BY <1>2, UsingBound DEF Counted
  <2>2. Cardinality(Using(q) \ {w}) = Cardinality(Using(q)) - 1
    BY <1>4, <2>1, FS_RemoveElement
  <2> QED BY <1>4, <2>1, <2>2
<1>7. m_cnt[q] \in 1..CntMod-1
  <2>1. Using(q) # {} /\ m_cnt[q] = Cardinality(Using(q))
    BY <1>2, <1>4 DEF Counted
  <2>2. m_cnt[q] # 0
    BY <2>1, UsingBound, FS_EmptySet
  <2>3. m_cnt[q] \in 0..CntMod-1
    BY <1>2
  <2> QED BY <1>2, <2>2, <2>3
<1>8. m_cnt'[q] = m_cnt[q] - 1
  <2>1. m_cnt'[q] = (m_cnt[q] - 1) % CntMod
    BY <1>2, <1>3
  <2>2. m_cnt[q] - 1 \in 0..CntMod-1
    BY <1>2, <1>7
  <2>3. \A n \in 0..CntMod-1 : n % CntMod = n
    BY <1>2, Constants
  <2> QED BY <2>1, <2>2, <2>3
<1>9. ASSUME NEW p \in Qids
      PROVE  /\ m_cnt'[p] = Cardinality(Using(p)')
             /\ p \in Present' /\ m_max'[p] # 0 => m_cnt'[p] <= m_max'[p]
  <2>1. CASE p = q
    <3>1. m_max[q] \in Nat /\ m_cnt[q] \in Nat
      BY <1>2, <1>7
    <3>2. p \in Present' /\ m_max'[p] # 0 => m_cnt'[p] <= m_max'[p]
      BY <1>2, <1>3, <1>8, <2>1, <3>1 DEF Counted, Present
    <3> QED BY <1>6, <1>8, <2>1, <3>2
  <2>2. CASE p # q
    BY <1>2, <1>3, <1>5, <2>2 DEF Counted, Present
  <2> QED BY <2>1, <2>2
<1> QED BY <1>9 DEF Counted

(* The count of a new queue is zero: nobody takes tasks from a queue that  *)
(* is not in the map.                                                      *)
LEMMA CountedNewQueue ==
  ASSUME Typed, QueuesKept, Counted, NEW c \in Clients, NewQueue(c)
  PROVE  Counted'
<1>1. PICK q \in Qids \ Present, max \in Limits :
        Present' = Present \cup {q} /\ m_max' = [m_max EXCEPT ![q] = max]
  BY NewQueueAdds
<1>2. UNCHANGED <<m_cnt, pc, qid>>
  BY DEF NewQueue, threads
<1>3. \A p \in Qids : Using(p)' = Using(p)
  BY <1>2 DEF Using
<1>4. m_cnt[q] = 0
  <2>1. Using(q) = {}
    BY <1>1 DEF QueuesKept, Using
  <2> QED BY <1>1, <2>1, FS_EmptySet DEF Counted
<1>5. max \in Nat /\ m_max \in [Qids -> Nat]
  BY PoolAssumption DEF Typed, TypeOK
<1>6. ASSUME NEW p \in Qids
      PROVE  /\ m_cnt'[p] = Cardinality(Using(p)')
             /\ p \in Present' /\ m_max'[p] # 0 => m_cnt'[p] <= m_max'[p]
  <2>1. CASE p = q
    BY <1>1, <1>2, <1>3, <1>4, <1>5, <2>1 DEF Counted
  <2>2. CASE p # q
    BY <1>1, <1>2, <1>3, <1>5, <2>2 DEF Counted
  <2> QED BY <2>1, <2>2
<1> QED BY <1>6 DEF Counted

(* No other step begins or ends a task in execution.                       *)
LEMMA CountedNext ==
  ASSUME NoRemoval, Typed, QueuesKept, Counted, [Next]_vars
  PROVE  Counted'
<1> USE Positions
<1>1. ASSUME UNCHANGED <<m_queues, m_max, m_cnt, qid>>,
             \A v \in Workers : pc'[v] \in {"run", "pop"} <=> pc[v] \in {"run", "pop"}
      PROVE  Counted'
  <2>1. \A q \in Qids : Using(q)' = Using(q)
    BY <1>1 DEF Using
  <2> QED BY <1>1, <2>1 DEF Counted, Present
<1>2. ASSUME NEW w \in Workers, WorkerStep(w)
      PROVE  Counted'
  <2>1. CASE FrontTakes(w)
    BY <2>1, CountedTake, TypedNext
  <2>2. CASE Pop(w)
    BY <2>2, CountedPop
  <2>3. CASE PopThrows(w)
    BY <2>3 DEF PopThrows, Go, QueuesKept
  <2>4. CASE \/ WorkerLoop(w) \/ FrontThrows(w) \/ FrontCrashes(w) \/ RunTask(w)
             \/ WaitCloseable(w)
    <3>1. UNCHANGED <<m_queues, m_max, m_cnt, qid>>
      BY <2>4 DEF WorkerLoop, FrontThrows, FrontCrashes, RunTask, WaitCloseable,
                  queues, threads
    <3>2. \A v \in Workers : pc'[v] \in {"run", "pop"} <=> pc[v] \in {"run", "pop"}
      BY <2>4 DEF WorkerLoop, FrontThrows, FrontCrashes, RunTask, WaitCloseable,
                  Go, threads
    <3> QED BY <1>1, <3>1, <3>2
  <2> QED BY <1>2, <2>1, <2>2, <2>3, <2>4 DEF WorkerStep
<1>3. ASSUME NEW c \in Clients, ClientStep(c) \/ ClientCall(c)
      PROVE  Counted'
  <2>1. CASE NewQueue(c)
    BY <2>1, CountedNewQueue
  <2>2. CASE RemoveQueue(c)
    BY <2>2 DEF RemoveQueue, Calls, NoRemoval
  <2>3. CASE WaitEmpty(c) \/ Push(c) \/ WaitEmptyCall(c) \/ AddCall(c)
    <3>1. /\ UNCHANGED <<m_queues, m_max, m_cnt, qid>>
          /\ UNCHANGED pc \/ \E p : pc' = [pc EXCEPT ![c] = p]
      BY <2>3 DEF WaitEmpty, Push, WaitEmptyCall, AddCall, Go, queues
    <3>2. \A v \in Workers : pc'[v] = pc[v]
      BY <3>1
    <3> QED BY <1>1, <3>1, <3>2
  <2> QED BY <1>3, <2>1, <2>2, <2>3 DEF ClientStep, ClientCall
<1>4. CASE InitSpawn
  <2>1. PICK w \in m_slots \ m_ths : pc' = [pc EXCEPT ![w] = "loop"]
    BY <1>4 DEF InitSpawn
  <2>2. w \in Workers /\ pc[w] \in {"none", "exited"}
    BY DEF Typed, TypeOK, ThreadState
  <2>3. \A v \in Workers : pc'[v] \in {"run", "pop"} <=> pc[v] \in {"run", "pop"}
    BY <2>1, <2>2
  <2>4. UNCHANGED <<m_queues, m_max, m_cnt, qid>>
    BY <1>4 DEF InitSpawn, queues
  <2> QED BY <1>1, <2>3, <2>4
<1>5. CASE \/ InitReturn \/ StopFlag \/ StopJoin \/ InitCall \/ StopCall
           \/ SpuriousWakeup \/ UNCHANGED vars
  <2>1. /\ UNCHANGED <<m_queues, m_max, m_cnt, qid>>
        /\ UNCHANGED pc \/ \E p : pc' = [pc EXCEPT ![Owner] = p]
    BY <1>5 DEF InitReturn, StopFlag, StopJoin, InitCall, StopCall, SpuriousWakeup,
                vars, Go, queues, threads
  <2>2. \A v \in Workers : pc'[v] = pc[v]
    BY <2>1
  <2> QED BY <1>1, <2>1, <2>2
<1> QED BY <1>2, <1>3, <1>4, <1>5 DEF Next, OwnerStep

LimitInv == QueuesKept /\ Counted /\ ~crashed

(* Initially no task is in execution.                                      *)
LEMMA LimitInvInit == Init => LimitInv
<1> SUFFICES ASSUME Init PROVE LimitInv
  OBVIOUS
<1>1. QueuesKept
  BY SharedInvInit DEF SharedInv
<1>2. \A q : Using(q) = {}
  BY DEF Init, Using, Threads
<1>3. Counted
  BY <1>2, FS_EmptySet DEF Init, Counted
<1> QED BY <1>1, <1>3 DEF Init, LimitInv

(* Every step of a program without remove_queue() keeps m_cnt exact.       *)
LEMMA LimitInvNext ==
  ASSUME NoRemoval
  PROVE  Typed /\ LimitInv /\ [Next]_vars => LimitInv'
<1> SUFFICES ASSUME Typed, LimitInv, [Next]_vars
             PROVE  LimitInv'
  OBVIOUS
<1>1. QueuesKept' /\ Counted'
  BY QueuesKeptNext, CountedNext DEF LimitInv
<1>2. m_it # Erased
  BY ToSetType, PoolAssumption
  DEF LimitInv, QueuesKept, Typed, TypeOK, Present
<1>3. ASSUME NEW w \in Workers, WorkerStep(w)
      PROVE  UNCHANGED crashed
  BY <1>2, <1>3
  DEF WorkerStep, WorkerLoop, FrontThrows, FrontTakes, FrontCrashes, RunTask,
      Pop, PopThrows, WaitCloseable
<1>4. ASSUME NEW c \in Clients, ClientStep(c) \/ ClientCall(c)
      PROVE  UNCHANGED crashed
  BY <1>4 DEF ClientStep, ClientCall, WaitEmpty, Push, WaitEmptyCall, AddCall,
              NewQueue, RemoveQueue
<1>5. ASSUME OwnerStep \/ InitCall \/ StopCall \/ SpuriousWakeup \/ UNCHANGED vars
      PROVE  UNCHANGED crashed
  BY <1>5 DEF OwnerStep, InitSpawn, InitReturn, StopFlag, StopJoin, InitCall,
              StopCall, SpuriousWakeup, vars
<1> QED BY <1>1, <1>3, <1>4, <1>5 DEF Next, LimitInv

(* The inductive invariant of the two theorems below.                      *)
LEMMA LimitInvAlways ==
  ASSUME NoRemoval
  PROVE  Spec => [](Typed /\ LimitInv)
<1>1. Init => Typed /\ LimitInv
  BY TypedInit, LimitInvInit
<1>2. (Typed /\ LimitInv) /\ [Next]_vars => (Typed /\ LimitInv)'
  BY TypedNext, LimitInvNext
<1> QED BY <1>1, <1>2, PTL DEF Spec

(* Never more than cnt of the tasks of a queue made by new_queue(qid, cnt) *)
(* are in execution, however front() and pop() of the workers interleave:  *)
(* the unsigned counter is exact and never wraps.                          *)
THEOREM LimitsRespected ==
  ASSUME NoRemoval
  PROVE  Spec => []LimitRespected
<1>1. ASSUME Typed, LimitInv PROVE LimitRespected
  <2>1. SUFFICES ASSUME NEW q \in Present, m_max[q] # 0
                 PROVE  Cardinality({w \in Workers \ orphan :
                                       pc[w] = "run" /\ qid[w] = q}) <= m_max[q]
    BY DEF LimitRespected
  <2> DEFINE R == {w \in Workers \ orphan : pc[w] = "run" /\ qid[w] = q}
  <2>2. q \in Qids /\ m_max[q] \in Nat
    BY <1>1, ToSetType DEF Typed, TypeOK, Present
  <2>3. Cardinality(Using(q)) <= m_max[q]
    BY <1>1, <2>1, <2>2 DEF LimitInv, Counted
  <2>4. R \in SUBSET Using(q)
    BY DEF Using
  <2>5. IsFiniteSet(R) /\ Cardinality(R) <= Cardinality(Using(q))
    BY <2>4, UsingBound, FS_Subset
  <2>6. Cardinality(R) \in Nat /\ Cardinality(Using(q)) \in Nat
    BY <2>5, UsingBound, FS_CardinalityType
  <2> HIDE DEF R
  <2>7. Cardinality(R) <= m_max[q]
    BY <2>2, <2>3, <2>5, <2>6
  <2> QED BY <2>7 DEF R
<1>2. Typed /\ LimitInv => LimitRespected
  BY <1>1
<1> QED BY <1>2, LimitInvAlways, PTL

(* The iterator of front() never designates an erased element: the only    *)
(* way the pool has to die is closed to programs that remove no queue.     *)
THEOREM NoCrash ==
  ASSUME NoRemoval
  PROVE  Spec => []~crashed
<1>1. LimitInv => ~crashed
  BY DEF LimitInv
<1> QED BY <1>1, LimitInvAlways, PTL
=============================================================================
