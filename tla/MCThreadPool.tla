---------------------------- MODULE MCThreadPool ----------------------------
(* Instances of ThreadPool for TLC.                                        *)
EXTENDS ThreadPool

CONSTANTS w1, w2, c1, c2, c3, t1, t2, t3

MCWorkers == {w1, w2}
MCClients == {c1, c2}
MCClients3 == {c1, c2, c3}
MCTasks   == {t1, t2, t3}
MCTasks2  == {t1, t2}

(* The workers, and the tasks, are interchangeable.                        *)
MCSymmetry  == Permutations(MCWorkers) \cup Permutations(MCTasks)
MCSymmetry2 == Permutations(MCWorkers) \cup Permutations(MCTasks2)

(* Two clients add and wait; the owner also opens and stops the pool.      *)
SharedProgram ==
  (c1 :> {"init", "stop", "add", "wait_empty", "new_queue"} @@
   c2 :> {"add", "wait_empty"})

(* The same with queues removed while they are in use, a client that waits *)
(* while another adds and removes, and the pool opened again after it was  *)
(* stopped.                                                                *)
RemoveProgram ==
  (c1 :> {"init", "stop", "reinit", "add", "new_queue"} @@
   c2 :> {"add", "wait_empty", "remove_queue"} @@
   c3 :> {"add", "remove_queue"})
=============================================================================
