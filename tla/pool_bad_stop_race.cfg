SPECIFICATION Spec
CONSTANTS
  w1 = w1
  w2 = w2
  c1 = c1
  c2 = c2
  c3 = c3
  t1 = t1
  t2 = t2
  t3 = t3
  Workers <- MCWorkers
  Clients <- MCClients
  Owner = c1
  Tasks <- MCTasks2
  Qids = {0, 1}
  Limits = {1}
  CntMod = 4
  Program <- SharedProgram
  NoTask = NoTask
  Erased = Erased
SYMMETRY MCSymmetry2
INVARIANTS
  StoppedPoolOwesNothing
CHECK_DEADLOCK FALSE
