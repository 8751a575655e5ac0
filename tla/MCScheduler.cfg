SPECIFICATION Spec
CONSTANTS
  Pcb = {p1, p2, p3}
  NULL = NULL
  Quantum = 2
  MaxCreated = 4
INVARIANTS QueueWellFormed NoDanglingPcb OnlyCurrentRuns
PROPERTIES ReadyIsServed RefinesRoundRobin
