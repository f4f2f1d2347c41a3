CONSTANTS
  w1 = w1
  w2 = w2
  c1 = c1
  c2 = c2
  c3 = c3
  n1 = n1
  f1 = f1
  f2 = f2
  dir = dir
  d1 = d1
  d2 = d2
  d3 = d3
  d4 = d4
  NULL = NULL
  Workers = {w1, w2}
  Conns = {c1, c2, c3}
  WorkerOf <- MCWorkerOf
  Names = {n1}
  Files = {f1, f2, dir}
  Regular = {f1, f2}
  Fd = {d1, d2, d3, d4}
SYMMETRY Symmetry
SPECIFICATION Spec
INVARIANTS
  TypeOK
  OneOwner
  ServesWhatItChecked
  NotAllowedIsFound
