SPECIFICATION Spec
CONSTANTS
  p1 = p1  p2 = p2
  t1 = t1  t2 = t2  t3 = t3
  w0 = w0  w1 = w1
  b1 = b1  b2 = b2  b3 = b3
  d1 = d1  d2 = d2
  Procs = {p1}
  Threads = {t1, t2}
  Owner <- Owners2
  Rx = rx
  WF = {w0}
  Pps = pps
  Bufs = {b1, b2}
  Decims = {d1}
  None = none
INVARIANTS
  NoDmaAfterRelease
