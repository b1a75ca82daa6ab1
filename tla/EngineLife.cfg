SPECIFICATION Spec
CONSTANTS
  Engines = {e1, e2}
  Threads = {t1, t2}
  Lcores = {l1, l2}
  Ports = {p0}
  Names <- MCNames
  Caps <- MCCaps
SYMMETRY Alike
INVARIANTS
    PoolsOutliveMbufs
    CountersPtrSound
