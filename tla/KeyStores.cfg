SPECIFICATION MCSpec
CONSTANTS
  Ids = {a}
  Procs = {p1, p2, p3}
  Commands <- CommandLines
  Daemon = daemon
  Fresh = {g1, g2}
  Validators = 1
  Foreign = foreign
  Tabs = {t1, t2}
  BagNames = {1, 2}
  Keys = {k1, k2}
SYMMETRY AnyOrder
INVARIANTS StoresAgree SkipIsIdempotent BagsKeepPassphrase
CHECK_DEADLOCK FALSE
