SPECIFICATION Spec
CONSTANTS
  Threads = {t1, t2, t3}
  Loggers = {l1, l2}
  NoLogger = NoLogger
  SetAnyTime = FALSE
INVARIANTS
  CalleeAlive
