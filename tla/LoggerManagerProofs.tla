------------------------- MODULE LoggerManagerProofs -------------------------
(***************************************************************************)
(* The logger is safe to use as long as it is set while no thread logs,    *)
(* for any number of threads and loggers.                                  *)
(***************************************************************************)
EXTENDS LoggerManager, TLAPS

(* The invariant holds at first. *)
LEMMA QuietInit == Init => QuietInv
  BY DEF Init, QuietInv, TypeOK, Logger

(* Every step of set_logger and log() keeps it: set_logger needs a moment  *)
(* at which no thread logs.                                                *)
LEMMA QuietStep ==
  ASSUME ~SetAnyTime, QuietInv, [Next]_vars
  PROVE  QuietInv'
<1> USE LoggerAssumption DEF QuietInv, TypeOK, Logger
<1>1. ASSUME NEW l \in Logger, SetLogger(l)  PROVE QuietInv'
  BY <1>1 DEF SetLogger
<1>2. ASSUME NEW t \in Threads, CopyLogger(t)  PROVE QuietInv'
  BY <1>2 DEF CopyLogger
<1>3. ASSUME NEW t \in Threads, CheckLogger(t)  PROVE QuietInv'
  <2>1. CASE HasLogger
    BY <1>3, <2>1 DEF CheckLogger, HasLogger
  <2>2. CASE ~HasLogger
    BY <1>3, <2>2 DEF CheckLogger, Leave
  <2> QED BY <2>1, <2>2
<1>4. ASSUME NEW t \in Threads, CallLogger(t)  PROVE QuietInv'
  BY <1>4 DEF CallLogger
<1>5. ASSUME NEW t \in Threads, ReturnFromLog(t)  PROVE QuietInv'
  BY <1>5 DEF ReturnFromLog, Leave
<1>6. CASE UNCHANGED vars
  BY <1>6 DEF vars
<1> QED BY <1>1, <1>2, <1>3, <1>4, <1>5, <1>6 DEF Next

(* With loggers set only while no thread logs, log() is only ever          *)
(* executing in a logger that exists.                                      *)
THEOREM QuietLoggingSafe ==
  ASSUME ~SetAnyTime
  PROVE  Spec => []CalleeAlive
<1>1. Init => QuietInv
  BY QuietInit
<1>2. QuietInv /\ [Next]_vars => QuietInv'
  BY QuietStep
<1>3. QuietInv => CalleeAlive
  BY DEF QuietInv, CalleeAlive, Alive
<1> QED BY <1>1, <1>2, <1>3, PTL DEF Spec

=============================================================================
