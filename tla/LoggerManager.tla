--------------------------- MODULE LoggerManager ---------------------------
(***************************************************************************)
(* logger_manager (logger.h): the process-wide logger that every thread of *)
(* the library logs through and that the application may replace.          *)
(*                                                                         *)
(* log() copies the shared_ptr under mutex_, but then tests and calls the  *)
(* member itself, without the mutex; those two reads race with set_logger  *)
(* and see the pointer before or after its assignment.  A critical section *)
(* of mutex_ is one step.  A logger is destroyed with its last shared_ptr. *)
(***************************************************************************)
EXTENDS Naturals

CONSTANTS
  Threads,    \* threads that log
  Loggers,    \* logger objects the application creates, each set once
  NoLogger,   \* the null shared_ptr
  SetAnyTime  \* whether set_logger may be called while a thread logs

ASSUME LoggerAssumption ==
  /\ NoLogger \notin Loggers
  /\ SetAnyTime \in BOOLEAN

VARIABLES
  logger_instance,  \* the member
  unset,            \* loggers not yet handed to set_logger
  pc,               \* where each thread is in log()
  temp_logger,      \* its copy
  callee            \* the object whose log() it is executing

vars == <<logger_instance, unset, pc, temp_logger, callee>>

Logger == Loggers \cup {NoLogger}

TypeOK ==
  /\ logger_instance \in Logger
  /\ unset \subseteq Loggers
  /\ pc \in [Threads -> {"idle", "check", "read", "call"}]
  /\ temp_logger \in [Threads -> Logger]
  /\ callee \in [Threads -> Logger]

Init ==
  /\ logger_instance = NoLogger
  /\ unset = Loggers
  /\ pc = [t \in Threads |-> "idle"]
  /\ temp_logger = [t \in Threads |-> NoLogger]
  /\ callee = [t \in Threads |-> NoLogger]

-----------------------------------------------------------------------------
(* set_logger, with a new logger or with none. *)
SetLogger(l) ==
  /\ l \in unset \cup {NoLogger}
  /\ SetAnyTime \/ \A t \in Threads : pc[t] = "idle"
  /\ logger_instance' = l
  /\ unset' = unset \ {l}
  /\ UNCHANGED <<pc, temp_logger, callee>>

(* log: the copy under the mutex ... *)
CopyLogger(t) ==
  /\ pc[t] = "idle"
  /\ temp_logger' = [temp_logger EXCEPT ![t] = logger_instance]
  /\ pc' = [pc EXCEPT ![t] = "check"]
  /\ UNCHANGED <<logger_instance, unset, callee>>

Leave(t) ==
  /\ pc' = [pc EXCEPT ![t] = "idle"]
  /\ temp_logger' = [temp_logger EXCEPT ![t] = NoLogger]
  /\ callee' = [callee EXCEPT ![t] = NoLogger]

(* Mutant: the test left out. *)
HasLoggerUnchecked == TRUE
HasLogger          == logger_instance # NoLogger

(* ... the test of the member ... *)
CheckLogger(t) ==
  /\ pc[t] = "check"
  /\ IF HasLogger THEN pc' = [pc EXCEPT ![t] = "read"] /\ UNCHANGED <<temp_logger, callee>>
                  ELSE Leave(t)
  /\ UNCHANGED <<logger_instance, unset>>

(* ... the second read of the member, and the call ... *)
CallLogger(t) ==
  /\ pc[t] = "read"
  /\ callee' = [callee EXCEPT ![t] = logger_instance]
  /\ pc' = [pc EXCEPT ![t] = "call"]
  /\ UNCHANGED <<logger_instance, unset, temp_logger>>

(* ... and its return. *)
ReturnFromLog(t) ==
  /\ pc[t] = "call"
  /\ Leave(t)
  /\ UNCHANGED <<logger_instance, unset>>

Next ==
  \/ \E l \in Logger : SetLogger(l)
  \/ \E t \in Threads : \/ CopyLogger(t) \/ CheckLogger(t)
                        \/ CallLogger(t) \/ ReturnFromLog(t)

Spec == Init /\ [][Next]_vars

-----------------------------------------------------------------------------
(* A shared_ptr to the logger exists. *)
Alive(l) == l = logger_instance \/ \E t \in Threads : l = temp_logger[t]

(* log() is only ever executing in a logger that exists: the object is not *)
(* null and is not destroyed before its log() returns.  (logger.h:127:     *)
(* "Mutex for thread-safe access to the logger instance".)                 *)
CalleeAlive ==
  \A t \in Threads :
    pc[t] = "call" => callee[t] # NoLogger /\ Alive(callee[t])

(* Inductive when loggers are set while no thread logs: the member is the  *)
(* copy that the thread took, from the test of it to the return of the     *)
(* logger.  It implies CalleeAlive.                                        *)
QuietInv ==
  /\ TypeOK
  /\ \A t \in Threads :
       /\ pc[t] # "idle" => temp_logger[t] = logger_instance
       /\ pc[t] \in {"read", "call"} => logger_instance # NoLogger
       /\ pc[t] = "call" => callee[t] = logger_instance

=============================================================================
