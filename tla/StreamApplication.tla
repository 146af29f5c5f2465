-------------------------- MODULE StreamApplication --------------------------
(***************************************************************************)
(* What the two programs of the repository that open streams have in       *)
(* common: the stream tutorial (StreamTutorial) and the testing tool       *)
(* (TestingTool).  main waits for the connection, creates the client and   *)
(* sets its handlers, runs a loop of registrations and closes, and leaves  *)
(* the block that holds the client and the locals its handlers refer to.   *)
(* The client underneath is GnmiStream, step by step; only the calls its   *)
(* application makes are now those of main.                                *)
(***************************************************************************)
EXTENDS GnmiStream

CONSTANTS
  ConnectRetries,  \* bound on the rounds of wait_for_grpc_server_connection
  RetryStream,     \* retry_stream
  ResponseLimit    \* number_of_responses, number_of_stream_responses

ASSUME ApplicationAssumption ==
  /\ ConnectRetries \in Nat
  /\ RetryStream \in 0 .. MaxCalls
  /\ ResponseLimit \in Nat \ {0}
  /\ HandlerCalls = {}      \* the handlers make no API call
  /\ "limit" \notin ErrorStatus

VARIABLES
  program,      \* which of the two programs runs
  at,           \* where main is, between its calls of the API
  retry_count,  \* rounds of wait_for_grpc_server_connection
  count,        \* responses the success handler has counted
  count_retry,
  locals,       \* the locals the handlers refer to exist
  dangling      \* a handler has used one that does not

main  == <<program, at, retry_count, count_retry, locals>>
avars == <<vars, main, count, dangling>>

(* The places both programs have, those of the tutorial, of the tool.      *)
Place == {"connect", "set", "loop", "leave", "destroy", "return"}
           \cup {"first", "wait", "retry", "retried", "quit", "left"}
           \cup {"again", "registered", "await", "closed"}

ApplicationTypeOK ==
  /\ program \in {"tutorial", "tool"}
  /\ at \in Place
  /\ retry_count \in 0 .. ConnectRetries
  /\ count \in Nat
  /\ count_retry \in 0 .. RetryStream
  /\ locals \in BOOLEAN
  /\ dangling \in BOOLEAN

(* The counters are a PBRBasic, so that CLIENT_TYPE_FAILURE, for which the *)
(* programs have a branch, is never returned. *)
ApplicationInit ==
  /\ Init /\ interface = "pbr"
  /\ program \in {"tutorial", "tool"}
  /\ at = "connect"
  /\ retry_count = 0
  /\ count = 0
  /\ count_retry = 0
  /\ locals = TRUE
  /\ dangling = FALSE

-----------------------------------------------------------------------------
(* wait_for_grpc_server_connection, a round for each look at the channel.  *)
(* Mutant: one round too many. *)
RoundsLeftOne == retry_count <= ConnectRetries
RoundsLeft    == retry_count < ConnectRetries

Connect ==
  /\ at = "connect"
  /\ \/ /\ RoundsLeft
        /\ at' = "set"                     \* GRPC_CHANNEL_READY
        /\ UNCHANGED retry_count
     \/ /\ RoundsLeft
        /\ retry_count' = retry_count + 1
        /\ UNCHANGED at
     \/ /\ ~RoundsLeft
        /\ at' = "return"
        /\ UNCHANGED retry_count
  /\ UNCHANGED <<vars, program, count, count_retry, locals, dangling>>

(* The handlers are set one after the other.  Mutant: the loop entered     *)
(* before the second. *)
HandlersSetOne(hs) == hs # {}
HandlersSet(hs)    == hs = Handler

SetHandlers ==
  /\ at = "set"
  /\ SetHandler(IF handlers = {} THEN "success" ELSE "failed")
  /\ at' = IF HandlersSet(handlers') THEN "loop" ELSE at
  /\ UNCHANGED <<program, retry_count, count, count_retry, locals, dangling>>

(* A call of the API, with which main goes on to place p. *)
Register(p) ==
  /\ RegisterCall("user")
  /\ at' = p
  /\ UNCHANGED <<program, retry_count, count, count_retry, locals, dangling>>

Close(p) ==
  /\ CloseCall("user") /\ ~destroying'
  /\ at' = p
  /\ UNCHANGED <<program, retry_count, count, count_retry, locals, dangling>>

(* The loop ends when the retries are used up. *)
RetriesUsedUp ==
  /\ at \in {"loop", "again"} /\ count_retry = RetryStream
  /\ Running
  /\ at' = "leave"
  /\ UNCHANGED <<vars, program, retry_count, count, count_retry, locals,
                 dangling>>

(* The end of the block destroys its locals in reverse order: condition    *)
(* variable, mutex and what they protect first, the client last. *)
LeaveBlock ==
  /\ Running /\ at = "leave"
  /\ locals' = FALSE
  /\ at' = "destroy"
  /\ UNCHANGED <<vars, program, retry_count, count, count_retry, dangling>>

DestroyClient ==
  /\ at = "destroy" /\ CloseCall("user") /\ destroying'
  /\ at' = "return"
  /\ UNCHANGED <<program, retry_count, count, count_retry, locals, dangling>>

CommonStep == \/ Connect \/ SetHandlers \/ RetriesUsedUp
              \/ LeaveBlock \/ DestroyClient

-----------------------------------------------------------------------------
(* The steps of the two threads inside the library, and the environment's. *)
ClientStep  == Api("user") /\ UNCHANGED <<main, count, dangling>>

ReceiveStep ==
  /\ \/ RxGood \/ RxBad \/ RxFatal \/ RxReadEnd \/ RxLock \/ RxFinish
  /\ UNCHANGED <<main, count, dangling>>

Answer(c)   == Respond(c) /\ UNCHANGED <<main, count, dangling>>
CallOver(c) == End(c) /\ UNCHANGED <<main, count, dangling>>

(* Mutants: one response too late; at every response. *)
ReachedLate(n)   == n > ResponseLimit
ReachedAtOnce(n) == n > 0
Reached(n)       == n >= ResponseLimit

(* Mutant: the test of the status inverted. *)
NotOkInverted(s) == s = "OK"
NotOk(s)         == s # "OK"

(* A handler uses its locals if they exist; otherwise it writes to memory  *)
(* that nobody reads again.                                                *)
Counted ==
  IF locals THEN count' = count + 1 /\ UNCHANGED dangling
            ELSE dangling' = TRUE /\ UNCHANGED count

FailureSeen == /\ dangling' = (dangling \/ ~locals)
               /\ UNCHANGED count

-----------------------------------------------------------------------------
(* A program that opens a stream has set both handlers, and no longer      *)
(* assigns them: neither is called before it is set or while it is being   *)
(* assigned.                                                               *)
HandlersReady ==
  joinable \/ pc["user"] = "open" => handlers = Handler /\ at \notin {"connect", "set"}

(* Each retry is a stream of its own: at the head of the loop the last one *)
(* is closed, and as many have been opened as were retried.                *)
RetriesAreStreams == at = "loop" => opened = count_retry /\ ~joinable

(* A call ended, before a close was asked for, with a status that no       *)
(* handler is called for.                                                  *)
SilentEnd ==
  \E c \in CallId : /\ calls[c].state = "ended" /\ ~calls[c].cancelled
                    /\ calls[c].status \notin ErrorStatus

(* Where main is while it prepares its calls, and where it may be inside   *)
(* the client in and after a close: part of what is inductive about both   *)
(* programs. *)
Prepares == at \in {"connect", "set"}
Closes   == pc["user"] \in {"close_cancel", "close_join", "close_reset", "idle"}

ReadyInv ==
  /\ interface = "pbr" /\ pc["recv"] = "idle"
  /\ Prepares => /\ ~joinable /\ pc["user"] = "idle"
                 /\ opened = NoCall /\ count_retry = 0
  /\ ~Prepares => \/ handlers = Handler
                  \/ at = "return" /\ ~joinable /\ pc["user"] = "idle"
  /\ at \in {"loop", "again", "leave", "destroy"} => pc["user"] = "idle"
  /\ at = "return" => Closes
  /\ ~locals => at \in {"destroy", "return"}
  /\ at \in {"first", "wait", "retry", "retried", "registered", "await", "closed"}
       => count_retry < RetryStream
  /\ receive_thread = "failed" => calls[opened].status \in ErrorStatus

Returned == at = "return" /\ pc["user"] = "idle"

=============================================================================
