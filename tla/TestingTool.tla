----------------------------- MODULE TestingTool -----------------------------
(***************************************************************************)
(* The stream case of mgbl_api_pbr_testing_tool.cpp.  The handlers leave a *)
(* verdict in two flags, retry and stream_ended, of which only the second  *)
(* is protected by stream_mtx; main registers once, waits for stream_ended *)
(* on the condition variable, closes the stream and then reads and resets  *)
(* the flags.  A registration that fails is counted as a retry, and the    *)
(* stream is not closed.                                                   *)
(***************************************************************************)
EXTENDS StreamApplication

VARIABLES retry, stream_ended

flags == <<retry, stream_ended>>
ovars == <<avars, flags>>

ToolTypeOK == ApplicationTypeOK /\ retry \in BOOLEAN /\ stream_ended \in BOOLEAN

ToolInit ==
  /\ ApplicationInit /\ program = "tool"
  /\ retry = FALSE
  /\ stream_ended = FALSE

-----------------------------------------------------------------------------
(* "loop" is the head of the loop with the last stream closed, "again" the *)
(* same with a stream that was left as it is. *)
RegisterTool ==
  /\ at \in {"loop", "again"} /\ count_retry < RetryStream
  /\ Register("registered")
  /\ UNCHANGED flags

(* Mutant: the branches on the error code exchanged. *)
RegisteredUnless(code) == code # "SUCCESS"
Registered(code)       == code = "SUCCESS"

ToolRegistered ==
  /\ Running /\ at = "registered" /\ pc["user"] = "idle"
  /\ \/ /\ Registered(result["user"])
        /\ at' = "await"
        /\ UNCHANGED count_retry
     \/ /\ ~Registered(result["user"])
        /\ at' = "again"
        /\ count_retry' = count_retry + 1
  /\ UNCHANGED <<vars, flags, program, retry_count, count, locals, dangling>>

(* The wait on the condition variable, and the call of rpc_stream_close. *)
StreamEnded ==
  /\ at = "await" /\ stream_ended
  /\ Close("closed")
  /\ UNCHANGED flags

(* check_retry.  Mutant: stream_ended not reset. *)
EndedKept  == stream_ended
EndedReset == FALSE

CheckRetry ==
  /\ Running /\ at = "closed" /\ pc["user"] = "idle"
  /\ retry' = FALSE
  /\ count' = 0
  /\ stream_ended' = EndedReset
  /\ \/ retry /\ at' = "loop" /\ count_retry' = count_retry + 1
     \/ ~retry /\ at' = "leave" /\ UNCHANGED count_retry
  /\ UNCHANGED <<vars, program, retry_count, locals, dangling>>

-----------------------------------------------------------------------------
(* The bodies of the handlers, up to their return. *)
ToolSuccessHandler ==
  /\ RxSuccessReturn
  /\ Counted
  /\ IF locals /\ Reached(count + 1)
       THEN retry' = FALSE /\ stream_ended' = TRUE
       ELSE UNCHANGED flags
  /\ UNCHANGED main

(* Mutant: a retry after every failure. *)
RetryAfterAny(status) == TRUE
RetryAfter(status)    == status = "DEADLINE_EXCEEDED"

ToolFailedHandler ==
  /\ RxFailedReturn
  /\ FailureSeen
  /\ LET status == calls[subscribe_stream_rw].status IN
       IF locals /\ NotOk(status)
         THEN retry' = RetryAfter(status) /\ stream_ended' = TRUE
         ELSE UNCHANGED flags
  /\ UNCHANGED main

-----------------------------------------------------------------------------
ToolMainStep == \/ RegisterTool \/ ToolRegistered \/ StreamEnded \/ CheckRetry
                \/ CommonStep /\ UNCHANGED flags

ToolNext ==
  \/ ToolMainStep \/ ToolSuccessHandler \/ ToolFailedHandler
  \/ (ClientStep \/ ReceiveStep) /\ UNCHANGED flags
  \/ \E c \in CallId : (Answer(c) \/ CallOver(c)) /\ UNCHANGED flags

(* Each thread runs, and a call that was cancelled ends.  No other call    *)
(* need end: the deadline is optional, and the one main sets before each   *)
(* registration is a variable it has not initialised.                      *)
ToolFairness ==
  /\ WF_ovars(ToolMainStep)
  /\ WF_ovars(ClientStep /\ UNCHANGED flags)
  /\ WF_ovars(ReceiveStep /\ UNCHANGED flags)
  /\ WF_ovars(ToolSuccessHandler) /\ WF_ovars(ToolFailedHandler)
  /\ \A c \in CallId :
       WF_ovars(calls[c].cancelled /\ CallOver(c) /\ UNCHANGED flags)

ToolSpec == ToolInit /\ [][ToolNext]_ovars /\ ToolFairness

-----------------------------------------------------------------------------
(* The verdict main reads after the close is about the stream it closed    *)
(* and is the last one: a retry if and only if that stream failed by its   *)
(* deadline, be it after the limit was reached or during the close.        *)
VerdictOfThisStream ==
  at = "closed" /\ pc["user"] = "idle" =>
    /\ ~joinable
    /\ retry <=> calls[opened].status = "DEADLINE_EXCEEDED"

(* main wakes up for the stream it waits for: the responses counted are    *)
(* those of this stream, and they have reached the limit or the stream has *)
(* failed.                                                                 *)
WakesForThisStream ==
  at = "await" =>
    /\ locals /\ count <= Len(calls[opened].sent)
    /\ stream_ended => count >= ResponseLimit \/ reported[opened] = 1

(* A registration fails only on a stream that is over; since nobody closes *)
(* it, the retries that are left fail as well.                             *)
FailsForGood ==
  at = "again" => joinable /\ calls[opened].state = "ended"

(* The handlers outlive the locals they refer to only if the last request  *)
(* could not be sent and its stream was not closed.                        *)
DanglingAfterFailedWrite ==
  program = "tool" /\ dangling =>
    count_retry = RetryStream /\ calls[opened].state = "ended"

(* An inductive strengthening.  Where main is, and the stream it is about; *)
(* what the flags and the counter say of that stream while it runs.        *)
ToolPlace ==
  /\ program = "tool"
  /\ at \in {"connect", "set", "loop", "again", "registered", "await", "closed",
            "leave", "destroy", "return"}
  /\ at = "loop"  => pc["user"] = "idle" /\ ~joinable /\ opened = count_retry
  /\ at = "again" => pc["user"] = "idle"
  /\ at = "registered" =>
       \/ pc["user"] = "open" /\ ~joinable /\ opened = count_retry
       \/ /\ pc["user"] \in {"reg_lock", "write"} /\ joinable
          /\ \/ opened = count_retry + 1 /\ ~calls[opened].cancelled
             \/ calls[opened].state = "ended"
       \/ /\ pc["user"] = "idle" /\ joinable
          /\ \/ result["user"] = "SUCCESS" /\ opened = count_retry + 1
             \/ result["user"] = "WRITES_FAILED" /\ calls[opened].state = "ended"
  /\ at = "await"  => pc["user"] = "idle" /\ joinable /\ opened = count_retry + 1
  /\ at = "closed" => /\ Closes /\ opened = count_retry + 1
                      /\ pc["user"] = "idle" => ~joinable

FlagsInv ==
  /\ at \in {"connect", "set", "loop"} \/ pc["user"] = "open" =>
       ~retry /\ ~stream_ended /\ count = 0
  /\ at \in {"again", "registered", "await", "closed"} /\ pc["user"] # "open" =>
       /\ count + (IF receive_thread = "success" THEN 1 ELSE 0) <= calls[opened].taken
       /\ retry <=> /\ receive_thread \in {"none", "done"}
                    /\ calls[opened].status = "DEADLINE_EXCEEDED"
       /\ stream_ended =>
            count >= ResponseLimit \/ reported[opened] = 1

ToolLeaveInv ==
  /\ at \in {"leave", "destroy", "return"} /\ joinable =>
       count_retry = RetryStream /\ calls[opened].state = "ended"
  /\ dangling => /\ at \in {"destroy", "return"} /\ count_retry = RetryStream
                 /\ opened # NoCall /\ calls[opened].state = "ended"

ToolInv ==
  /\ StreamInv /\ ToolTypeOK /\ ReadyInv /\ ToolPlace /\ FlagsInv /\ ToolLeaveInv
  /\ FailsForGood

(* The tool comes to its end, unless a stream ends in silence or the       *)
(* server keeps it waiting for ever.                                       *)
ToolEnds ==
  program = "tool" =>
    \/ <>(SilentEnd \/ ~Running \/ Returned)
    \/ <>[](at = "await" /\ calls[opened].state = "open")

=============================================================================
