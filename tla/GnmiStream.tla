----------------------------- MODULE GnmiStream -----------------------------
(***************************************************************************)
(* The streaming half of GnmiClient (mgbl_api.cpp): the application thread *)
(* calls rpc_register_stats_stream, rpc_stream_close and the destructor    *)
(* while the receive thread, which the first of them starts, reads the     *)
(* responses and calls the application's two handlers.  The threads share  *)
(* the members of GnmiClientDetails; subscription_mode_stream_mtx protects *)
(* only some of the accesses.                                              *)
(*                                                                         *)
(* A step is what one thread does between two points where the other can   *)
(* be observed: a lock, a blocking call, the call or return of a handler.  *)
(* A handler may itself call the API (HandlerCalls); it then does so in    *)
(* the receive thread.                                                     *)
(***************************************************************************)
EXTENDS GrpcCall

CONSTANT
  HandlerCalls   \* pairs <<handler, function>>: the API calls that the
                 \* application's handlers may make

Handler  == {"success", "failed"}
Function == {"register", "close"}

ASSUME HandlerAssumption == HandlerCalls \subseteq Handler \X Function

Thread    == {"user", "recv"}
NoThread  == "nobody"
ErrorCode == {"SUCCESS", "RPC_FAILURE", "CLIENT_TYPE_FAILURE", "WRITES_FAILED"}
Fault     == {"none", "bad_function_call", "parse_exception", "self_join"}

VARIABLES
  interface,      \* interface->name() of the counters object
  handlers,       \* which of the two handlers are set
  pc,             \* where each thread is inside an API call
  result,         \* what the last API call of each thread returned
  destroying,     \* rpc_stream_close runs as part of ~GnmiClient
  alive,          \* the GnmiClient object exists
  mtx,            \* the owner of subscription_mode_stream_mtx
  stream_context, \* the call impl_->stream_context belongs to
  subscribe_stream_rw,  \* the call impl_->subscribe_stream_rw belongs to
  opened,         \* the calls opened so far; the last one is call "opened"
  receive_thread, \* where the receive thread is; "none": not joinable
  stats,          \* the responses add_stats has stored, oldest first
  reported,       \* how often rpc_failed_handler was called for each call
  fault           \* why std::terminate was called, if it was

vars == <<calls, interface, handlers, pc, result, destroying, alive, mtx,
          stream_context, subscribe_stream_rw, opened, receive_thread,
          stats, reported, fault>>

app  == <<interface, handlers, alive>>       \* changed by the application
impl == <<mtx, stream_context, subscribe_stream_rw, opened>>
seen == <<stats, reported>>                  \* what the application sees

Location == {"idle", "open", "reg_lock", "write",
             "close_cancel", "close_join", "close_reset"}
RxState  == {"none", "read", "success", "lock", "finish", "failed", "done"}

TypeOK ==
  /\ calls \in [CallId -> Call]
  /\ interface \in {"pbr", "other"}
  /\ handlers \subseteq Handler
  /\ pc \in [Thread -> Location]
  /\ result \in [Thread -> ErrorCode]
  /\ destroying \in BOOLEAN
  /\ alive \in BOOLEAN
  /\ mtx \in Thread \cup {NoThread}
  /\ stream_context \in CallId \cup {NoCall}
  /\ subscribe_stream_rw \in CallId \cup {NoCall}
  /\ opened \in CallId \cup {NoCall}
  /\ receive_thread \in RxState
  /\ stats \in Seq(CallId \X Nat)
  /\ reported \in [CallId -> Nat]
  /\ fault \in Fault

Init ==
  /\ CallsInit
  /\ interface \in {"pbr", "other"}
  /\ handlers = {}
  /\ pc = [t \in Thread |-> "idle"]
  /\ result = [t \in Thread |-> "SUCCESS"]
  /\ destroying = FALSE
  /\ alive = TRUE
  /\ mtx = NoThread
  /\ stream_context = NoCall
  /\ subscribe_stream_rw = NoCall
  /\ opened = 0
  /\ receive_thread = "none"
  /\ stats = << >>
  /\ reported = [c \in CallId |-> 0]
  /\ fault = "none"

-----------------------------------------------------------------------------
Running  == fault = "none"
joinable == receive_thread # "none"
InHandler == receive_thread \in Handler
Goto(t, l)      == pc' = [pc EXCEPT ![t] = l]
Return(t, code) == Goto(t, "idle") /\ result' = [result EXCEPT ![t] = code]

(* std::mutex.  Mutants: a lock_guard that was forgotten, a return that    *)
(* leaves the mutex locked. *)
AcquireUnlocked(t) == mtx' = t
Acquire(t)         == mtx = NoThread /\ mtx' = t
ReleaseNever(t)    == UNCHANGED mtx
Release(t)         == mtx' = NoThread

(* Thread t is running application code that may call function f. *)
MayCall(t, f) ==
  /\ Running /\ alive /\ pc[t] = "idle"
  /\ t = "recv" => InHandler /\ <<receive_thread, f>> \in HandlerCalls

-----------------------------------------------------------------------------
(* The application sets a handler.  Nothing in GnmiClient checks that it   *)
(* does so between streams; the programs of the repository do, and the     *)
(* model assumes it, for the two std::function members are not protected   *)
(* against the receive thread.                                             *)
SetHandler(h) ==
  /\ Running /\ alive /\ pc["user"] = "idle" /\ ~joinable
  /\ handlers' = handlers \cup {h}
  /\ UNCHANGED <<calls, interface, alive, pc, result, destroying, impl,
                 receive_thread, seen, fault>>

(* Whether registering opens a stream or only sends a request.  Mutants:   *)
(* a stream taken for open as long as it has a context; always a new one.  *)
RegisterStartOnContext == IF stream_context # NoCall THEN "reg_lock" ELSE "open"
RegisterStartAlways    == "open"
RegisterStart          == IF joinable THEN "reg_lock" ELSE "open"

(* rpc_register_stats_stream, up to the test of joinable(). *)
RegisterCall(t) ==
  /\ MayCall(t, "register")
  /\ \/ /\ interface # "pbr"
        /\ Return(t, "CLIENT_TYPE_FAILURE")
     \/ /\ interface = "pbr"
        /\ joinable \/ opened < MaxCalls
        /\ Goto(t, RegisterStart)
        /\ UNCHANGED result
  /\ UNCHANGED <<calls, app, destroying, impl, receive_thread, seen, fault>>

(* ... the locked block that opens the stream and starts the thread ... *)
OpenStream(t) ==
  /\ Running /\ pc[t] = "open" /\ mtx = NoThread
  /\ opened' = opened + 1
  /\ stream_context' = opened'
  /\ Subscribe(opened')
  /\ subscribe_stream_rw' = opened'
  /\ receive_thread' = "read"
  /\ Goto(t, "reg_lock")
  /\ UNCHANGED <<app, result, destroying, mtx, seen, fault>>

(* ... and the locked block that sends the request. *)
RegisterLock(t) ==
  /\ Running /\ pc[t] = "reg_lock" /\ Acquire(t)
  /\ Goto(t, "write")
  /\ UNCHANGED <<calls, app, result, destroying, stream_context,
                 subscribe_stream_rw, opened, receive_thread, seen, fault>>

(* Mutant: a grpc status code in place of the library's own. *)
WriteResultGrpc(ok) == IF ok THEN "OK" ELSE "UNKNOWN"
WriteResult(ok)     == IF ok THEN "SUCCESS" ELSE "WRITES_FAILED"

RegisterWrite(t) ==
  /\ Running /\ pc[t] = "write"
  /\ IF stream_context # NoCall
       THEN \E ok \in WriteOutcomes(subscribe_stream_rw) :
              /\ Write(subscribe_stream_rw, ok)
              /\ Return(t, WriteResult(ok))
       ELSE Return(t, "RPC_FAILURE") /\ UNCHANGED calls
  /\ Release(t)
  /\ UNCHANGED <<app, destroying, stream_context, subscribe_stream_rw,
                 opened, receive_thread, seen, fault>>

-----------------------------------------------------------------------------
(* Mutant: the join forgotten. *)
CloseStartNoJoin == "close_reset"
CloseStart       == IF joinable THEN "close_cancel" ELSE "close_reset"

(* rpc_stream_close, called as such or by ~GnmiClient. *)
CloseCall(t) ==
  /\ MayCall(t, "close")
  /\ Goto(t, CloseStart)
  /\ destroying' \in IF t = "user" THEN BOOLEAN ELSE {destroying}
  /\ UNCHANGED <<calls, app, result, impl, receive_thread, seen, fault>>

(* Mutant: the cancellation forgotten. *)
CancelNothing == UNCHANGED calls
CancelStream  == IF stream_context # NoCall THEN TryCancel(stream_context)
                                            ELSE UNCHANGED calls

CloseCancel(t) ==
  /\ Running /\ pc[t] = "close_cancel" /\ mtx = NoThread
  /\ CancelStream
  /\ Goto(t, "close_join")
  /\ UNCHANGED <<app, result, destroying, impl, receive_thread, seen, fault>>

(* join() waits for the receive thread to end; the receive thread itself   *)
(* gets std::system_error, which nothing catches.                          *)
CloseJoin(t) ==
  /\ Running /\ pc[t] = "close_join"
  /\ \/ /\ t = "user" /\ receive_thread = "done"
        /\ receive_thread' = "none"
        /\ Goto(t, "close_reset")
        /\ UNCHANGED fault
     \/ /\ t = "recv"
        /\ fault' = "self_join"
        /\ UNCHANGED <<receive_thread, pc>>
  /\ UNCHANGED <<calls, app, result, destroying, impl, seen>>

CloseReset(t) ==
  /\ Running /\ pc[t] = "close_reset"
  /\ subscribe_stream_rw' = NoCall
  /\ Return(t, "SUCCESS")
  /\ alive' = ~destroying
  /\ UNCHANGED <<calls, interface, handlers, destroying, mtx, stream_context,
                 opened, receive_thread, seen, fault>>

-----------------------------------------------------------------------------
(* The receive thread.  RxGood, RxBad and RxFatal are the three outcomes   *)
(* of Read followed by check_response.                                     *)
NextKind(c) == calls[c].sent[calls[c].taken + 1]

RxRead(kind) ==
  /\ Running /\ receive_thread = "read"
  /\ Readable(subscribe_stream_rw) /\ NextKind(subscribe_stream_rw) = kind
  /\ Read(subscribe_stream_rw)

(* An empty std::function throws when called; nothing catches that. *)
CallHandler(h) ==
  /\ receive_thread' = h
  /\ fault' = IF h \in handlers THEN fault ELSE "bad_function_call"

(* add_stats.  Mutant: the newest counters stored first. *)
StatsWithFirst(r) == <<r>> \o stats
StatsWith(r)      == Append(stats, r)

RxGood ==
  /\ RxRead("good")
  /\ stats' = StatsWith(<<subscribe_stream_rw,
                          calls[subscribe_stream_rw].taken + 1>>)
  /\ CallHandler("success")
  /\ UNCHANGED <<app, pc, result, destroying, impl, reported>>

RxBad ==
  /\ RxRead("bad")
  /\ UNCHANGED <<app, pc, result, destroying, impl, receive_thread, seen,
                 fault>>

RxFatal ==
  /\ RxRead("fatal")
  /\ fault' = "parse_exception"
  /\ UNCHANGED <<app, pc, result, destroying, impl, receive_thread, seen>>

RxSuccessReturn ==
  /\ Running /\ receive_thread = "success" /\ pc["recv"] = "idle"
  /\ receive_thread' = "read"
  /\ UNCHANGED <<calls, app, pc, result, destroying, impl, seen, fault>>

(* The loop ends when Read returns false.  Mutant: also when the stream    *)
(* is being closed. *)
LoopEndsOnCancel(c) == ReadFails(c) \/ calls[c].cancelled
LoopEnds(c)         == ReadFails(c)

RxReadEnd ==
  /\ Running /\ receive_thread = "read" /\ LoopEnds(subscribe_stream_rw)
  /\ receive_thread' = "lock"
  /\ UNCHANGED <<calls, app, pc, result, destroying, impl, seen, fault>>

RxLock ==
  /\ Running /\ receive_thread = "lock" /\ Acquire("recv")
  /\ receive_thread' = "finish"
  /\ UNCHANGED <<calls, app, pc, result, destroying, stream_context,
                 subscribe_stream_rw, opened, seen, fault>>

(* The test for an error other than CANCELLED.  Mutants: CANCELLED not     *)
(* excluded; failures of a stream that is being closed left out. *)
FailureAny(c)       == calls[c].status # "OK"
FailureUnclosed(c)  == calls[c].status \in ErrorStatus /\ ~calls[c].cancelled
Failure(c)          == calls[c].status \in ErrorStatus

(* WritesDone, Finish, and the failed handler, called with the lock held. *)
RxFinish ==
  /\ Running /\ receive_thread = "finish"
  /\ Finish(subscribe_stream_rw)
  /\ \/ /\ Failure(subscribe_stream_rw)
        /\ reported' = [reported EXCEPT ![subscribe_stream_rw] = @ + 1]
        /\ CallHandler("failed")
        /\ UNCHANGED mtx
     \/ /\ ~Failure(subscribe_stream_rw)
        /\ receive_thread' = "done"
        /\ Release("recv")
        /\ UNCHANGED <<reported, fault>>
  /\ UNCHANGED <<app, pc, result, destroying, stream_context,
                 subscribe_stream_rw, opened, stats>>

RxFailedReturn ==
  /\ Running /\ receive_thread = "failed" /\ pc["recv"] = "idle"
  /\ receive_thread' = "done"
  /\ Release("recv")
  /\ UNCHANGED <<calls, app, pc, result, destroying, stream_context,
                 subscribe_stream_rw, opened, seen, fault>>

-----------------------------------------------------------------------------
client == <<interface, handlers, pc, result, destroying, alive, mtx,
            stream_context, subscribe_stream_rw, opened, receive_thread,
            stats, reported, fault>>

Respond(c) == \E k \in Kinds : ServerRespond(c, k) /\ UNCHANGED client
End(c)     == \E s \in Status : CallEnd(c, s) /\ UNCHANGED client

(* The process is gone, or its client is: nothing more will happen. *)
Stopped == (~Running \/ ~alive) /\ UNCHANGED vars

Api(t) == \/ OpenStream(t) \/ RegisterLock(t) \/ RegisterWrite(t)
          \/ CloseCancel(t) \/ CloseJoin(t) \/ CloseReset(t)

Receive == \/ RxGood \/ RxBad \/ RxFatal \/ RxSuccessReturn
           \/ RxReadEnd \/ RxLock \/ RxFinish \/ RxFailedReturn

Next ==
  \/ \E h \in Handler : SetHandler(h)
  \/ \E t \in Thread : RegisterCall(t) \/ CloseCall(t) \/ Api(t)
  \/ Receive
  \/ \E c \in CallId : Respond(c) \/ End(c)
  \/ Stopped

Spec == Init /\ [][Next]_vars

(* A thread that can run does; a handler returns; a call that was          *)
(* cancelled ends.  Nothing obliges the server to answer or to end a call, *)
(* the application to call anything, or std::mutex to be fair.             *)
Fairness ==
  /\ \A t \in Thread : WF_vars(Api(t))
  /\ WF_vars(Receive)
  /\ SF_vars(RxSuccessReturn) /\ SF_vars(RxFailedReturn)
  /\ \A c \in CallId : WF_vars(calls[c].cancelled /\ End(c))

FairSpec == Spec /\ Fairness

-----------------------------------------------------------------------------
(* SAFETY                                                                  *)

(* No access through a null subscribe_stream_rw: while the receive thread  *)
(* may still use it, and while an API call is about to write through it,   *)
(* it is the stream of the last call opened, as is the context that        *)
(* TryCancel is called on.                                                 *)
StreamInUse ==
  /\ receive_thread \in RxState \ {"none", "done"} => subscribe_stream_rw = opened
  /\ \A t \in Thread : pc[t] = "write" => subscribe_stream_rw = opened
  /\ \A t \in Thread : pc[t] = "close_cancel" => stream_context = opened

(* One Write at a time on a stream, and none during WritesDone and Finish. *)
WriteExclusive ==
  /\ ~(pc["user"] = "write" /\ pc["recv"] = "write")
  /\ receive_thread = "finish" => \A t \in Thread : pc[t] # "write"

(* Once rpc_stream_close or the destructor has joined the thread no        *)
(* handler runs, every call the client opened has been finished, and a     *)
(* destroyed client has no thread (a joinable one would call terminate).   *)
QuietAfterClose ==
  pc["user"] = "close_reset" \/ ~alive
    => /\ ~joinable
       /\ pc["recv"] = "idle"
       /\ \A c \in 1 .. opened : calls[c].finished

(* add_stats stores exactly the good responses that Read has returned, in  *)
(* the order they were sent, the calls one after the other: none is lost,  *)
(* stored twice, or stored after a response of a later call.               *)
Taken == {r \in CallId \X (1 .. MaxResponses) : r[2] <= calls[r[1]].taken}

Earlier(r, q) == r[1] < q[1] \/ (r[1] = q[1] /\ r[2] < q[2])

StatsExact ==
  /\ {stats[i] : i \in 1 .. Len(stats)} =
       {r \in Taken : calls[r[1]].sent[r[2]] = "good"}
  /\ \A i, j \in 1 .. Len(stats) : i < j => Earlier(stats[i], stats[j])

(* The failed handler's own call of the API waits for ever: the receive    *)
(* thread holds the mutex while that handler runs.                         *)
SelfDeadlock == receive_thread = "failed" /\ pc["recv"] # "idle"

(* Whatever API calls the handlers make, a thread waits for a mutex that   *)
(* it holds itself only in that way, and only the success handler's call   *)
(* gets as far as joining its own thread: no return leaves the mutex       *)
(* locked, and an application whose handlers do not do these two things    *)
(* meets neither.                                                          *)
OwnWaitsOnly ==
  /\ \A t \in Thread :
       pc[t] \in {"reg_lock", "close_cancel", "open"} /\ mtx = t
         => t = "recv" /\ SelfDeadlock
  /\ fault = "self_join" \/ pc["recv"] = "close_join"
       => receive_thread = "success" /\ mtx # "recv"

(* The failed handler is called in the step that finishes a call, so at    *)
(* most once for each: for every call that ended with an error, and        *)
(* neither for one that ended with OK nor for the CANCELLED that a close   *)
(* has asked for.  (What happens to a CANCELLED that no close asked for is *)
(* the subject of EveryFailureReported.)                                   *)
ReportExact ==
  [][\A c \in CallId :
       /\ reported'[c] # reported[c]
            => /\ reported'[c] = reported[c] + 1
               /\ ~calls[c].finished /\ calls'[c].finished
               /\ calls[c].status # "OK"
               /\ ~(calls[c].status = "CANCELLED" /\ calls[c].cancelled)
       /\ ~calls[c].finished /\ calls'[c].finished
            /\ calls[c].status \in ErrorStatus
            => reported'[c] # reported[c]]_vars

(* The context of a call is replaced, and thereby destroyed, only after    *)
(* the call has been finished.                                             *)
ContextOutlivesCall ==
  [][stream_context' # stream_context /\ stream_context # NoCall
       => calls[stream_context].finished]_vars

(* WritesDone and Finish are called for a call that they were not called   *)
(* for before, with the lock held, when Read has nothing more to return:   *)
(* the call has ended and, with status OK, every response has been read.   *)
(* No other step finishes a call, and none reads from a finished one.      *)
FinishIsLast ==
  [][/\ RxFinish => /\ ReadFails(subscribe_stream_rw)
                    /\ ~calls[subscribe_stream_rw].finished
                    /\ mtx = "recv"
     /\ \A c \in CallId :
          /\ calls'[c].finished # calls[c].finished
               => receive_thread = "finish" /\ c = subscribe_stream_rw
          /\ calls[c].finished => calls'[c].taken = calls[c].taken]_vars

-----------------------------------------------------------------------------
(* THE INDUCTIVE INVARIANT, in parts named for what they relate            *)

(* Where the two threads may be, given the state of receive_thread.        *)
ThreadInv ==
  /\ pc["user"] \in {"open", "close_reset"} => ~joinable
  /\ pc["user"] \in {"reg_lock", "write", "close_cancel", "close_join"}
       => joinable
  /\ pc["recv"] \in {"idle", "reg_lock", "write", "close_cancel", "close_join"}
  /\ pc["recv"] # "idle" => InHandler
  /\ pc["recv"] = "write" => receive_thread = "success"
  /\ pc["user"] = "open" => opened < MaxCalls
  /\ ~alive => ~joinable /\ pc["user"] = "idle"

(* Who holds the mutex where. *)
MutexInv ==
  /\ mtx = "user" <=> pc["user"] = "write"
  /\ mtx = "recv" <=> \/ receive_thread \in {"finish", "failed"}
                      \/ pc["recv"] = "write"

(* Which call the shared members belong to. *)
MembersInv ==
  /\ stream_context = opened
  /\ subscribe_stream_rw \in {NoCall, opened}
  /\ joinable => subscribe_stream_rw = opened /\ opened # NoCall

(* How far each call is, given the state of receive_thread. *)
CallInv ==
  \A c \in CallId :
    /\ c > opened => calls[c] = UnusedCall
    /\ c < opened => calls[c].finished
    /\ c = opened => ( calls[c].finished <=>
                         receive_thread \in {"none", "failed", "done"} )
    /\ c = opened /\ receive_thread \in {"lock", "finish"} => ReadFails(c)
    /\ calls[c].finished => calls[c].state = "ended"
    /\ calls[c].taken <= Len(calls[c].sent)
    /\ Len(calls[c].sent) <= MaxResponses

(* Which calls the failed handler has been called for: the code's rule,    *)
(* CANCELLED left out whoever asked for it.                                *)
ReportInv ==
  \A c \in CallId :
    reported[c] = IF calls[c].finished /\ calls[c].status \in ErrorStatus
                  THEN 1 ELSE 0

(* Only the success handler gets to join its own thread.                   *)
JoinInv ==
  /\ pc["recv"] = "close_join" => receive_thread = "success"
  /\ fault = "self_join" => pc["recv"] = "close_join"

(* Inductive; every safety property above follows from it.                 *)
StreamInv ==
  TypeOK /\ ThreadInv /\ MutexInv /\ MembersInv /\ CallInv
         /\ ReportInv /\ StatsExact /\ JoinInv

-----------------------------------------------------------------------------
(* LIVENESS                                                                *)

(* An API call of the application returns: in particular rpc_stream_close  *)
(* does not wait for ever for the receive thread.  The one exception is a  *)
(* failed handler that calls the API and thereby keeps the mutex for ever. *)
CallReturns ==
  pc["user"] # "idle" ~> (pc["user"] = "idle" \/ ~Running \/ SelfDeadlock)

(* A failure of the stream reaches the failed handler, unless application  *)
(* calls keep taking the mutex for ever.                                   *)
FailureReported ==
  <>[](mtx # "user") =>
    \A c \in CallId :
      (calls[c].state = "ended" /\ calls[c].status \in ErrorStatus)
        ~> (reported[c] = 1 \/ ~Running)

-----------------------------------------------------------------------------
(* REFINEMENT                                                              *)

Phase == CASE receive_thread = "none"               -> "closed"
           [] receive_thread \in {"failed", "done"} -> "over"
           [] OTHER                                 -> "streaming"

Session ==
  INSTANCE StreamSession WITH
    Sessions <- CallId,
    Indexes  <- 1 .. MaxResponses,
    session  <- opened,
    phase    <- Phase,
    closing  <- joinable /\ pc["user"] \in {"close_cancel", "close_join"},
    stats    <- stats,
    failures <- {c \in CallId : reported[c] > 0},
    running  <- Running

(* The threads, the mutex and the gRPC calls implement the sessions of     *)
(* StreamSession: StreamSafe for every step, StreamFair also for progress, *)
(* unless the failed handler blocks the thread that would make it.         *)
StreamSafe == Session!Spec
StreamFair == StreamSafe /\ (Session!Progress \/ <>SelfDeadlock)

-----------------------------------------------------------------------------
(* WHAT THE DOCUMENTATION SAYS                                             *)

(* mgbl_api.cpp:668-671: the lock and the test of stream_context prevent a *)
(* Write on a stream that WritesDone and Finish were called for.           *)
NoWriteAfterFinish ==
  [][\A t \in Thread : RegisterWrite(t) => ~calls[stream_context].finished]_vars

(* mgbl_gnmi_client.h:73-76: the failed handler is called for a failed     *)
(* RPC, a cancelled one included, unless the cancellation is that of       *)
(* rpc_stream_close.                                                       *)
EveryFailureReported ==
  \A c \in CallId :
    calls[c].finished /\ calls[c].status # "OK" /\ "failed" \in handlers
      => reported[c] = 1 \/ (calls[c].status = "CANCELLED" /\ calls[c].cancelled)

=============================================================================
