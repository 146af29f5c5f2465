----------------------- MODULE StreamApplicationProofs -----------------------
(***************************************************************************)
(* Proofs about the two programs with streams, for every number of calls,  *)
(* responses and retries: both are applications of the client, so that     *)
(* what GnmiStreamProofs shows holds for them, and neither lets a handler  *)
(* be called or assigned at the wrong time.                                *)
(***************************************************************************)
EXTENDS StreamTutorial, TestingTool, GnmiStreamProofs, TLAPS

(* What main does in both programs is a step of the client's application,  *)
(* or no step of the client.                                               *)
LEMMA CommonIsClient ==
  ASSUME CommonStep
  PROVE  [Next]_vars
<1>1. CASE Connect
  BY <1>1 DEF Connect
<1>2. CASE SetHandlers
  <2>1. PICK h \in Handler : SetHandler(h)
    BY <1>2 DEF SetHandlers, Handler
  <2> QED
    BY <2>1 DEF Next
<1>3. CASE RetriesUsedUp \/ LeaveBlock
  BY <1>3 DEF RetriesUsedUp, LeaveBlock
<1>4. CASE DestroyClient
  BY <1>4 DEF DestroyClient, Next, Thread
<1> QED
  BY <1>1, <1>2, <1>3, <1>4 DEF CommonStep

(* The steps of the library and its environment are those of the client.   *)
LEMMA LibraryIsClient ==
  ASSUME \/ ClientStep \/ ReceiveStep \/ RxSuccessReturn \/ RxFailedReturn
         \/ \E c \in CallId : Answer(c) \/ CallOver(c)
  PROVE  Next
<1>1. CASE ClientStep
  BY <1>1 DEF ClientStep, Next, Thread
<1>2. CASE ReceiveStep \/ RxSuccessReturn \/ RxFailedReturn
  BY <1>2 DEF ReceiveStep, Next, Receive
<1>3. ASSUME NEW c \in CallId, Answer(c) \/ CallOver(c) PROVE Next
  BY <1>3 DEF Answer, CallOver, Next
<1> QED
  BY <1>1, <1>2, <1>3

(* A step of the tutorial is one of the client or leaves it alone.         *)
LEMMA TutorialStep ==
  ASSUME [TutorialNext]_tvars
  PROVE  [Next]_vars
<1>1. CASE RegisterFirst \/ RegisterSecond
  BY <1>1 DEF RegisterFirst, RegisterSecond, Register, Next, Thread
<1>2. CASE TakeEvent \/ StreamClosed
  BY <1>2 DEF TakeEvent, StreamClosed
<1>3. CASE CloseStream
  BY <1>3 DEF CloseStream, Close, Next, Thread
<1>4. CASE CommonStep
  BY <1>4, CommonIsClient
<1>5. CASE LibraryStep \/ SuccessHandler \/ FailedHandler
  BY <1>5, LibraryIsClient DEF LibraryStep, SuccessHandler, FailedHandler
<1>6. ASSUME NEW c \in CallId, Answer(c) \/ Deadline(c) PROVE [Next]_vars
  BY <1>6, LibraryIsClient DEF Deadline
<1>7. CASE UNCHANGED tvars
  BY <1>7 DEF tvars, avars
<1> QED
  BY <1>1, <1>2, <1>3, <1>4, <1>5, <1>6, <1>7 DEF TutorialNext, MainStep

(* A step of the tool is one of the client or leaves it alone. *)
LEMMA ToolStep ==
  ASSUME [ToolNext]_ovars
  PROVE  [Next]_vars
<1>1. CASE RegisterTool
  BY <1>1 DEF RegisterTool, Register, Next, Thread
<1>2. CASE ToolRegistered \/ CheckRetry
  BY <1>2 DEF ToolRegistered, CheckRetry
<1>3. CASE StreamEnded
  BY <1>3 DEF StreamEnded, Close, Next, Thread
<1>4. CASE CommonStep
  BY <1>4, CommonIsClient
<1>5. CASE ClientStep \/ ReceiveStep \/ ToolSuccessHandler \/ ToolFailedHandler
  BY <1>5, LibraryIsClient DEF ToolSuccessHandler, ToolFailedHandler
<1>6. ASSUME NEW c \in CallId, Answer(c) \/ CallOver(c) PROVE [Next]_vars
  BY <1>6, LibraryIsClient
<1>7. CASE UNCHANGED ovars
  BY <1>7 DEF ovars, avars
<1> QED
  BY <1>1, <1>2, <1>3, <1>4, <1>5, <1>6, <1>7 DEF ToolNext, ToolMainStep

(* The stream tutorial is an application of the client: what is proved of  *)
(* the client under any application holds in it. *)
THEOREM TutorialUsesClient == TutorialSpec => Spec
<1>1. TutorialInit => Init
  BY DEF TutorialInit, ApplicationInit
<1>2. [TutorialNext]_tvars => [Next]_vars
  BY TutorialStep
<1> QED
  BY <1>1, <1>2, PTL DEF TutorialSpec, Spec

(* So is the testing tool. *)
THEOREM ToolUsesClient == ToolSpec => Spec
<1>1. ToolInit => Init
  BY DEF ToolInit, ApplicationInit
<1>2. [ToolNext]_ovars => [Next]_vars
  BY ToolStep
<1> QED
  BY <1>1, <1>2, PTL DEF ToolSpec, Spec

-----------------------------------------------------------------------------
(* What the client's steps do to the state the programs depend on.         *)

(* The record of call c as far as the programs depend on it. *)
CallKept(c) == /\ calls'[c].state = calls[c].state
               /\ calls'[c].status = calls[c].status
               /\ calls'[c].taken = calls[c].taken

(* An open stream is the call opened last, and the shared pointer is its.  *)
LEMMA JoinableStream ==
  ASSUME StreamInv
  PROVE  /\ opened \in Nat
         /\ joinable => opened \in CallId /\ subscribe_stream_rw = opened
         /\ pc \in [Thread -> Location] /\ result \in [Thread -> ErrorCode]
         /\ receive_thread \in RxState
         /\ calls \in [CallId -> Call]
BY GrpcAssumption DEF StreamInv, TypeOK, MembersInv, CallId, NoCall

(* Opening a stream. *)
LEMMA OpenEffect ==
  ASSUME StreamInv, OpenStream("user")
  PROVE  /\ UNCHANGED <<handlers, interface, result, reported>>
         /\ pc["user"] = "open" /\ pc'["user"] = "reg_lock"
         /\ pc'["recv"] = pc["recv"]
         /\ opened' = opened + 1 /\ opened' \in CallId
         /\ receive_thread' = "read"
         /\ calls'[opened'].taken = 0 /\ calls'[opened'].cancelled = FALSE
         /\ calls'[opened'].status = "none"
         /\ reported[opened'] = 0
<1>1. pc["user"] = "open" /\ opened' = opened + 1 /\ opened' \in CallId
  BY GrpcAssumption, JoinableStream DEF OpenStream, StreamInv, ThreadInv, CallId
<1>2. calls[opened'] = UnusedCall
  BY <1>1, JoinableStream DEF StreamInv, CallInv
<1>3. /\ calls'[opened'].taken = 0 /\ calls'[opened'].cancelled = FALSE
      /\ calls'[opened'].status = "none"
  <2>1. calls' = [calls EXCEPT ![opened'].state = "open"]
    BY DEF OpenStream, Subscribe
  <2> QED
    BY <1>1, <1>2, <2>1, JoinableStream DEF UnusedCall
<1>4. reported[opened'] = 0
  BY <1>1, <1>2 DEF StreamInv, ReportInv, UnusedCall
<1> QED
  BY <1>1, <1>3, <1>4, JoinableStream DEF OpenStream, app, seen, Goto, Thread

(* The other steps of an API call of main. *)
LEMMA ApiEffect ==
  ASSUME StreamInv, Api("user"), pc["user"] # "open"
  PROVE  /\ UNCHANGED <<handlers, interface, reported, opened>>
         /\ pc'["recv"] = pc["recv"]
         /\ \A c \in CallId : CallKept(c)
         /\ pc["user"] # "close_cancel" =>
              \A c \in CallId : calls'[c].cancelled = calls[c].cancelled
         /\ \/ /\ pc["user"] = "reg_lock" /\ pc'["user"] = "write"
               /\ UNCHANGED receive_thread
            \/ /\ pc["user"] = "write" /\ pc'["user"] = "idle"
               /\ UNCHANGED receive_thread
               /\ \/ /\ result'["user"] = "SUCCESS"
                     /\ calls[opened].state # "ended"
                  \/ /\ result'["user"] = "WRITES_FAILED"
                     /\ calls[opened].state = "ended" \/ calls[opened].cancelled
            \/ /\ pc["user"] = "close_cancel" /\ pc'["user"] = "close_join"
               /\ UNCHANGED receive_thread
            \/ /\ pc["user"] = "close_join" /\ pc'["user"] = "close_reset"
               /\ receive_thread = "done" /\ receive_thread' = "none"
            \/ /\ pc["user"] = "close_reset" /\ pc'["user"] = "idle"
               /\ UNCHANGED receive_thread
<1> USE JoinableStream DEF Thread, Goto, Return, app, seen, impl
<1>1. CASE OpenStream("user")
  BY <1>1 DEF OpenStream
<1>2. CASE RegisterLock("user")
  BY <1>2 DEF RegisterLock, CallKept
<1>3. CASE RegisterWrite("user")
  <2>1. joinable /\ stream_context = opened /\ opened # NoCall /\ opened \in CallId
        /\ subscribe_stream_rw = opened
    BY <1>3 DEF RegisterWrite, StreamInv, ThreadInv, MembersInv
  <2>2. PICK ok \in WriteOutcomes(opened) :
          Write(opened, ok) /\ Return("user", WriteResult(ok))
    BY <1>3, <2>1 DEF RegisterWrite
  <2>3. ok \in BOOLEAN
    BY <2>2 DEF WriteOutcomes
  <2>4. StatusKept /\ DataKept /\ CancelKept
    BY <2>1, <2>2, <2>3, WriteEffect
  <2>5. calls[opened].finished => calls[opened].state = "ended"
    BY <2>1 DEF StreamInv, CallInv
  <2>6. /\ ok => calls[opened].state # "ended"
        /\ ~ok => calls[opened].state = "ended" \/ calls[opened].cancelled
    BY <2>2, <2>5 DEF WriteOutcomes
  <2> QED
    BY <1>3, <2>2, <2>3, <2>4, <2>6
    DEF RegisterWrite, WriteResult, CallKept, StatusKept, DataKept, CancelKept
<1>4. CASE CloseCancel("user")
  <2>1. StatusKept /\ DataKept
    <3>1. CASE stream_context = NoCall
      BY <1>4, <3>1 DEF CloseCancel, CancelStream, StatusKept, DataKept
    <3>2. CASE stream_context # NoCall
      <4>1. stream_context \in CallId /\ TryCancel(stream_context)
        BY <1>4, <3>2 DEF CloseCancel, CancelStream, StreamInv, TypeOK
      <4> QED
        BY <4>1, TryCancelEffect
    <3> QED
      BY <3>1, <3>2
  <2> QED
    BY <1>4, <2>1 DEF CloseCancel, CallKept, StatusKept, DataKept
<1>5. CASE CloseJoin("user")
  BY <1>5 DEF CloseJoin, CallKept
<1>6. CASE CloseReset("user")
  BY <1>6 DEF CloseReset, CallKept
<1> QED
  BY <1>1, <1>2, <1>3, <1>4, <1>5, <1>6 DEF Api

(* The receive thread between its handlers. *)
LEMMA ReceiveEffect ==
  ASSUME StreamInv,
         RxGood \/ RxBad \/ RxFatal \/ RxReadEnd \/ RxLock \/ RxFinish
  PROVE  /\ UNCHANGED <<handlers, interface, pc, result, opened>>
         /\ joinable
         /\ \A c \in CallId : /\ calls'[c].state = calls[c].state
                              /\ calls'[c].status = calls[c].status
                              /\ calls'[c].taken >= calls[c].taken
                              /\ calls'[c].cancelled = calls[c].cancelled
                              /\ reported'[c] >= reported[c]
         /\ \/ /\ receive_thread = "read" /\ receive_thread' = "success"
               /\ calls'[opened].taken = calls[opened].taken + 1
            \/ receive_thread = "read" /\ receive_thread' \in {"read", "lock"}
            \/ receive_thread = "lock" /\ receive_thread' = "finish"
            \/ /\ receive_thread = "finish" /\ receive_thread' = "failed"
               /\ calls[opened].status \in ErrorStatus
            \/ /\ receive_thread = "finish" /\ receive_thread' = "done"
               /\ calls[opened].status \notin ErrorStatus
<1> USE JoinableStream DEF app, seen, impl, RxRead
<1>1. joinable /\ opened \in CallId /\ subscribe_stream_rw = opened
  BY DEF RxGood, RxBad, RxFatal, RxReadEnd, RxLock, RxFinish, joinable
<1>2. \A c \in CallId : calls[c].taken \in Nat /\ reported[c] \in Nat
  BY FieldTypes DEF StreamInv, TypeOK
<1>3. CASE RxGood \/ RxBad \/ RxFatal
  <2>1. Read(opened)
    BY <1>1, <1>3 DEF RxGood, RxBad, RxFatal
  <2>2. /\ StatusKept /\ CancelKept /\ OthersSame(opened)
        /\ calls'[opened].taken = calls[opened].taken + 1
    BY <1>1, <2>1, ReadEffect
  <2>3. \A c \in CallId : calls'[c].taken >= calls[c].taken
    BY <1>2, <2>2 DEF OthersSame
  <2> QED
    BY <1>1, <1>2, <1>3, <2>2, <2>3
    DEF RxGood, RxBad, RxFatal, CallHandler, StatusKept, CancelKept
<1>4. CASE RxReadEnd
  BY <1>1, <1>2, <1>4 DEF RxReadEnd
<1>5. CASE RxLock
  BY <1>1, <1>2, <1>5 DEF RxLock
<1>6. CASE RxFinish
  <2>1. StatusKept /\ DataKept /\ CancelKept
    BY <1>1, <1>6, FinishEffect DEF RxFinish
  <2>2. reported' \in {reported, [reported EXCEPT ![opened] = @ + 1]}
    BY <1>1, <1>6 DEF RxFinish
  <2>3. reported \in [CallId -> Nat]
    BY DEF StreamInv, TypeOK
  <2>4. \A c \in CallId : reported'[c] >= reported[c]
    BY <1>1, <1>2, <2>2, <2>3
  <2> QED
    BY <1>1, <1>2, <1>6, <2>1, <2>4
    DEF RxFinish, Failure, CallHandler, StatusKept, DataKept, CancelKept
<1> QED
  BY <1>3, <1>4, <1>5, <1>6

(* The server and the network: a call that is over stays as it is. *)
LEMMA EnvironmentEffect ==
  ASSUME StreamInv, NEW d \in CallId, Respond(d) \/ End(d)
  PROVE  /\ UNCHANGED client
         /\ \A c \in CallId :
              /\ calls'[c].taken = calls[c].taken
              /\ calls'[c].cancelled = calls[c].cancelled
              /\ calls[c].state = "ended" => /\ calls'[c].state = "ended"
                                            /\ calls'[c].status = calls[c].status
<1>1. CASE Respond(d)
  <2>1. PICK k \in Kinds : ServerRespond(d, k)
    BY <1>1 DEF Respond
  <2> QED
    BY <1>1, <2>1, JoinableStream, RespondEffect
    DEF Respond, StatusKept, CancelKept
<1>2. CASE End(d)
  <2>1. PICK s \in Status : CallEnd(d, s)
    BY <1>2 DEF End
  <2>2. calls[d].state = "open"
    BY <2>1 DEF CallEnd
  <2> QED
    BY <1>2, <2>1, <2>2, JoinableStream, EndEffect
    DEF End, DataKept, CancelKept, OthersSame
<1> QED
  BY <1>1, <1>2

(* The return of a handler. *)
LEMMA ReturnEffect ==
  ASSUME RxSuccessReturn \/ RxFailedReturn
  PROVE  /\ UNCHANGED <<calls, handlers, interface, pc, result, opened, reported>>
         /\ \/ receive_thread = "success" /\ receive_thread' = "read"
            \/ receive_thread = "failed" /\ receive_thread' = "done"
BY DEF RxSuccessReturn, RxFailedReturn, app, seen, impl

(* main calls rpc_register_stats_stream. *)
LEMMA RegisterEffect ==
  ASSUME StreamInv, interface = "pbr", RegisterCall("user")
  PROVE  /\ UNCHANGED <<calls, handlers, interface, result, opened, receive_thread,
                        reported>>
         /\ pc["user"] = "idle" /\ pc'["recv"] = pc["recv"]
         /\ pc'["user"] = IF joinable THEN "reg_lock" ELSE "open"
BY JoinableStream
DEF RegisterCall, MayCall, RegisterStart, Goto, Thread, app, seen, impl

(* main calls rpc_stream_close or destroys the client. *)
LEMMA CloseEffect ==
  ASSUME StreamInv, CloseCall("user")
  PROVE  /\ UNCHANGED <<calls, handlers, interface, result, opened, receive_thread,
                        reported>>
         /\ pc["user"] = "idle" /\ pc'["recv"] = pc["recv"]
         /\ pc'["user"] = IF joinable THEN "close_cancel" ELSE "close_reset"
BY JoinableStream DEF CloseCall, MayCall, CloseStart, Goto, Thread, app, seen, impl

-----------------------------------------------------------------------------
(* ReadyInv in both programs. *)

(* It holds at first. *)
LEMMA ReadyInit == ApplicationInit => ReadyInv
BY DEF ApplicationInit, Init, ReadyInv, Prepares, Closes, joinable, Thread, NoCall

(* The steps outside main keep it. *)
LEMMA ReadyLibrary ==
  ASSUME StreamInv, ReadyInv, UNCHANGED main,
         \/ ClientStep \/ ReceiveStep \/ RxSuccessReturn \/ RxFailedReturn
         \/ \E c \in CallId : Answer(c) \/ CallOver(c)
  PROVE  ReadyInv'
<1> USE JoinableStream DEF ReadyInv, main, Prepares, Closes, joinable
<1>1. CASE ClientStep /\ pc["user"] = "open"
  <2>1. OpenStream("user")
    BY <1>1 DEF ClientStep, Api, RegisterLock, RegisterWrite, CloseCancel,
                CloseJoin, CloseReset
  <2> QED
    BY <2>1, OpenEffect
<1>2. CASE ClientStep /\ pc["user"] # "open"
  <2>1. receive_thread = "failed" => opened \in CallId
    OBVIOUS
  <2> QED
    BY <1>2, <2>1, ApiEffect DEF ClientStep, CallKept
<1>3. CASE ReceiveStep
  BY <1>3, ReceiveEffect DEF ReceiveStep
<1>4. CASE RxSuccessReturn \/ RxFailedReturn
  BY <1>4, ReturnEffect
<1>5. ASSUME NEW c \in CallId, Answer(c) \/ CallOver(c)
      PROVE  ReadyInv'
  <2>1. receive_thread = "failed" => opened \in CallId /\ calls[opened].state = "ended"
    BY DEF StreamInv, CallInv
  <2> QED
    BY <1>5, <2>1, EnvironmentEffect DEF Answer, CallOver, client
<1> QED
  BY <1>1, <1>2, <1>3, <1>4, <1>5

(* So do the steps of main that the programs have in common. *)
LEMMA ReadyCommon ==
  ASSUME StreamInv, ReadyInv, CommonStep
  PROVE  ReadyInv'
<1> USE DEF ReadyInv, main, Prepares, Closes, joinable
<1>1. CASE Connect
  BY <1>1 DEF Connect, vars
<1>2. CASE SetHandlers
  BY <1>2 DEF SetHandlers, SetHandler, HandlersSet, impl, seen
<1>3. CASE RetriesUsedUp
  BY <1>3 DEF RetriesUsedUp, vars
<1>4. CASE LeaveBlock
  BY <1>4 DEF LeaveBlock, vars
<1>5. CASE DestroyClient
  BY <1>5, CloseEffect DEF DestroyClient
<1> QED
  BY <1>1, <1>2, <1>3, <1>4, <1>5 DEF CommonStep

(* What ReadyInv says about handlers. *)
LEMMA ReadyHandlers == ReadyInv => HandlersReady
BY DEF ReadyInv, HandlersReady, Prepares

=============================================================================
