------------------------ MODULE StreamProgramProofs ------------------------
(***************************************************************************)
(* Proofs of the invariants of the stream tutorial and of the testing      *)
(* tool: which stream the events and the verdict that main reads are       *)
(* about, and when a handler can outlive the locals it refers to.          *)
(***************************************************************************)
EXTENDS StreamApplicationProofs, MCStreamApplication, SequenceTheorems

-----------------------------------------------------------------------------
(* The stream tutorial. *)

TutorialParts == TutorialPlace /\ QueueInv /\ LeaveInv

(* Its invariant holds at first. *)
LEMMA TutorialInitInv == TutorialInit => TutorialInv
<1> SUFFICES ASSUME TutorialInit PROVE TutorialInv
  OBVIOUS
<1>1. StreamInv /\ ReadyInv
  BY InitInv, ReadyInit DEF TutorialInit, ApplicationInit
<1>2. TutorialTypeOK
  <2>1. << >> \in Seq(Event)
    OBVIOUS
  <2>2. my_deque \in Seq(Event)
    BY <2>1 DEF TutorialInit
  <2>3. 0 \in 0 .. RetryStream /\ 0 \in 0 .. ConnectRetries
    BY ApplicationAssumption, GrpcAssumption
  <2>4. at \in Place
    BY DEF TutorialInit, ApplicationInit, Place
  <2> QED
    BY <2>2, <2>3, <2>4
    DEF TutorialInit, ApplicationInit, TutorialTypeOK, ApplicationTypeOK
<1>3. TutorialPlace /\ QueueInv /\ LeaveInv
  BY ApplicationAssumption DEF TutorialInit, ApplicationInit, Init,
     TutorialPlace, QueueInv, LeaveInv, joinable
<1> QED
  BY <1>1, <1>2, <1>3 DEF TutorialInv

(* The deque is a sequence of events, each pushed for an open call. *)
LEMMA TutorialTypes ==
  ASSUME TutorialInv
  PROVE  /\ my_deque \in Seq(Event) /\ Len(my_deque) \in Nat
         /\ my_deque # << >> => Head(my_deque) = my_deque[1]
         /\ count \in Nat /\ count_retry \in 0 .. RetryStream
         /\ RetryStream \in Nat /\ ResponseLimit \in Nat \ {0}
         /\ at \in {"connect", "set", "loop", "leave", "destroy", "return", "first",
                   "wait", "retry", "retried", "quit", "left"}
         /\ dangling \in BOOLEAN /\ locals \in BOOLEAN
<1>1. my_deque \in Seq(Event)
  BY DEF TutorialInv, TutorialTypeOK
<1>2. Len(my_deque) \in Nat /\ (my_deque # << >> => Head(my_deque) = my_deque[1])
  BY <1>1
<1> QED
  BY <1>1, <1>2, ApplicationAssumption, GrpcAssumption
  DEF TutorialInv, TutorialTypeOK, ApplicationTypeOK, TutorialPlace, Place

(* The steps outside main and the handlers keep it. *)
LEMMA TutorialLibrary ==
  ASSUME TutorialInv, UNCHANGED <<main, count, dangling, my_deque>>,
         \/ ClientStep \/ ReceiveStep
         \/ \E c \in CallId : Answer(c) \/ CallOver(c)
  PROVE  TutorialParts'
<1> USE TutorialTypes, JoinableStream
    DEF TutorialInv, TutorialPlace, QueueInv, LeaveInv, TutorialParts,
        ReadyInv, main, Prepares, Closes, joinable
<1>1. CASE ClientStep /\ pc["user"] = "open"
  <2>1. OpenStream("user")
    BY <1>1 DEF ClientStep, Api, RegisterLock, RegisterWrite, CloseCancel,
                CloseJoin, CloseReset
  <2>2. at = "first" /\ my_deque = << >> /\ count < ResponseLimit
    BY <1>1, <2>1, OpenEffect
  <2>3. TutorialPlace'
    BY <2>1, <2>2, OpenEffect
  <2>4. QueueInv' /\ LeaveInv'
    BY <2>1, <2>2, OpenEffect
  <2> QED
    BY <2>3, <2>4
<1>2. CASE ClientStep /\ pc["user"] # "open"
  <2>1. Api("user")
    BY <1>2 DEF ClientStep
  <2>2. TutorialPlace' /\ LeaveInv'
    <3>1. LeaveInv'
      BY <1>2, <2>1, ApiEffect
    <3>2. pc["user"] = "close_reset" => ~joinable
      BY DEF StreamInv, ThreadInv
    <3>3. TutorialPlace'
      BY <1>2, <2>1, <3>2, ApiEffect
    <3> QED
      BY <3>1, <3>3
  <2>3. opened' = opened /\ pc'["user"] # "open"
    BY <1>2, <2>1, ApiEffect
  <2>4. at \in {"first", "wait"} /\ pc["user"] # "open" =>
          /\ receive_thread' = receive_thread
          /\ calls'[opened].status = calls[opened].status
    BY <1>2, <2>1, ApiEffect DEF CallKept
  <2>5. QueueInv'
    BY <1>2, <2>3, <2>4
  <2> QED
    BY <2>2, <2>5
<1>3. CASE ReceiveStep
  <2>1. RxGood \/ RxBad \/ RxFatal \/ RxReadEnd \/ RxLock \/ RxFinish
    BY <1>3 DEF ReceiveStep
  <2>2. TutorialPlace' /\ LeaveInv'
    BY <2>1, ReceiveEffect
  <2>3. QueueInv'
    BY <2>1, ReceiveEffect
  <2> QED
    BY <2>2, <2>3
<1>4. ASSUME NEW c \in CallId, Answer(c) \/ CallOver(c)
      PROVE  TutorialParts'
  <2>1. Respond(c) \/ End(c)
    BY <1>4 DEF Answer, CallOver
  <2>2. receive_thread = "done" => opened \in CallId /\ calls[opened].state = "ended"
    BY DEF StreamInv, CallInv
  <2>3. TutorialPlace' /\ LeaveInv'
    BY <2>1, EnvironmentEffect DEF client
  <2>4. QueueInv'
    BY <2>1, <2>2, EnvironmentEffect DEF client
  <2> QED
    BY <2>3, <2>4
<1> QED
  BY <1>1, <1>2, <1>3, <1>4

(* The steps of main keep it. *)
LEMMA TutorialMain ==
  ASSUME TutorialInv, MainStep
  PROVE  ReadyInv' /\ TutorialParts'
<1> USE TutorialTypes, JoinableStream
    DEF TutorialInv, TutorialPlace, QueueInv, LeaveInv, TutorialParts,
        ReadyInv, main, Prepares, Closes, joinable
<1>1. CASE RegisterFirst
  BY <1>1, RegisterEffect DEF RegisterFirst, Register
<1>2. CASE RegisterSecond
  BY <1>2, RegisterEffect DEF RegisterSecond, Register
<1>3. CASE TakeEvent
  <2>1. /\ at = "wait" /\ my_deque # << >> /\ at' = AfterEvent(my_deque[1][2])
        /\ my_deque' = Tail(my_deque) /\ 1 \in 1 .. Len(my_deque)
        /\ UNCHANGED <<calls, handlers, interface, pc, opened, receive_thread,
                       program, count, count_retry, locals, dangling>>
    BY <1>3 DEF TakeEvent, vars
  <2>2. CASE my_deque[1][2] = "limit"
    <3>1. at' = "leave" /\ count >= ResponseLimit
      BY <2>1, <2>2 DEF AfterEvent
    <3> QED
      BY <1>3, <2>1, <3>1 DEF TakeEvent
  <2>3. CASE my_deque[1][2] # "limit"
    <3>1. Len(my_deque) = 1 /\ receive_thread = "done" /\ count < ResponseLimit
      <4>1. 1 = Len(my_deque) /\ receive_thread = "done"
        BY <2>1, <2>3
      <4>2. ~(count >= ResponseLimit)
        BY <2>1, <2>3
      <4> QED
        BY <4>1, <4>2
    <3>2. my_deque' = << >>
      BY <2>1, <3>1
    <3>3. at' \in {"retry", "quit"}
      BY <2>1, <2>3 DEF AfterEvent
    <3> QED
      BY <1>3, <2>1, <3>1, <3>2, <3>3 DEF TakeEvent
  <2> QED
    BY <2>2, <2>3
<1>4. CASE CloseStream
  BY <1>4, CloseEffect DEF CloseStream, Close
<1>5. CASE StreamClosed
  BY <1>5 DEF StreamClosed, Retried, vars
<1>6. CASE CommonStep /\ UNCHANGED my_deque
  <2>1. ReadyInv'
    BY <1>6, ReadyCommon
  <2>2. CASE Connect
    BY <2>1, <2>2, <1>6 DEF Connect, vars
  <2>3. CASE SetHandlers
    BY <2>1, <2>3, <1>6 DEF SetHandlers, SetHandler, impl, seen, NoCall
  <2>4. CASE RetriesUsedUp
    BY <2>1, <2>4, <1>6 DEF RetriesUsedUp, vars
  <2>5. CASE LeaveBlock
    BY <2>1, <2>5, <1>6 DEF LeaveBlock, vars
  <2>6. CASE DestroyClient
    BY <2>1, <2>6, <1>6, CloseEffect DEF DestroyClient
  <2> QED
    BY <1>6, <2>2, <2>3, <2>4, <2>5, <2>6 DEF CommonStep
<1> QED
  BY <1>1, <1>2, <1>3, <1>4, <1>5, <1>6 DEF MainStep

(* The bodies of the handlers keep it: the event of a failure is the last  *)
(* of its stream, and the limit is pushed when it is reached. *)
LEMMA TutorialHandlers ==
  ASSUME TutorialInv, SuccessHandler \/ FailedHandler
  PROVE  TutorialParts'
<1> USE TutorialTypes, JoinableStream
    DEF TutorialInv, TutorialPlace, QueueInv, LeaveInv, TutorialParts,
        ReadyInv, main, Prepares, Closes, joinable
<1>1. CASE SuccessHandler
  <2>1. /\ UNCHANGED <<calls, pc, opened, main>>
        /\ receive_thread = "success" /\ receive_thread' = "read"
    BY <1>1, ReturnEffect DEF SuccessHandler, RxSuccessReturn
  <2>2. opened \in CallId /\ subscribe_stream_rw = opened /\ at # "loop"
    BY <2>1
  <2> DEFINE e == <<opened, "limit">>
  <2>3. CASE ~locals
    BY <1>1, <2>1, <2>3 DEF SuccessHandler, Counted, PushIf
  <2>4. CASE locals /\ count + 1 < ResponseLimit
    BY <1>1, <2>1, <2>2, <2>4 DEF SuccessHandler, Counted, PushIf, Reached
  <2>5. CASE locals /\ count + 1 >= ResponseLimit
    <3>1. my_deque' = Append(my_deque, e) /\ count' = count + 1
          /\ UNCHANGED dangling
      BY <1>1, <2>2, <2>5 DEF SuccessHandler, Counted, PushIf, Reached
    <3>2. e \in Event /\ e[1] = opened /\ e[2] = "limit"
      BY <2>2 DEF Event
    <3> HIDE DEF e
    <3>3. QueueInv'
      BY <2>1, <2>2, <2>5, <3>1, <3>2, AppendProperties
    <3> QED
      BY <2>1, <2>2, <2>5, <3>1, <3>3
  <2> QED
    BY <2>3, <2>4, <2>5
<1>2. CASE FailedHandler
  <2>1. /\ UNCHANGED <<calls, pc, opened, main, count>>
        /\ receive_thread = "failed" /\ receive_thread' = "done"
    BY <1>2, ReturnEffect DEF FailedHandler, RxFailedReturn, FailureSeen
  <2>2. opened \in CallId /\ subscribe_stream_rw = opened /\ at # "loop"
        /\ calls[opened].status \in ErrorStatus
    BY <2>1
  <2>3. CASE ~locals
    BY <1>2, <2>1, <2>3 DEF FailedHandler, FailureSeen, PushIf
  <2>4. CASE locals
    <3> DEFINE e == <<opened, calls[opened].status>>
    <3>1. my_deque' = Append(my_deque, e) /\ UNCHANGED dangling
      BY <1>2, <2>2, <2>4, GrpcAssumption
      DEF FailedHandler, FailureSeen, PushIf, NotOk
    <3>2. e \in Event /\ e[1] = opened /\ e[2] # "limit"
      BY <2>2, ApplicationAssumption DEF Event
    <3> HIDE DEF e
    <3>3. QueueInv'
      BY <2>1, <2>2, <2>4, <3>1, <3>2, AppendProperties
    <3> QED
      BY <2>1, <2>2, <2>4, <3>1, <3>3
  <2> QED
    BY <2>3, <2>4
<1> QED
  BY <1>1, <1>2

(* The places of main, the counters and the deque keep their types. *)
LEMMA TutorialTypeStep ==
  ASSUME TutorialInv, [TutorialNext]_tvars
  PROVE  TutorialTypeOK'
<1> USE TutorialTypes DEF ApplicationTypeOK, TutorialTypeOK
<1>1. /\ program \in {"tutorial", "tool"} /\ at \in Place /\ locals \in BOOLEAN
      /\ retry_count \in 0 .. ConnectRetries /\ ConnectRetries \in Nat
      /\ at \in {"first", "wait", "retry", "retried"} => count_retry < RetryStream
  BY ApplicationAssumption DEF TutorialInv, ReadyInv
<1>2. CASE RegisterFirst \/ RegisterSecond \/ CloseStream
  BY <1>1, <1>2 DEF RegisterFirst, RegisterSecond, CloseStream, Register, Close, Place
<1>3. CASE TakeEvent
  <2>1. Tail(my_deque) \in Seq(Event)
    BY <1>3 DEF TakeEvent
  <2> QED
    BY <1>1, <1>3, <2>1 DEF TakeEvent, AfterEvent, Place
<1>4. CASE StreamClosed
  BY <1>1, <1>4 DEF StreamClosed, Retried, Place
<1>5. CASE CommonStep /\ UNCHANGED my_deque
  <2>1. CASE Connect
    BY <1>1, <1>5, <2>1 DEF Connect, RoundsLeft, Place
  <2>2. CASE SetHandlers
    BY <1>1, <1>5, <2>2 DEF SetHandlers, Place
  <2>3. CASE RetriesUsedUp \/ LeaveBlock \/ DestroyClient
    BY <1>1, <1>5, <2>3 DEF RetriesUsedUp, LeaveBlock, DestroyClient, Place
  <2> QED
    BY <1>5, <2>1, <2>2, <2>3 DEF CommonStep
<1>6. CASE LibraryStep \/ \E c \in CallId :
             (Answer(c) /\ UNCHANGED my_deque) \/ Deadline(c)
  BY <1>1, <1>6 DEF LibraryStep, ClientStep, ReceiveStep, Answer, Deadline,
                    CallOver, main
<1>7. CASE SuccessHandler
  <2> DEFINE e == <<subscribe_stream_rw, "limit">>
  <2>1. e \in Event
    BY <1>7, JoinableStream
    DEF SuccessHandler, RxSuccessReturn, joinable, Event, TutorialInv
  <2>2. my_deque' = my_deque \/ my_deque' = Append(my_deque, e)
    BY <1>7 DEF SuccessHandler, PushIf, Reached
  <2> HIDE DEF e
  <2>3. my_deque' \in Seq(Event)
    BY <2>1, <2>2, AppendProperties
  <2>4. count' \in Nat /\ dangling' \in BOOLEAN
    <3>1. CASE locals
      BY <1>7, <3>1 DEF SuccessHandler, Counted
    <3>2. CASE ~locals
      BY <1>7, <3>2 DEF SuccessHandler, Counted
    <3> QED
      BY <3>1, <3>2
  <2>5. UNCHANGED main
    BY <1>7 DEF SuccessHandler
  <2> QED
    BY <1>1, <2>3, <2>4, <2>5 DEF main
<1>8. CASE FailedHandler
  <2>1. <<subscribe_stream_rw, calls[subscribe_stream_rw].status>> \in Event
    BY <1>8, JoinableStream
    DEF FailedHandler, RxFailedReturn, joinable, Event, TutorialInv, ReadyInv
  <2>2. my_deque' \in Seq(Event)
    BY <1>8, <2>1, AppendProperties DEF FailedHandler, PushIf
  <2> QED
    BY <1>1, <1>8, <2>2 DEF FailedHandler, FailureSeen, main
<1>9. CASE UNCHANGED tvars
  BY <1>1, <1>9 DEF tvars, avars, main
<1> QED
  BY <1>2, <1>3, <1>4, <1>5, <1>6, <1>7, <1>8, <1>9 DEF TutorialNext, MainStep

(* The client's own invariant is kept by its steps. *)
LEMMA ClientInvStep ==
  ASSUME StreamInv, [Next]_vars
  PROVE  StreamInv'
BY TypeStep, ThreadStep, MutexStep, MembersStep, CallStep, ReportStep, StatsStep,
   JoinStep DEF StreamInv

(* Every step of the tutorial keeps its invariant. *)
LEMMA TutorialInvStep == TutorialInv /\ [TutorialNext]_tvars => TutorialInv'
<1> SUFFICES ASSUME TutorialInv, [TutorialNext]_tvars PROVE TutorialInv'
  OBVIOUS
<1>1. StreamInv' /\ TutorialTypeOK'
  BY TutorialStep, ClientInvStep, TutorialTypeStep DEF TutorialInv
<1>2. CASE MainStep
  BY <1>1, <1>2, TutorialMain DEF TutorialInv, TutorialParts
<1>3. CASE LibraryStep \/ \E c \in CallId :
             (Answer(c) /\ UNCHANGED my_deque) \/ Deadline(c)
  <2>1. /\ UNCHANGED <<main, count, dangling, my_deque>>
        /\ \/ ClientStep \/ ReceiveStep
           \/ \E c \in CallId : Answer(c) \/ CallOver(c)
    BY <1>3 DEF LibraryStep, ClientStep, ReceiveStep, Answer, Deadline, CallOver
  <2> QED
    BY <1>1, <2>1, TutorialLibrary, ReadyLibrary DEF TutorialInv, TutorialParts
<1>4. CASE SuccessHandler \/ FailedHandler
  <2>1. UNCHANGED main /\ (RxSuccessReturn \/ RxFailedReturn)
    BY <1>4 DEF SuccessHandler, FailedHandler
  <2> QED
    BY <1>1, <1>4, <2>1, TutorialHandlers, ReadyLibrary DEF TutorialInv, TutorialParts
<1>5. CASE UNCHANGED tvars
  BY <1>1, <1>5
  DEF TutorialInv, ReadyInv, TutorialPlace, QueueInv, LeaveInv, Prepares, Closes,
      joinable, tvars, avars, main, vars
<1> QED
  BY <1>2, <1>3, <1>4, <1>5 DEF TutorialNext

(* The invariant holds of the tutorial, whatever the server does. *)
THEOREM TutorialInvariance == TutorialSpec => []TutorialInv
<1> QED
  BY TutorialInitInv, TutorialInvStep, PTL DEF TutorialSpec

(* Neither handler is called before it is set, or assigned while it may be *)
(* called.                                                                 *)
THEOREM TutorialHandlersReady == TutorialSpec => []HandlersReady
<1>1. TutorialInv => HandlersReady
  BY ReadyHandlers DEF TutorialInv
<1> QED
  BY <1>1, TutorialInvariance, PTL

(* Each retry is a stream of its own, opened after the last was closed.    *)
THEOREM TutorialRetries == TutorialSpec => []RetriesAreStreams
<1>1. TutorialInv => RetriesAreStreams
  BY DEF TutorialInv, TutorialPlace, RetriesAreStreams
<1> QED
  BY <1>1, TutorialInvariance, PTL

(* The events main may take are those of the stream it has registered.     *)
THEOREM NoEventLeftOver == TutorialSpec => []EventsOfThisStream
<1>1. TutorialInv => EventsOfThisStream
  <2> SUFFICES ASSUME TutorialInv PROVE EventsOfThisStream
    OBVIOUS
  <2>1. at = "loop" => 1 .. Len(my_deque) = {}
    BY DEF TutorialInv, QueueInv
  <2> QED
    BY <2>1 DEF TutorialInv, QueueInv, EventsOfThisStream
<1> QED
  BY <1>1, TutorialInvariance, PTL

(* When main waits without an event, one may still come, or the stream has *)
(* ended without an error. *)
THEOREM NoLostEvent == TutorialSpec => []WaitsForAnEvent
<1>1. TutorialInv => WaitsForAnEvent
  BY DEF TutorialInv, QueueInv, WaitsForAnEvent
<1> QED
  BY <1>1, TutorialInvariance, PTL

(* The handlers outlive their locals only after the limit. *)
THEOREM DanglingOnlyAfterLimit == TutorialSpec => []DanglingAfterLimit
<1>1. TutorialInv => DanglingAfterLimit
  BY DEF TutorialInv, LeaveInv, DanglingAfterLimit
<1> QED
  BY <1>1, TutorialInvariance, PTL

-----------------------------------------------------------------------------
(* The testing tool. *)

ToolParts == ToolPlace /\ FlagsInv /\ ToolLeaveInv /\ FailsForGood

(* Its invariant holds at first. *)
LEMMA ToolInitInv == ToolInit => ToolInv
<1> SUFFICES ASSUME ToolInit PROVE ToolInv
  OBVIOUS
<1>1. StreamInv /\ ReadyInv
  BY InitInv, ReadyInit DEF ToolInit, ApplicationInit
<1>2. ToolTypeOK
  <2>1. 0 \in 0 .. RetryStream /\ 0 \in 0 .. ConnectRetries
    BY ApplicationAssumption, GrpcAssumption
  <2>2. at \in Place
    BY DEF ToolInit, ApplicationInit, Place
  <2> QED
    BY <2>1, <2>2 DEF ToolInit, ApplicationInit, ToolTypeOK, ApplicationTypeOK
<1>3. ToolPlace /\ FlagsInv /\ ToolLeaveInv /\ FailsForGood
  BY DEF ToolInit, ApplicationInit, Init, ToolPlace, FlagsInv, ToolLeaveInv,
         FailsForGood, joinable, Thread
<1> QED
  BY <1>1, <1>2, <1>3 DEF ToolInv

(* The types that the steps below need. *)
LEMMA ToolTypes ==
  ASSUME ToolInv
  PROVE  /\ count \in Nat /\ count_retry \in 0 .. RetryStream /\ RetryStream \in Nat
         /\ ResponseLimit \in Nat \ {0}
         /\ retry \in BOOLEAN /\ stream_ended \in BOOLEAN
         /\ dangling \in BOOLEAN /\ locals \in BOOLEAN
         /\ \A c \in CallId : calls[c].taken \in Nat
BY ApplicationAssumption, GrpcAssumption, JoinableStream, FieldTypes
DEF ToolInv, ToolTypeOK, ApplicationTypeOK

(* While the tool waits, closes or registers again, the stream is a call;  *)
(* its status is settled when the receive thread has ended. *)
LEMMA ToolStream ==
  ASSUME ToolInv
  PROVE  /\ at \in {"again", "registered", "await", "closed"} /\ pc["user"] # "open"
              => opened \in CallId
         /\ joinable \/ opened # NoCall => opened \in CallId
         /\ opened \in CallId /\ receive_thread \in {"none", "done", "failed"}
              => calls[opened].state = "ended" /\ calls[opened].finished
<1>1. opened \in Nat /\ (opened # 0 => opened \in CallId)
  BY JoinableStream DEF ToolInv, StreamInv, TypeOK, NoCall, CallId
<1>2. at = "closed" => opened = count_retry + 1
  BY DEF ToolInv, ToolPlace
<1>3. at \in {"again", "registered", "await"} /\ pc["user"] # "open" => joinable
  BY DEF ToolInv, ToolPlace, FailsForGood
<1>4. joinable => opened \in CallId
  BY JoinableStream DEF ToolInv
<1>5. opened \in CallId /\ receive_thread \in {"none", "done", "failed"}
        => calls[opened].state = "ended" /\ calls[opened].finished
  BY DEF ToolInv, StreamInv, CallInv
<1> QED
  BY <1>1, <1>2, <1>3, <1>4, <1>5, ToolTypes DEF NoCall

(* A report stays. *)
LEMMA ReportStays ==
  ASSUME StreamInv', NEW c \in CallId, reported[c] = 1, reported'[c] >= reported[c]
  PROVE  reported'[c] = 1
BY DEF StreamInv, ReportInv

(* The steps outside main and the handlers keep it. *)
LEMMA ToolLibrary ==
  ASSUME ToolInv, StreamInv', UNCHANGED <<main, count, dangling, flags>>,
         \/ ClientStep \/ ReceiveStep
         \/ \E c \in CallId : Answer(c) \/ CallOver(c)
  PROVE  ToolParts'
<1> USE ToolTypes, JoinableStream, ToolStream
    DEF ToolInv, ToolPlace, FlagsInv, ToolLeaveInv, FailsForGood, ToolParts,
        ReadyInv, main, flags, Prepares, Closes, joinable
<1>1. CASE ClientStep /\ pc["user"] = "open"
  <2>1. OpenStream("user")
    BY <1>1 DEF ClientStep, Api, RegisterLock, RegisterWrite, CloseCancel,
                CloseJoin, CloseReset
  <2>2. at = "registered" /\ opened = count_retry
    BY <1>1
  <2>3. ToolPlace' /\ ToolLeaveInv' /\ FailsForGood'
    BY <2>1, <2>2, OpenEffect
  <2>4. FlagsInv'
    BY <1>1, <2>1, <2>2, OpenEffect
  <2> QED
    BY <2>3, <2>4
<1>2. CASE ClientStep /\ pc["user"] # "open"
  <2>1. Api("user")
    BY <1>2 DEF ClientStep
  <2>2. pc["user"] = "close_reset" => ~joinable
    BY DEF StreamInv, ThreadInv
  <2>3. opened' = opened /\ reported' = reported /\ pc'["user"] # "open"
        /\ (opened \in CallId => CallKept(opened))
        /\ pc["user"] # "idle"
    BY <1>2, <2>1, ApiEffect
  <2>4. ToolPlace'
    <3>1. CASE at = "registered"
      <4>1. opened \in CallId /\ joinable /\ pc["user"] \in {"reg_lock", "write"}
            /\ \/ opened = count_retry + 1 /\ ~calls[opened].cancelled
               \/ calls[opened].state = "ended"
        BY <1>2, <2>3, <3>1
      <4>2. /\ calls'[opened].state = calls[opened].state
            /\ calls'[opened].cancelled = calls[opened].cancelled
            /\ UNCHANGED receive_thread
        BY <1>2, <2>1, <4>1, ApiEffect DEF CallKept
      <4>3. CASE pc["user"] = "reg_lock"
        <5>1. pc'["user"] = "write"
          BY <1>2, <2>1, <4>3, ApiEffect
        <5> QED
          BY <2>3, <3>1, <4>1, <4>2, <5>1
      <4>4. CASE pc["user"] = "write"
        <5>1. /\ pc'["user"] = "idle"
              /\ \/ result'["user"] = "SUCCESS" /\ calls[opened].state # "ended"
                 \/ /\ result'["user"] = "WRITES_FAILED"
                    /\ calls[opened].state = "ended" \/ calls[opened].cancelled
          BY <1>2, <2>1, <4>4, ApiEffect
        <5>2. calls[opened].cancelled \in BOOLEAN
          BY <4>1, FieldTypes
        <5>3. \/ result'["user"] = "SUCCESS" /\ opened = count_retry + 1
              \/ result'["user"] = "WRITES_FAILED" /\ calls[opened].state = "ended"
          BY <4>1, <5>1, <5>2
        <5> QED
          BY <2>3, <3>1, <4>1, <4>2, <5>1, <5>3
      <4> QED
        BY <4>1, <4>3, <4>4
    <3>2. CASE at # "registered"
      BY <1>2, <2>1, <2>2, <2>3, <3>2, ApiEffect DEF CallKept
    <3> QED
      BY <3>1, <3>2
  <2>5. ToolLeaveInv' /\ FailsForGood'
    BY <1>2, <2>1, <2>3, ApiEffect DEF CallKept, NoCall
  <2>6. \/ UNCHANGED receive_thread
        \/ receive_thread = "done" /\ receive_thread' = "none"
    BY <1>2, <2>1, ApiEffect
  <2>7. FlagsInv'
    BY <1>2, <2>3, <2>6 DEF CallKept
  <2> QED
    BY <2>4, <2>5, <2>7
<1>3. CASE ReceiveStep
  <2>1. RxGood \/ RxBad \/ RxFatal \/ RxReadEnd \/ RxLock \/ RxFinish
    BY <1>3 DEF ReceiveStep
  <2>2. opened \in CallId /\ calls[opened].status \in Status \cup {"none"}
    BY <2>1, ReceiveEffect, FieldTypes
  <2>3. ToolPlace' /\ ToolLeaveInv' /\ FailsForGood'
    BY <2>1, <2>2, ReceiveEffect
  <2>4. calls[opened].status \notin ErrorStatus
          => calls[opened].status # "DEADLINE_EXCEEDED"
    BY <2>2 DEF Status
  <2>5. reported[opened] = 1 => reported'[opened] = 1
    BY <2>1, <2>2, ReceiveEffect, ReportStays
  <2>6. calls'[opened].taken \in Nat
    <3>1. calls' \in [CallId -> Call]
      BY DEF StreamInv, TypeOK
    <3> QED
      BY <2>2, <3>1 DEF Call
  <2>7. FlagsInv'
    <3>1. /\ UNCHANGED <<pc, opened>> /\ pc["user"] # "open"
          /\ calls'[opened].status = calls[opened].status
          /\ calls'[opened].taken >= calls[opened].taken
      BY <2>1, <2>2, ReceiveEffect DEF StreamInv, ThreadInv
    <3>2. CASE at \in {"connect", "set", "loop"}
      BY <3>1, <3>2, <2>1, ReceiveEffect
    <3>3. CASE at \in {"again", "registered", "await", "closed"}
      <4>1. count + (IF receive_thread' = "success" THEN 1 ELSE 0)
              <= calls'[opened].taken
        BY <2>1, <2>2, <2>6, <3>1, <3>3, ReceiveEffect
      <4>2. retry <=> /\ receive_thread' \in {"none", "done"}
                      /\ calls'[opened].status = "DEADLINE_EXCEEDED"
        BY <2>1, <2>2, <2>4, <3>1, <3>3, ReceiveEffect
      <4>3. stream_ended => count >= ResponseLimit \/ reported'[opened] = 1
        BY <2>5, <3>1, <3>3
      <4> QED
        BY <3>1, <3>3, <4>1, <4>2, <4>3
    <3>4. CASE at \in {"leave", "destroy", "return"}
      BY <3>1, <3>4
    <3> QED
      BY <3>2, <3>3, <3>4
  <2> QED
    BY <2>3, <2>7
<1>4. ASSUME NEW c \in CallId, Answer(c) \/ CallOver(c)
      PROVE  ToolParts'
  <2>1. Respond(c) \/ End(c)
    BY <1>4 DEF Answer, CallOver
  <2>2. UNCHANGED <<pc, opened, receive_thread, reported, result>>
    BY <2>1, EnvironmentEffect DEF client
  <2>3. ToolPlace' /\ ToolLeaveInv' /\ FailsForGood'
    BY <2>1, <2>2, EnvironmentEffect DEF NoCall
  <2>4. FlagsInv'
    BY <2>1, <2>2, EnvironmentEffect
  <2> QED
    BY <2>3, <2>4
<1> QED
  BY <1>1, <1>2, <1>3, <1>4

(* The steps of main keep it. *)
LEMMA ToolMain ==
  ASSUME ToolInv, ToolMainStep
  PROVE  ReadyInv' /\ ToolParts'
<1> USE ToolTypes, JoinableStream, ToolStream
    DEF ToolInv, ToolPlace, FlagsInv, ToolLeaveInv, FailsForGood, ToolParts,
        ReadyInv, main, flags, Prepares, Closes, joinable
<1>1. CASE RegisterTool
  <2>1. /\ UNCHANGED <<calls, handlers, interface, opened, receive_thread, reported,
                       program, count, count_retry, locals, dangling, flags>>
        /\ at' = "registered" /\ count_retry < RetryStream
        /\ pc["user"] = "idle" /\ pc'["recv"] = pc["recv"]
        /\ pc'["user"] = IF joinable THEN "reg_lock" ELSE "open"
    BY <1>1, RegisterEffect DEF RegisterTool, Register
  <2>2. CASE at = "loop"
    BY <2>1, <2>2
  <2>3. CASE at = "again"
    BY <2>1, <2>3
  <2> QED
    BY <1>1, <2>2, <2>3 DEF RegisterTool
<1>2. CASE ToolRegistered
  <2>1. /\ UNCHANGED <<calls, handlers, interface, pc, opened, receive_thread, reported,
                       program, count, locals, dangling, flags>>
        /\ at = "registered" /\ pc["user"] = "idle"
    BY <1>2 DEF ToolRegistered, vars
  <2>2. CASE result["user"] = "SUCCESS"
    <3>1. at' = "await" /\ UNCHANGED count_retry
      BY <1>2, <2>2 DEF ToolRegistered, Registered
    <3> QED
      BY <2>1, <2>2, <3>1
  <2>3. CASE result["user"] # "SUCCESS"
    <3>1. at' = "again" /\ count_retry' = count_retry + 1
      BY <1>2, <2>3 DEF ToolRegistered, Registered
    <3> QED
      BY <2>1, <2>3, <3>1
  <2> QED
    BY <2>2, <2>3
<1>3. CASE StreamEnded
  <2>1. /\ UNCHANGED <<calls, handlers, interface, opened, receive_thread, reported,
                       program, count, count_retry, locals, dangling, flags>>
        /\ at = "await" /\ at' = "closed" /\ pc'["recv"] = pc["recv"]
        /\ pc'["user"] = IF joinable THEN "close_cancel" ELSE "close_reset"
    BY <1>3, CloseEffect DEF StreamEnded, Close
  <2> QED
    BY <2>1
<1>4. CASE CheckRetry
  <2>1. /\ UNCHANGED <<calls, handlers, interface, pc, opened, receive_thread, reported,
                       program, locals, dangling>>
        /\ at = "closed" /\ pc["user"] = "idle" /\ ~joinable
        /\ retry' = FALSE /\ stream_ended' = FALSE /\ count' = 0
        /\ \/ at' = "loop" /\ count_retry' = count_retry + 1
           \/ at' = "leave" /\ UNCHANGED count_retry
    BY <1>4 DEF CheckRetry, EndedReset, vars
  <2> QED
    BY <2>1
<1>5. CASE CommonStep /\ UNCHANGED flags
  <2>1. ReadyInv'
    BY <1>5, ReadyCommon
  <2>2. CASE Connect
    BY <2>1, <2>2, <1>5 DEF Connect, vars
  <2>3. CASE SetHandlers
    BY <2>1, <2>3, <1>5 DEF SetHandlers, SetHandler, impl, seen, NoCall
  <2>4. CASE RetriesUsedUp
    BY <2>1, <2>4, <1>5 DEF RetriesUsedUp, vars
  <2>5. CASE LeaveBlock
    BY <2>1, <2>5, <1>5 DEF LeaveBlock, vars
  <2>6. CASE DestroyClient
    BY <2>1, <2>6, <1>5, CloseEffect DEF DestroyClient
  <2> QED
    BY <1>5, <2>2, <2>3, <2>4, <2>5, <2>6 DEF CommonStep
<1> QED
  BY <1>1, <1>2, <1>3, <1>4, <1>5 DEF ToolMainStep

(* The bodies of the handlers keep it. *)
LEMMA ToolHandlers ==
  ASSUME ToolInv, ToolSuccessHandler \/ ToolFailedHandler
  PROVE  ToolParts'
<1> USE ToolTypes, JoinableStream, ToolStream
    DEF ToolInv, ToolPlace, FlagsInv, ToolLeaveInv, FailsForGood, ToolParts,
        ReadyInv, main, flags, Prepares, Closes, joinable
<1>1. CASE ToolSuccessHandler
  <2>1. /\ UNCHANGED <<calls, pc, opened, reported, result, main>>
        /\ receive_thread = "success" /\ receive_thread' = "read"
    BY <1>1, ReturnEffect DEF ToolSuccessHandler, RxSuccessReturn
  <2>2. opened \in CallId /\ opened # NoCall
    BY <2>1, GrpcAssumption DEF CallId, NoCall
  <2>3. CASE ~locals
    <3>1. dangling' = TRUE /\ UNCHANGED <<count, flags>>
      BY <1>1, <2>3 DEF ToolSuccessHandler, Counted
    <3> QED
      BY <2>1, <2>2, <2>3, <3>1
  <2>4. CASE locals
    <3>1. /\ count' = count + 1 /\ UNCHANGED dangling
          /\ \/ retry' = FALSE /\ stream_ended' = TRUE /\ count' >= ResponseLimit
             \/ UNCHANGED flags
      BY <1>1, <2>4 DEF ToolSuccessHandler, Counted, Reached
    <3> QED
      BY <2>1, <2>2, <2>4, <3>1
  <2> QED
    BY <2>3, <2>4
<1>2. CASE ToolFailedHandler
  <2>1. /\ UNCHANGED <<calls, pc, opened, reported, result, main, count>>
        /\ receive_thread = "failed" /\ receive_thread' = "done"
        /\ dangling' = (dangling \/ ~locals)
    BY <1>2, ReturnEffect DEF ToolFailedHandler, RxFailedReturn, FailureSeen
  <2>2. /\ opened \in CallId /\ opened # NoCall /\ subscribe_stream_rw = opened
        /\ calls[opened].status \in ErrorStatus
    BY <2>1, GrpcAssumption DEF CallId, NoCall
  <2>3. reported[opened] = 1
    BY <2>1, <2>2 DEF StreamInv, ReportInv
  <2>4. CASE ~locals
    <3>1. UNCHANGED flags
      BY <1>2, <2>4 DEF ToolFailedHandler
    <3> QED
      BY <2>1, <2>2, <2>4, <3>1
  <2>5. CASE locals
    <3>1. /\ retry' = (calls[opened].status = "DEADLINE_EXCEEDED")
          /\ stream_ended' = TRUE
      BY <1>2, <2>2, <2>5, GrpcAssumption DEF ToolFailedHandler, NotOk, RetryAfter
    <3> QED
      BY <2>1, <2>2, <2>3, <2>5, <3>1
  <2> QED
    BY <2>4, <2>5
<1> QED
  BY <1>1, <1>2

(* The places of main, the counters and the flags keep their types. *)
LEMMA ToolTypeStep ==
  ASSUME ToolInv, [ToolNext]_ovars
  PROVE  ToolTypeOK'
<1> USE ToolTypes DEF ApplicationTypeOK, ToolTypeOK, flags
<1>1. /\ program \in {"tutorial", "tool"} /\ at \in Place
      /\ retry_count \in 0 .. ConnectRetries /\ ConnectRetries \in Nat
      /\ at \in {"registered", "await", "closed"} => count_retry < RetryStream
  BY ApplicationAssumption DEF ToolInv, ReadyInv
<1>2. CASE RegisterTool \/ StreamEnded
  BY <1>1, <1>2 DEF RegisterTool, StreamEnded, Register, Close, Place
<1>3. CASE ToolRegistered
  BY <1>1, <1>3 DEF ToolRegistered, Place
<1>4. CASE CheckRetry
  <2>1. /\ UNCHANGED <<program, retry_count, locals, dangling>>
        /\ retry' = FALSE /\ stream_ended' = FALSE /\ count' = 0
    BY <1>4 DEF CheckRetry, EndedReset
  <2>2. at = "closed" /\ at' \in {"loop", "leave"}
        /\ count_retry' \in {count_retry, count_retry + 1}
    BY <1>4 DEF CheckRetry
  <2>3. at' \in Place /\ count_retry' \in 0 .. RetryStream
    BY <1>1, <2>2 DEF Place
  <2> QED
    BY <1>1, <2>1, <2>3
<1>5. CASE CommonStep /\ UNCHANGED flags
  <2>1. CASE Connect
    BY <1>1, <1>5, <2>1 DEF Connect, RoundsLeft, Place
  <2>2. CASE SetHandlers
    BY <1>1, <1>5, <2>2 DEF SetHandlers, Place
  <2>3. CASE RetriesUsedUp \/ LeaveBlock \/ DestroyClient
    BY <1>1, <1>5, <2>3 DEF RetriesUsedUp, LeaveBlock, DestroyClient, Place
  <2> QED
    BY <1>5, <2>1, <2>2, <2>3 DEF CommonStep
<1>6. CASE UNCHANGED <<main, count, dangling, flags>>
  BY <1>1, <1>6 DEF main
<1>7. CASE ToolSuccessHandler
  <2>1. UNCHANGED main
    BY <1>7 DEF ToolSuccessHandler
  <2>2. count' \in Nat /\ dangling' \in BOOLEAN
    <3>1. CASE locals
      BY <1>7, <3>1 DEF ToolSuccessHandler, Counted
    <3>2. CASE ~locals
      BY <1>7, <3>2 DEF ToolSuccessHandler, Counted
    <3> QED
      BY <3>1, <3>2
  <2>3. retry' \in {retry, FALSE} /\ stream_ended' \in {stream_ended, TRUE}
    BY <1>7 DEF ToolSuccessHandler, Reached
  <2> QED
    BY <1>1, <2>1, <2>2, <2>3 DEF main
<1>8. CASE ToolFailedHandler
  <2>1. UNCHANGED main
    BY <1>8 DEF ToolFailedHandler
  <2>2. count' \in Nat /\ dangling' \in BOOLEAN
    BY <1>8 DEF ToolFailedHandler, FailureSeen
  <2>3. /\ retry' = retry \/ retry' \in BOOLEAN
        /\ stream_ended' \in {stream_ended, TRUE}
    BY <1>8 DEF ToolFailedHandler, NotOk, RetryAfter
  <2> QED
    BY <1>1, <2>1, <2>2, <2>3 DEF main
<1>9. ASSUME \/ (ClientStep \/ ReceiveStep) /\ UNCHANGED flags
             \/ \E c \in CallId : (Answer(c) \/ CallOver(c)) /\ UNCHANGED flags
             \/ UNCHANGED ovars
      PROVE  UNCHANGED <<main, count, dangling, flags>>
  BY <1>9 DEF ClientStep, ReceiveStep, Answer, CallOver, ovars, avars
<1> QED
  BY <1>2, <1>3, <1>4, <1>5, <1>6, <1>7, <1>8, <1>9 DEF ToolNext, ToolMainStep

(* Every step of the tool keeps its invariant. *)
LEMMA ToolInvStep == ToolInv /\ [ToolNext]_ovars => ToolInv'
<1> SUFFICES ASSUME ToolInv, [ToolNext]_ovars PROVE ToolInv'
  OBVIOUS
<1>1. StreamInv' /\ ToolTypeOK'
  BY ToolStep, ClientInvStep, ToolTypeStep DEF ToolInv
<1>2. CASE ToolMainStep
  BY <1>1, <1>2, ToolMain DEF ToolInv, ToolParts
<1>3. CASE \/ (ClientStep \/ ReceiveStep) /\ UNCHANGED flags
           \/ \E c \in CallId : (Answer(c) \/ CallOver(c)) /\ UNCHANGED flags
  <2>1. /\ UNCHANGED <<main, count, dangling, flags>>
        /\ \/ ClientStep \/ ReceiveStep
           \/ \E c \in CallId : Answer(c) \/ CallOver(c)
    BY <1>3 DEF ClientStep, ReceiveStep, Answer, CallOver
  <2> QED
    BY <1>1, <2>1, ToolLibrary, ReadyLibrary DEF ToolInv, ToolParts
<1>4. CASE ToolSuccessHandler \/ ToolFailedHandler
  <2>1. UNCHANGED main /\ (RxSuccessReturn \/ RxFailedReturn)
    BY <1>4 DEF ToolSuccessHandler, ToolFailedHandler
  <2> QED
    BY <1>1, <1>4, <2>1, ToolHandlers, ReadyLibrary DEF ToolInv, ToolParts
<1>5. CASE UNCHANGED ovars
  BY <1>1, <1>5
  DEF ToolInv, ReadyInv, ToolPlace, FlagsInv, ToolLeaveInv, FailsForGood, Prepares,
      Closes, joinable, ovars, avars, main, flags, vars
<1> QED
  BY <1>2, <1>3, <1>4, <1>5 DEF ToolNext

(* The invariant holds of the tool, whatever the server does. *)
THEOREM ToolInvariance == ToolSpec => []ToolInv
<1> QED
  BY ToolInitInv, ToolInvStep, PTL DEF ToolSpec

(* The verdict read after a close is the last one, about the stream that   *)
(* was closed. *)
THEOREM VerdictIsLast == ToolSpec => []VerdictOfThisStream
<1>1. ToolInv => VerdictOfThisStream
  BY DEF ToolInv, ToolPlace, FlagsInv, VerdictOfThisStream, joinable
<1> QED
  BY <1>1, ToolInvariance, PTL

(* The tool wakes up for the stream it waits for. *)
THEOREM WakesInTime == ToolSpec => []WakesForThisStream
<1>1. ToolInv => WakesForThisStream
  <2> SUFFICES ASSUME ToolInv, at = "await"
               PROVE  /\ locals /\ count <= Len(calls[opened].sent)
                      /\ stream_ended => count >= ResponseLimit \/ reported[opened] = 1
    BY DEF WakesForThisStream
  <2>1. opened \in CallId /\ pc["user"] = "idle"
    BY ToolStream DEF ToolInv, ToolPlace
  <2>2. locals
    BY DEF ToolInv, ReadyInv
  <2>3. calls[opened].taken <= Len(calls[opened].sent)
        /\ calls[opened].taken \in Nat /\ Len(calls[opened].sent) \in Nat
    BY <2>1, FieldTypes, JoinableStream DEF ToolInv, StreamInv, CallInv
  <2>4. /\ count <= calls[opened].taken
        /\ stream_ended => count >= ResponseLimit \/ reported[opened] = 1
    BY <2>1, <2>3, ToolTypes DEF ToolInv, FlagsInv
  <2> QED
    BY <2>2, <2>3, <2>4, ToolTypes
<1> QED
  BY <1>1, ToolInvariance, PTL

(* After a registration that failed the stream is over and stays open.     *)
THEOREM FailedForGood == ToolSpec => []FailsForGood
<1>1. ToolInv => FailsForGood
  BY DEF ToolInv
<1> QED
  BY <1>1, ToolInvariance, PTL

(* The handlers outlive their locals only after a request that could not   *)
(* be sent. *)
THEOREM DanglingOnlyAfterFailure == ToolSpec => []DanglingAfterFailedWrite
<1>1. ToolInv => DanglingAfterFailedWrite
  BY DEF ToolInv, ToolLeaveInv, DanglingAfterFailedWrite
<1> QED
  BY <1>1, ToolInvariance, PTL

(* The tool's retries are streams of their own as well. *)
THEOREM ToolRetries == ToolSpec => []RetriesAreStreams
<1>1. ToolInv => RetriesAreStreams
  BY DEF ToolInv, ToolPlace, RetriesAreStreams
<1> QED
  BY <1>1, ToolInvariance, PTL

(* In the tool as well no handler is called before it is set.              *)
THEOREM ToolHandlersReady == ToolSpec => []HandlersReady
<1>1. ToolInv => HandlersReady
  BY ReadyHandlers DEF ToolInv
<1> QED
  BY <1>1, ToolInvariance, PTL

-----------------------------------------------------------------------------
(* Both programs: the specification the runs check is that of the program  *)
(* chosen at first.                                                        *)

EitherInv ==
  \/ TutorialInv /\ retry = FALSE /\ stream_ended = FALSE
  \/ ToolInv /\ my_deque = << >>

(* A step of the run is a step of its program, and keeps the variables of  *)
(* the other one.                                                          *)
LEMMA EitherStep ==
  ASSUME [MCNext]_MCvars
  PROVE  /\ TutorialInv => [TutorialNext]_tvars /\ UNCHANGED flags /\ TutorialInv'
         /\ ToolInv => [ToolNext]_ovars /\ UNCHANGED my_deque /\ ToolInv'
<1>1. ASSUME TutorialInv
      PROVE  [TutorialNext]_tvars /\ UNCHANGED flags /\ TutorialInv'
  <2>1. program = "tutorial"
    BY <1>1 DEF TutorialInv, TutorialPlace
  <2>2. [TutorialNext]_tvars /\ UNCHANGED flags
    BY <2>1 DEF MCNext, MCvars, tvars, flags
  <2> QED
    BY <1>1, <2>2, TutorialInvStep
<1>2. ASSUME ToolInv
      PROVE  [ToolNext]_ovars /\ UNCHANGED my_deque /\ ToolInv'
  <2>1. program = "tool"
    BY <1>2 DEF ToolInv, ToolPlace
  <2>2. [ToolNext]_ovars /\ UNCHANGED my_deque
    BY <2>1 DEF MCNext, MCvars, ovars, flags
  <2> QED
    BY <1>2, <2>2, ToolInvStep
<1> QED
  BY <1>1, <1>2

(* Where a run starts. *)
LEMMA EitherInit ==
  MCInit => \/ program = "tutorial" /\ TutorialInit
            \/ program = "tool" /\ ToolInit
BY DEF MCInit, TutorialInit, ToolInit, ApplicationInit

(* A behaviour of the run is one of the tutorial or one of the testing     *)
(* tool, so the theorems about both hold in it.                            *)
THEOREM EitherProgram == MCSpec => TutorialSpec \/ ToolSpec
<1>1. TutorialInit => TutorialInv
  BY TutorialInitInv
<1>2. ToolInit => ToolInv
  BY ToolInitInv
<1>3. TutorialInv /\ [MCNext]_MCvars => TutorialInv' /\ [TutorialNext]_tvars
  BY EitherStep
<1>4. ToolInv /\ [MCNext]_MCvars => ToolInv' /\ [ToolNext]_ovars
  BY EitherStep
<1> QED
  BY <1>1, <1>2, <1>3, <1>4, EitherInit, PTL DEF MCSpec, TutorialSpec, ToolSpec

(* The variables of both programs keep their types in both. *)
THEOREM ProgramTypeCorrect == MCSpec => []ProgramTypesOK
<1>1. MCInit => EitherInv
  BY EitherInit, TutorialInitInv, ToolInitInv DEF MCInit, EitherInv
<1>2. EitherInv /\ [MCNext]_MCvars => EitherInv'
  BY EitherStep DEF EitherInv, flags
<1>3. EitherInv => ProgramTypesOK
  <2>1. << >> \in Seq(Event)
    OBVIOUS
  <2> QED
    BY <2>1 DEF EitherInv, TutorialInv, ToolInv, TutorialTypeOK, ToolTypeOK,
       ProgramTypesOK
<1> QED
  BY <1>1, <1>2, <1>3, PTL DEF MCSpec

=============================================================================
