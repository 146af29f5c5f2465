-------------------------- MODULE GnmiStreamProofs --------------------------
(***************************************************************************)
(* Proofs about GnmiStream, for every number of calls and responses, every *)
(* set of response kinds and error codes, and every set of API calls that  *)
(* the handlers make.                                                      *)
(***************************************************************************)
EXTENDS GnmiStream, GrpcCallProofs, TLAPS

(* The invariant holds at first. *)
LEMMA InitInv == Init => StreamInv
  <1> SUFFICES ASSUME Init PROVE StreamInv
      OBVIOUS
  <1> USE GrpcAssumption DEF Init, CallsInit, UnusedCall
  <1>1. TypeOK
    <2>1. UnusedCall \in Call
      <3>1. << >> \in Seq(Kinds)
        OBVIOUS
      <3> QED
        BY <3>1 DEF Call
    <2>2. calls \in [CallId -> Call]
      BY <2>1
    <2>3. stats \in Seq(CallId \X Nat)
      OBVIOUS
    <2>4. reported \in [CallId -> Nat]
      OBVIOUS
    <2> QED
      BY <2>2, <2>3, <2>4
      DEF TypeOK, NoCall, Thread, ErrorCode, Fault, Location, RxState, NoThread
  <1>2. ThreadInv /\ MutexInv /\ MembersInv
    BY DEF ThreadInv, MutexInv, MembersInv, joinable, NoCall, NoThread, Thread
  <1>3. CallInv
    BY DEF CallInv, CallId
  <1>4. ReportInv
    BY DEF ReportInv
  <1>5. StatsExact
    BY DEF StatsExact, Taken, CallId
  <1>6. JoinInv
    BY DEF JoinInv, Thread
  <1> QED
    BY <1>1, <1>2, <1>3, <1>4, <1>5, <1>6 DEF StreamInv

(* Every step keeps the threads where ThreadInv allows them. *)
LEMMA ThreadStep == StreamInv /\ [Next]_vars => ThreadInv'
  <1> SUFFICES ASSUME StreamInv, [Next]_vars PROVE ThreadInv'
      OBVIOUS
  <1> USE DEF StreamInv, TypeOK, ThreadInv, Thread, joinable, InHandler, Handler, Goto, Return
  <1>1. ASSUME NEW h \in Handler, SetHandler(h) PROVE ThreadInv'
    BY <1>1 DEF SetHandler, impl
  <1>2. ASSUME NEW t \in Thread, RegisterCall(t) PROVE ThreadInv'
    BY <1>2 DEF RegisterCall, MayCall, RegisterStart, impl, app
  <1>3. ASSUME NEW t \in Thread, OpenStream(t) PROVE ThreadInv'
    BY <1>3 DEF OpenStream, app, seen
  <1>4. ASSUME NEW t \in Thread, RegisterLock(t) PROVE ThreadInv'
    BY <1>4 DEF RegisterLock, Acquire, MutexInv, NoThread, app
  <1>5. ASSUME NEW t \in Thread, RegisterWrite(t) PROVE ThreadInv'
    BY <1>5 DEF RegisterWrite, app
  <1>6. ASSUME NEW t \in Thread, CloseCall(t) PROVE ThreadInv'
    BY <1>6 DEF CloseCall, MayCall, CloseStart, impl, app
  <1>7. ASSUME NEW t \in Thread, CloseCancel(t) PROVE ThreadInv'
    BY <1>7 DEF CloseCancel, impl, app
  <1>8. ASSUME NEW t \in Thread, CloseJoin(t) PROVE ThreadInv'
    BY <1>8 DEF CloseJoin, impl, app
  <1>9. ASSUME NEW t \in Thread, CloseReset(t) PROVE ThreadInv'
    BY <1>9 DEF CloseReset
  <1>10. CASE RxGood
    BY <1>10 DEF RxGood, RxRead, CallHandler, impl, app
  <1>11. CASE RxBad
    BY <1>11 DEF RxBad, impl, app
  <1>12. CASE RxFatal
    BY <1>12 DEF RxFatal, impl, app
  <1>13. CASE RxSuccessReturn
    BY <1>13 DEF RxSuccessReturn, impl, app
  <1>14. CASE RxReadEnd
    BY <1>14 DEF RxReadEnd, impl, app
  <1>15. CASE RxLock
    BY <1>15 DEF RxLock, app
  <1>16. CASE RxFinish
    BY <1>16 DEF RxFinish, CallHandler, app
  <1>17. CASE RxFailedReturn
    BY <1>17 DEF RxFailedReturn, app
  <1>18. ASSUME NEW c \in CallId, Respond(c) PROVE ThreadInv'
    BY <1>18 DEF Respond, client
  <1>19. ASSUME NEW c \in CallId, End(c) PROVE ThreadInv'
    BY <1>19 DEF End, client
  <1>20. CASE UNCHANGED vars
    BY <1>20 DEF vars
  <1> QED
    BY <1>1, <1>2, <1>3, <1>4, <1>5, <1>6, <1>7, <1>8, <1>9, <1>10,
       <1>11, <1>12, <1>13, <1>14, <1>15, <1>16, <1>17, <1>18, <1>19,
       <1>20
    DEF Next, Api, Receive, Stopped

(* Every step keeps the mutex with the thread that MutexInv names. *)
LEMMA MutexStep == StreamInv /\ [Next]_vars => MutexInv'
  <1> SUFFICES ASSUME StreamInv, [Next]_vars PROVE MutexInv'
      OBVIOUS
  <1> USE DEF StreamInv, TypeOK, ThreadInv, MutexInv, Thread, NoThread, joinable, InHandler, Handler, Goto, Return, Acquire, Release
  <1>1. ASSUME NEW h \in Handler, SetHandler(h) PROVE MutexInv'
    BY <1>1 DEF SetHandler, impl
  <1>2. ASSUME NEW t \in Thread, RegisterCall(t) PROVE MutexInv'
    BY <1>2 DEF RegisterCall, MayCall, RegisterStart, impl, app
  <1>3. ASSUME NEW t \in Thread, OpenStream(t) PROVE MutexInv'
    BY <1>3 DEF OpenStream, app, seen
  <1>4. ASSUME NEW t \in Thread, RegisterLock(t) PROVE MutexInv'
    BY <1>4 DEF RegisterLock, app
  <1>5. ASSUME NEW t \in Thread, RegisterWrite(t) PROVE MutexInv'
    BY <1>5 DEF RegisterWrite, app
  <1>6. ASSUME NEW t \in Thread, CloseCall(t) PROVE MutexInv'
    BY <1>6 DEF CloseCall, MayCall, CloseStart, impl, app
  <1>7. ASSUME NEW t \in Thread, CloseCancel(t) PROVE MutexInv'
    BY <1>7 DEF CloseCancel, impl, app
  <1>8. ASSUME NEW t \in Thread, CloseJoin(t) PROVE MutexInv'
    BY <1>8 DEF CloseJoin, impl, app
  <1>9. ASSUME NEW t \in Thread, CloseReset(t) PROVE MutexInv'
    BY <1>9 DEF CloseReset
  <1>10. CASE RxGood
    BY <1>10 DEF RxGood, RxRead, CallHandler, impl, app
  <1>11. CASE RxBad
    BY <1>11 DEF RxBad, impl, app
  <1>12. CASE RxFatal
    BY <1>12 DEF RxFatal, impl, app
  <1>13. CASE RxSuccessReturn
    BY <1>13 DEF RxSuccessReturn, impl, app
  <1>14. CASE RxReadEnd
    BY <1>14 DEF RxReadEnd, impl, app
  <1>15. CASE RxLock
    BY <1>15 DEF RxLock, app
  <1>16. CASE RxFinish
    BY <1>16 DEF RxFinish, CallHandler, app
  <1>17. CASE RxFailedReturn
    BY <1>17 DEF RxFailedReturn, app
  <1>18. ASSUME NEW c \in CallId, Respond(c) PROVE MutexInv'
    BY <1>18 DEF Respond, client
  <1>19. ASSUME NEW c \in CallId, End(c) PROVE MutexInv'
    BY <1>19 DEF End, client
  <1>20. CASE UNCHANGED vars
    BY <1>20 DEF vars
  <1> QED
    BY <1>1, <1>2, <1>3, <1>4, <1>5, <1>6, <1>7, <1>8, <1>9, <1>10,
       <1>11, <1>12, <1>13, <1>14, <1>15, <1>16, <1>17, <1>18, <1>19,
       <1>20
    DEF Next, Api, Receive, Stopped

(* Every step keeps the shared members on the last call. *)
LEMMA MembersStep == StreamInv /\ [Next]_vars => MembersInv'
  <1> SUFFICES ASSUME StreamInv, [Next]_vars PROVE MembersInv'
      OBVIOUS
  <1> USE GrpcAssumption DEF StreamInv, TypeOK, ThreadInv, MembersInv, Thread, joinable, InHandler, Handler, Goto, Return, CallId, NoCall
  <1>1. ASSUME NEW h \in Handler, SetHandler(h) PROVE MembersInv'
    BY <1>1 DEF SetHandler, impl
  <1>2. ASSUME NEW t \in Thread, RegisterCall(t) PROVE MembersInv'
    BY <1>2 DEF RegisterCall, impl
  <1>3. ASSUME NEW t \in Thread, OpenStream(t) PROVE MembersInv'
    BY <1>3 DEF OpenStream
  <1>4. ASSUME NEW t \in Thread, RegisterLock(t) PROVE MembersInv'
    BY <1>4 DEF RegisterLock
  <1>5. ASSUME NEW t \in Thread, RegisterWrite(t) PROVE MembersInv'
    BY <1>5 DEF RegisterWrite
  <1>6. ASSUME NEW t \in Thread, CloseCall(t) PROVE MembersInv'
    BY <1>6 DEF CloseCall, impl
  <1>7. ASSUME NEW t \in Thread, CloseCancel(t) PROVE MembersInv'
    BY <1>7 DEF CloseCancel, impl
  <1>8. ASSUME NEW t \in Thread, CloseJoin(t) PROVE MembersInv'
    BY <1>8 DEF CloseJoin, impl
  <1>9. ASSUME NEW t \in Thread, CloseReset(t) PROVE MembersInv'
    BY <1>9 DEF CloseReset
  <1>10. CASE RxGood
    BY <1>10 DEF RxGood, RxRead, CallHandler, impl
  <1>11. CASE RxBad
    BY <1>11 DEF RxBad, impl
  <1>12. CASE RxFatal
    BY <1>12 DEF RxFatal, impl
  <1>13. CASE RxSuccessReturn
    BY <1>13 DEF RxSuccessReturn, impl
  <1>14. CASE RxReadEnd
    BY <1>14 DEF RxReadEnd, impl
  <1>15. CASE RxLock
    BY <1>15 DEF RxLock
  <1>16. CASE RxFinish
    BY <1>16 DEF RxFinish, CallHandler
  <1>17. CASE RxFailedReturn
    BY <1>17 DEF RxFailedReturn
  <1>18. ASSUME NEW c \in CallId, Respond(c) PROVE MembersInv'
    BY <1>18 DEF Respond, client
  <1>19. ASSUME NEW c \in CallId, End(c) PROVE MembersInv'
    BY <1>19 DEF End, client
  <1>20. CASE UNCHANGED vars
    BY <1>20 DEF vars
  <1> QED
    BY <1>1, <1>2, <1>3, <1>4, <1>5, <1>6, <1>7, <1>8, <1>9, <1>10,
       <1>11, <1>12, <1>13, <1>14, <1>15, <1>16, <1>17, <1>18, <1>19,
       <1>20
    DEF Next, Api, Receive, Stopped

(* A thread, a pending Write or a pending cancellation: there is a call. *)
LEMMA StreamOpen ==
  ASSUME StreamInv, joinable
  PROVE  subscribe_stream_rw = opened /\ stream_context = opened /\ opened \in CallId
BY DEF StreamInv, TypeOK, MembersInv

(* RegisterWrite writes to the call opened last. *)
LEMMA WriteOpen ==
  ASSUME StreamInv, NEW t \in Thread, RegisterWrite(t)
  PROVE  opened \in CallId /\ \E ok \in BOOLEAN : Write(opened, ok)
<1>1. joinable
  BY DEF RegisterWrite, StreamInv, ThreadInv, Thread, joinable, InHandler, Handler
<1>2. /\ opened \in CallId
      /\ subscribe_stream_rw = opened /\ stream_context = opened
  BY <1>1, StreamOpen
<1>3. stream_context # NoCall
  BY <1>2, GrpcAssumption DEF CallId, NoCall
<1>4. \E ok \in WriteOutcomes(opened) : Write(opened, ok)
  BY <1>2, <1>3 DEF RegisterWrite
<1>5. WriteOutcomes(opened) \subseteq BOOLEAN
  BY DEF WriteOutcomes
<1> QED
  BY <1>2, <1>4, <1>5

(* CloseCancel cancels the call opened last. *)
LEMMA CancelOpen ==
  ASSUME StreamInv, NEW t \in Thread, CloseCancel(t)
  PROVE  opened \in CallId /\ TryCancel(opened)
<1>1. joinable
  BY DEF CloseCancel, StreamInv, ThreadInv, Thread, joinable, InHandler, Handler
<1>2. opened \in CallId /\ stream_context = opened
  BY <1>1, StreamOpen
<1>3. stream_context # NoCall
  BY <1>2, GrpcAssumption DEF CallId, NoCall
<1> QED
  BY <1>2, <1>3 DEF CloseCancel, CancelStream

(* RxRead takes the next response of the call opened last. *)
LEMMA ReadOpen ==
  ASSUME StreamInv, NEW kind, RxRead(kind)
  PROVE  /\ opened \in CallId /\ subscribe_stream_rw = opened
         /\ Read(opened)
         /\ calls[opened].taken < Len(calls[opened].sent)
         /\ calls[opened].taken + 1 \in 1 .. MaxResponses
         /\ calls[opened].sent[calls[opened].taken + 1] = kind
<1>1. opened \in CallId /\ subscribe_stream_rw = opened
  BY StreamOpen DEF RxRead, joinable
<1>2. calls[opened].taken < Len(calls[opened].sent)
  BY <1>1 DEF RxRead, Readable
<1>3. Len(calls[opened].sent) <= MaxResponses
  BY <1>1 DEF StreamInv, CallInv
<1>4. calls[opened].taken + 1 \in 1 .. MaxResponses
  BY <1>1, <1>2, <1>3, FieldTypes, GrpcAssumption DEF StreamInv, TypeOK
<1> QED
  BY <1>1, <1>2, <1>4 DEF RxRead, NextKind

(* RxFinish finishes the call opened last. *)
LEMMA FinishOpen ==
  ASSUME StreamInv, RxFinish
  PROVE  /\ opened \in CallId /\ subscribe_stream_rw = opened
         /\ Finish(opened)
BY StreamOpen DEF RxFinish, joinable

(* Every step keeps the types. *)
LEMMA TypeStep == StreamInv /\ [Next]_vars => TypeOK'
  <1> SUFFICES ASSUME StreamInv, [Next]_vars PROVE TypeOK'
      OBVIOUS
  <1> USE GrpcAssumption DEF StreamInv, TypeOK, Thread, NoThread
  <1>1. ASSUME NEW h \in Handler, SetHandler(h) PROVE TypeOK'
    BY <1>1 DEF SetHandler, impl, seen
  <1>2. ASSUME NEW t \in Thread, RegisterCall(t) PROVE TypeOK'
    BY <1>2 DEF RegisterCall, RegisterStart, Goto, Return, impl, app, seen, Location, ErrorCode
  <1>3. ASSUME NEW t \in Thread, OpenStream(t) PROVE TypeOK'
    <2>1. opened' \in CallId
      BY <1>3 DEF OpenStream, ThreadInv, CallId, NoCall
    <2>2. calls' \in [CallId -> Call]
      BY <1>3, <2>1, SubscribeEffect DEF OpenStream
    <2> QED
      BY <1>3, <2>1, <2>2 DEF OpenStream, Goto, app, seen, Location, RxState
  <1>4. ASSUME NEW t \in Thread, RegisterLock(t) PROVE TypeOK'
    BY <1>4 DEF RegisterLock, Acquire, Goto, app, seen, Location
  <1>5. ASSUME NEW t \in Thread, RegisterWrite(t) PROVE TypeOK'
    <2>1. opened \in CallId /\ \E ok \in BOOLEAN : Write(opened, ok)
      BY <1>5, WriteOpen
    <2>2. calls' \in [CallId -> Call]
      BY <2>1, WriteEffect
    <2> QED
      BY <1>5, <2>2
      DEF RegisterWrite, WriteResult, Release, Goto, Return, app, seen,
          Location, ErrorCode
  <1>6. ASSUME NEW t \in Thread, CloseCall(t) PROVE TypeOK'
    BY <1>6 DEF CloseCall, CloseStart, Goto, impl, app, seen, Location
  <1>7. ASSUME NEW t \in Thread, CloseCancel(t) PROVE TypeOK'
    <2>1. opened \in CallId /\ TryCancel(opened)
      BY <1>7, CancelOpen
    <2>2. calls' \in [CallId -> Call]
      BY <2>1, TryCancelEffect
    <2> QED
      BY <1>7, <2>2 DEF CloseCancel, Goto, impl, app, seen, Location
  <1>8. ASSUME NEW t \in Thread, CloseJoin(t) PROVE TypeOK'
    BY <1>8 DEF CloseJoin, Goto, impl, app, seen, Location, RxState, Fault
  <1>9. ASSUME NEW t \in Thread, CloseReset(t) PROVE TypeOK'
    BY <1>9 DEF CloseReset, Goto, Return, seen, Location, ErrorCode
  <1>10. CASE RxGood
    <2>1. opened \in CallId /\ subscribe_stream_rw = opened /\ Read(opened)
      BY <1>10, ReadOpen DEF RxGood
    <2>2. calls' \in [CallId -> Call]
      BY <2>1, ReadEffect
    <2>3. stats' \in Seq(CallId \X Nat)
      <3>1. calls[opened].taken + 1 \in Nat
        BY <2>1 DEF Call
      <3> QED
        BY <1>10, <2>1, <3>1 DEF RxGood, StatsWith
    <2> QED
      BY <1>10, <2>2, <2>3 DEF RxGood, CallHandler, impl, app, RxState, Fault
  <1>11. CASE RxBad
    <2>1. opened \in CallId /\ subscribe_stream_rw = opened /\ Read(opened)
      BY <1>11, ReadOpen DEF RxBad
    <2>2. calls' \in [CallId -> Call]
      BY <2>1, ReadEffect
    <2> QED
      BY <1>11, <2>2 DEF RxBad, impl, app, seen
  <1>12. CASE RxFatal
    <2>1. opened \in CallId /\ subscribe_stream_rw = opened /\ Read(opened)
      BY <1>12, ReadOpen DEF RxFatal
    <2>2. calls' \in [CallId -> Call]
      BY <2>1, ReadEffect
    <2> QED
      BY <1>12, <2>2 DEF RxFatal, impl, app, seen, Fault
  <1>13. CASE RxSuccessReturn
    BY <1>13 DEF RxSuccessReturn, impl, app, seen, RxState
  <1>14. CASE RxReadEnd
    BY <1>14 DEF RxReadEnd, impl, app, seen, RxState
  <1>15. CASE RxLock
    BY <1>15 DEF RxLock, Acquire, app, seen, RxState
  <1>16. CASE RxFinish
    <2>1. opened \in CallId /\ subscribe_stream_rw = opened /\ Finish(opened)
      BY <1>16, FinishOpen
    <2>2. calls' \in [CallId -> Call]
      BY <2>1, FinishEffect
    <2> QED
      BY <1>16, <2>1, <2>2
      DEF RxFinish, CallHandler, Release, app, RxState, Fault
  <1>17. CASE RxFailedReturn
    BY <1>17 DEF RxFailedReturn, Release, app, seen, RxState
  <1>18. ASSUME NEW c \in CallId, Respond(c) PROVE TypeOK'
    BY <1>18, RespondEffect DEF Respond, client
  <1>19. ASSUME NEW c \in CallId, End(c) PROVE TypeOK'
    BY <1>19, EndEffect DEF End, client
  <1>20. CASE UNCHANGED vars
    BY <1>20 DEF vars
  <1> QED
    BY <1>1, <1>2, <1>3, <1>4, <1>5, <1>6, <1>7, <1>8, <1>9, <1>10,
       <1>11, <1>12, <1>13, <1>14, <1>15, <1>16, <1>17, <1>18, <1>19,
       <1>20
    DEF Next, Api, Receive, Stopped

(* Every step keeps each call where CallInv allows it. *)
LEMMA CallStep == StreamInv /\ [Next]_vars => CallInv'
  <1> SUFFICES ASSUME StreamInv, CallInv, [Next]_vars PROVE CallInv'
      BY DEF StreamInv
  <1> calls \in [CallId -> Call] /\ opened \in 0 .. MaxCalls
      BY GrpcAssumption DEF StreamInv, TypeOK, CallId, NoCall
  <1> USE GrpcAssumption DEF CallInv, ReadFails, Readable, CallId, NoCall
  <1>1. ASSUME NEW h \in Handler, SetHandler(h) PROVE CallInv'
    BY <1>1 DEF SetHandler, impl
  <1>2. ASSUME NEW t \in Thread, RegisterCall(t) PROVE CallInv'
    BY <1>2 DEF RegisterCall, impl
  <1>3. ASSUME NEW t \in Thread, OpenStream(t) PROVE CallInv'
    <2>1. opened' = opened + 1 /\ opened' \in CallId /\ opened \in Nat
      BY <1>3 DEF OpenStream, ThreadInv, Thread, StreamInv, TypeOK
    <2>2. receive_thread = "none" /\ receive_thread' = "read"
      BY <1>3 DEF OpenStream, ThreadInv, Thread, joinable, StreamInv
    <2>3. OthersSame(opened') /\ DataKept /\ FinishKept
      BY <1>3, <2>1, SubscribeEffect DEF OpenStream
    <2>4. calls[opened'] = UnusedCall
      BY <2>1
    <2>5. calls'[opened'].finished = FALSE
      BY <2>1, <2>3, <2>4 DEF UnusedCall, FinishKept
    <2> QED
      BY <2>1, <2>2, <2>3, <2>5, FieldTypes
      DEF OthersSame, DataKept, FinishKept
  <1>4. ASSUME NEW t \in Thread, RegisterLock(t) PROVE CallInv'
    BY <1>4 DEF RegisterLock
  <1>5. ASSUME NEW t \in Thread, RegisterWrite(t) PROVE CallInv'
    <2>1. opened \in CallId /\ \E ok \in BOOLEAN : Write(opened, ok)
      BY <1>5, WriteOpen
    <2>2. OthersSame(opened) /\ StatusKept /\ DataKept /\ FinishKept
      BY <2>1, WriteEffect
    <2>3. opened' = opened /\ receive_thread' = receive_thread
      BY <1>5 DEF RegisterWrite
    <2> QED
      BY <2>1, <2>2, <2>3 DEF OthersSame, StatusKept, DataKept, FinishKept
  <1>6. ASSUME NEW t \in Thread, CloseCall(t) PROVE CallInv'
    BY <1>6 DEF CloseCall, impl
  <1>7. ASSUME NEW t \in Thread, CloseCancel(t) PROVE CallInv'
    <2>1. opened \in CallId /\ TryCancel(opened)
      BY <1>7, CancelOpen
    <2>2. OthersSame(opened) /\ StatusKept /\ DataKept /\ FinishKept
      BY <2>1, TryCancelEffect
    <2>3. opened' = opened /\ receive_thread' = receive_thread
      BY <1>7 DEF CloseCancel, impl
    <2> QED
      BY <2>1, <2>2, <2>3 DEF OthersSame, StatusKept, DataKept, FinishKept
  <1>8. ASSUME NEW t \in Thread, CloseJoin(t) PROVE CallInv'
    BY <1>8 DEF CloseJoin, impl
  <1>9. ASSUME NEW t \in Thread, CloseReset(t) PROVE CallInv'
    BY <1>9 DEF CloseReset
  <1>10. CASE RxGood
    <2>1. opened \in CallId /\ subscribe_stream_rw = opened /\ Read(opened)
      BY <1>10, ReadOpen DEF RxGood
    <2>2. /\ OthersSame(opened) /\ StatusKept /\ FinishKept
          /\ calls'[opened].taken = calls[opened].taken + 1
          /\ calls'[opened].sent = calls[opened].sent
      BY <2>1, ReadEffect
    <2>3. calls[opened].taken < Len(calls[opened].sent)
      BY <1>10, ReadOpen DEF RxGood
    <2>4. receive_thread = "read" /\ receive_thread' \in {"read", "success"}
      BY <1>10 DEF RxGood, RxRead, CallHandler
    <2>5. opened' = opened
      BY <1>10 DEF RxGood, impl
    <2> QED
      BY <2>1, <2>2, <2>3, <2>4, <2>5, FieldTypes
      DEF OthersSame, StatusKept, FinishKept
  <1>11. CASE RxBad
    <2>1. opened \in CallId /\ subscribe_stream_rw = opened /\ Read(opened)
      BY <1>11, ReadOpen DEF RxBad
    <2>2. /\ OthersSame(opened) /\ StatusKept /\ FinishKept
          /\ calls'[opened].taken = calls[opened].taken + 1
          /\ calls'[opened].sent = calls[opened].sent
      BY <2>1, ReadEffect
    <2>3. calls[opened].taken < Len(calls[opened].sent)
      BY <1>11, ReadOpen DEF RxBad
    <2>4. receive_thread = "read" /\ receive_thread' \in {"read", "success"}
      BY <1>11 DEF RxBad, RxRead, CallHandler
    <2>5. opened' = opened
      BY <1>11 DEF RxBad, impl
    <2> QED
      BY <2>1, <2>2, <2>3, <2>4, <2>5, FieldTypes
      DEF OthersSame, StatusKept, FinishKept
  <1>12. CASE RxFatal
    <2>1. opened \in CallId /\ subscribe_stream_rw = opened /\ Read(opened)
      BY <1>12, ReadOpen DEF RxFatal
    <2>2. /\ OthersSame(opened) /\ StatusKept /\ FinishKept
          /\ calls'[opened].taken = calls[opened].taken + 1
          /\ calls'[opened].sent = calls[opened].sent
      BY <2>1, ReadEffect
    <2>3. calls[opened].taken < Len(calls[opened].sent)
      BY <1>12, ReadOpen DEF RxFatal
    <2>4. receive_thread = "read" /\ receive_thread' \in {"read", "success"}
      BY <1>12 DEF RxFatal, RxRead, CallHandler
    <2>5. opened' = opened
      BY <1>12 DEF RxFatal, impl
    <2> QED
      BY <2>1, <2>2, <2>3, <2>4, <2>5, FieldTypes
      DEF OthersSame, StatusKept, FinishKept
  <1>13. CASE RxSuccessReturn
    BY <1>13 DEF RxSuccessReturn, impl
  <1>14. CASE RxReadEnd
    <2>1. opened \in CallId /\ subscribe_stream_rw = opened
      BY <1>14, StreamOpen DEF RxReadEnd, joinable
    <2> QED
      BY <1>14, <2>1 DEF RxReadEnd, LoopEnds, impl
  <1>15. CASE RxLock
    BY <1>15 DEF RxLock
  <1>16. CASE RxFinish
    <2>1. opened \in CallId /\ subscribe_stream_rw = opened /\ Finish(opened)
      BY <1>16, FinishOpen
    <2>2. /\ OthersSame(opened) /\ StatusKept /\ DataKept
          /\ calls'[opened].finished
      BY <2>1, FinishEffect
    <2>3. receive_thread = "finish" /\ receive_thread' \in {"failed", "done"}
      BY <1>16 DEF RxFinish, CallHandler
    <2>4. opened' = opened
      BY <1>16 DEF RxFinish
    <2> QED
      BY <2>1, <2>2, <2>3, <2>4 DEF OthersSame, StatusKept, DataKept
  <1>17. CASE RxFailedReturn
    BY <1>17 DEF RxFailedReturn
  <1>18. ASSUME NEW c \in CallId, Respond(c) PROVE CallInv'
    <2>1. PICK k \in Kinds : ServerRespond(c, k)
      BY <1>18 DEF Respond
    <2>2. /\ OthersSame(c) /\ StatusKept /\ FinishKept
          /\ calls'[c].taken = calls[c].taken
          /\ calls'[c].sent = Append(calls[c].sent, k)
      BY <2>1, RespondEffect
    <2>3. calls[c].state = "open" /\ Len(calls[c].sent) < MaxResponses
      BY <2>1 DEF ServerRespond
    <2>4. Len(Append(calls[c].sent, k)) = Len(calls[c].sent) + 1
      BY FieldTypes
    <2>5. ~(c > opened)
      BY <2>3 DEF UnusedCall
    <2>6. opened' = opened /\ receive_thread' = receive_thread
      BY <1>18 DEF Respond, client
    <2>7. calls[c].taken \in Nat /\ Len(calls[c].sent) \in Nat
      BY FieldTypes
    <2>8. ~(c = opened /\ receive_thread \in {"lock", "finish"}) /\ ~calls[c].finished
      BY <2>3
    <2>9. /\ calls'[c].taken <= Len(calls'[c].sent)
          /\ Len(calls'[c].sent) <= MaxResponses
      BY <2>2, <2>3, <2>4, <2>7
    <2>10. ~(c < opened) /\ calls'[c].finished = calls[c].finished
      BY <2>2, <2>8 DEF FinishKept
    <2>11. \A d \in CallId \ {c} : calls'[d] = calls[d]
      BY <2>2 DEF OthersSame
    <2> QED
      BY <2>5, <2>6, <2>8, <2>9, <2>10, <2>11
  <1>19. ASSUME NEW c \in CallId, End(c) PROVE CallInv'
    <2>1. PICK s \in Status : CallEnd(c, s)
      BY <1>19 DEF End
    <2>2. /\ OthersSame(c) /\ DataKept /\ FinishKept
          /\ calls'[c].state = "ended"
      BY <2>1, EndEffect
    <2>3. calls[c].state = "open"
      BY <2>1 DEF CallEnd
    <2>4. ~(c > opened)
      BY <2>3 DEF UnusedCall
    <2>5. opened' = opened /\ receive_thread' = receive_thread
      BY <1>19 DEF End, client
    <2> QED
      BY <2>2, <2>3, <2>4, <2>5 DEF OthersSame, DataKept, FinishKept
  <1>20. CASE UNCHANGED vars
    BY <1>20 DEF vars
  <1> QED
    BY <1>1, <1>2, <1>3, <1>4, <1>5, <1>6, <1>7, <1>8, <1>9, <1>10,
       <1>11, <1>12, <1>13, <1>14, <1>15, <1>16, <1>17, <1>18, <1>19,
       <1>20
    DEF Next, Api, Receive, Stopped

(* The failed handler is called exactly once for a call that failed. *)
LEMMA ReportStep == StreamInv /\ [Next]_vars => ReportInv'
  <1> SUFFICES ASSUME StreamInv, ReportInv, [Next]_vars PROVE ReportInv'
      BY DEF StreamInv
  <1> calls \in [CallId -> Call] /\ reported \in [CallId -> Nat]
      BY DEF StreamInv, TypeOK
  <1> USE DEF ReportInv
  <1>1. ASSUME NEW h \in Handler, SetHandler(h) PROVE ReportInv'
    BY <1>1 DEF SetHandler, seen
  <1>2. ASSUME NEW t \in Thread, RegisterCall(t) PROVE ReportInv'
    BY <1>2 DEF RegisterCall, seen
  <1>3. ASSUME NEW t \in Thread, OpenStream(t) PROVE ReportInv'
    <2>1. opened' = opened + 1 /\ opened' \in CallId
      BY <1>3, GrpcAssumption
      DEF OpenStream, ThreadInv, Thread, StreamInv, TypeOK, CallId, NoCall
    <2>2. OthersSame(opened') /\ FinishKept
      BY <1>3, <2>1, SubscribeEffect DEF OpenStream
    <2>3. calls[opened'] = UnusedCall
      BY <2>1 DEF StreamInv, CallInv, CallId, TypeOK, NoCall
    <2>4. ~calls'[opened'].finished /\ ~calls[opened'].finished
      BY <2>1, <2>2, <2>3 DEF FinishKept, UnusedCall
    <2>5. reported' = reported
      BY <1>3 DEF OpenStream, seen
    <2> QED
      BY <2>1, <2>2, <2>4, <2>5 DEF OthersSame
  <1>4. ASSUME NEW t \in Thread, RegisterLock(t) PROVE ReportInv'
    BY <1>4 DEF RegisterLock, seen
  <1>5. ASSUME NEW t \in Thread, RegisterWrite(t) PROVE ReportInv'
    <2>1. opened \in CallId /\ \E ok \in BOOLEAN : Write(opened, ok)
      BY <1>5, WriteOpen
    <2>2. StatusKept /\ FinishKept
      BY <2>1, WriteEffect
    <2>3. reported' = reported
      BY <1>5 DEF RegisterWrite, seen
    <2> QED
      BY <2>2, <2>3 DEF StatusKept, FinishKept
  <1>6. ASSUME NEW t \in Thread, CloseCall(t) PROVE ReportInv'
    BY <1>6 DEF CloseCall, seen
  <1>7. ASSUME NEW t \in Thread, CloseCancel(t) PROVE ReportInv'
    <2>1. opened \in CallId /\ TryCancel(opened)
      BY <1>7, CancelOpen
    <2>2. StatusKept /\ FinishKept
      BY <2>1, TryCancelEffect
    <2>3. reported' = reported
      BY <1>7 DEF CloseCancel, seen
    <2> QED
      BY <2>2, <2>3 DEF StatusKept, FinishKept
  <1>8. ASSUME NEW t \in Thread, CloseJoin(t) PROVE ReportInv'
    BY <1>8 DEF CloseJoin, seen
  <1>9. ASSUME NEW t \in Thread, CloseReset(t) PROVE ReportInv'
    BY <1>9 DEF CloseReset, seen
  <1>10. CASE RxGood
    <2>1. opened \in CallId /\ subscribe_stream_rw = opened /\ Read(opened)
      BY <1>10, ReadOpen DEF RxGood
    <2>2. StatusKept /\ FinishKept
      BY <2>1, ReadEffect
    <2>3. reported' = reported
      BY <1>10 DEF RxGood, seen
    <2> QED
      BY <2>2, <2>3 DEF StatusKept, FinishKept
  <1>11. CASE RxBad
    <2>1. opened \in CallId /\ subscribe_stream_rw = opened /\ Read(opened)
      BY <1>11, ReadOpen DEF RxBad
    <2>2. StatusKept /\ FinishKept
      BY <2>1, ReadEffect
    <2>3. reported' = reported
      BY <1>11 DEF RxBad, seen
    <2> QED
      BY <2>2, <2>3 DEF StatusKept, FinishKept
  <1>12. CASE RxFatal
    <2>1. opened \in CallId /\ subscribe_stream_rw = opened /\ Read(opened)
      BY <1>12, ReadOpen DEF RxFatal
    <2>2. StatusKept /\ FinishKept
      BY <2>1, ReadEffect
    <2>3. reported' = reported
      BY <1>12 DEF RxFatal, seen
    <2> QED
      BY <2>2, <2>3 DEF StatusKept, FinishKept
  <1>13. CASE RxSuccessReturn
    BY <1>13 DEF RxSuccessReturn, seen
  <1>14. CASE RxReadEnd
    BY <1>14 DEF RxReadEnd, seen
  <1>15. CASE RxLock
    BY <1>15 DEF RxLock, seen
  <1>16. CASE RxFinish
    <2>1. opened \in CallId /\ subscribe_stream_rw = opened /\ Finish(opened)
      BY <1>16, FinishOpen
    <2>2. OthersSame(opened) /\ StatusKept /\ calls'[opened].finished
      BY <2>1, FinishEffect
    <2>3. ~calls[opened].finished
      BY <1>16, <2>1 DEF RxFinish, StreamInv, CallInv
    <2>4. reported[opened] = 0
      BY <2>1, <2>3
    <2>5. reported' = IF Failure(opened)
                      THEN [reported EXCEPT ![opened] = reported[opened] + 1]
                      ELSE reported
      BY <1>16, <2>1 DEF RxFinish
    <2>6. reported'[opened] = IF calls'[opened].status \in ErrorStatus THEN 1 ELSE 0
      BY <2>1, <2>2, <2>4, <2>5 DEF Failure, StatusKept
    <2>7. \A d \in CallId \ {opened} : reported'[d] = reported[d]
      BY <2>1, <2>5
    <2> QED
      BY <2>1, <2>2, <2>6, <2>7 DEF OthersSame
  <1>17. CASE RxFailedReturn
    BY <1>17 DEF RxFailedReturn, seen
  <1>18. ASSUME NEW c \in CallId, Respond(c) PROVE ReportInv'
    <2>1. StatusKept /\ FinishKept
      BY <1>18, RespondEffect DEF Respond
    <2>2. reported' = reported
      BY <1>18 DEF Respond, client
    <2> QED
      BY <2>1, <2>2 DEF StatusKept, FinishKept
  <1>19. ASSUME NEW c \in CallId, End(c) PROVE ReportInv'
    <2>1. OthersSame(c) /\ FinishKept
      BY <1>19, EndEffect DEF End
    <2>2. ~calls[c].finished
      BY <1>19 DEF End, CallEnd, StreamInv, CallInv
    <2>3. reported' = reported
      BY <1>19 DEF End, client
    <2> QED
      BY <2>1, <2>2, <2>3 DEF OthersSame, FinishKept
  <1>20. CASE UNCHANGED vars
    BY <1>20 DEF vars
  <1> QED
    BY <1>1, <1>2, <1>3, <1>4, <1>5, <1>6, <1>7, <1>8, <1>9, <1>10,
       <1>11, <1>12, <1>13, <1>14, <1>15, <1>16, <1>17, <1>18, <1>19,
       <1>20
    DEF Next, Api, Receive, Stopped

(* Only a Read or a new response touches what StatsExact is about. *)
LEMMA StatsKept ==
  ASSUME StatsExact, DataKept, stats' = stats
  PROVE  StatsExact'
<1>1. Taken' = Taken
  BY DEF DataKept, Taken
<1>2. \A r \in Taken : calls'[r[1]].sent[r[2]] = calls[r[1]].sent[r[2]]
  BY DEF DataKept, Taken
<1> QED
  BY <1>1, <1>2 DEF StatsExact

(* A Read takes one response: the latest of all that were taken.           *)
LEMMA ReadTaken ==
  ASSUME StreamInv, NEW kind, RxRead(kind)
  PROVE  LET r == <<opened, calls[opened].taken + 1>> IN
         /\ Taken' = Taken \cup {r}
         /\ \A q \in Taken : Earlier(q, r)
         /\ \A q \in Taken' : calls'[q[1]].sent[q[2]] = calls[q[1]].sent[q[2]]
<1> DEFINE i == calls[opened].taken + 1
<1> calls \in [CallId -> Call]
  BY DEF StreamInv, TypeOK
<1>1. opened \in CallId /\ i \in 1 .. MaxResponses /\ Read(opened)
  BY ReadOpen
<1>2. /\ OthersSame(opened)
      /\ calls'[opened].taken = i
      /\ \A d \in CallId : calls'[d].sent = calls[d].sent
  BY <1>1, ReadEffect
<1>3. \A q \in CallId \X (1 .. MaxResponses) :
        q \in Taken' <=> q \in Taken \/ q = <<opened, i>>
  BY <1>1, <1>2, FieldTypes, GrpcAssumption DEF Taken, OthersSame
<1>4. Taken' = Taken \cup {<<opened, i>>}
  BY <1>1, <1>3 DEF Taken
<1>5. ASSUME NEW q \in Taken PROVE Earlier(q, <<opened, i>>)
  <2>1. /\ q[1] \in CallId /\ q[2] \in 1 .. MaxResponses
        /\ q[2] <= calls[q[1]].taken
    BY DEF Taken
  <2>2. ~(q[1] > opened)
    BY <2>1 DEF StreamInv, CallInv, UnusedCall
  <2> QED
    BY <1>1, <2>1, <2>2, FieldTypes, GrpcAssumption DEF Earlier, CallId
<1>6. \A q \in Taken' : calls'[q[1]].sent[q[2]] = calls[q[1]].sent[q[2]]
  BY <1>2 DEF Taken
<1> QED
  BY <1>4, <1>5, <1>6

(* A response that is not good leaves the stored counters complete. *)
LEMMA ReadSkipped ==
  ASSUME StreamInv, NEW kind, RxRead(kind), kind # "good", stats' = stats
  PROVE  StatsExact'
<1> DEFINE r == <<opened, calls[opened].taken + 1>>
<1>1. /\ Taken' = Taken \cup {r}
      /\ \A q \in Taken' : calls'[q[1]].sent[q[2]] = calls[q[1]].sent[q[2]]
  BY ReadTaken
<1>2. calls[r[1]].sent[r[2]] # "good"
  BY ReadOpen
<1> HIDE DEF r
<1>3. {q \in Taken' : calls'[q[1]].sent[q[2]] = "good"} =
        {q \in Taken : calls[q[1]].sent[q[2]] = "good"}
  BY <1>1, <1>2
<1> QED
  BY <1>3 DEF StreamInv, StatsExact

(* Every step keeps the stored counters complete and in order. *)
LEMMA StatsStep == StreamInv /\ [Next]_vars => StatsExact'
  <1> SUFFICES ASSUME StreamInv, StatsExact, [Next]_vars PROVE StatsExact'
      BY DEF StreamInv
  <1> calls \in [CallId -> Call]
      BY DEF StreamInv, TypeOK
  <1> USE DEF CallId
  <1>1. ASSUME NEW h \in Handler, SetHandler(h) PROVE StatsExact'
    BY <1>1, StatsKept DEF SetHandler, seen, DataKept
  <1>2. ASSUME NEW t \in Thread, RegisterCall(t) PROVE StatsExact'
    BY <1>2, StatsKept DEF RegisterCall, seen, DataKept
  <1>3. ASSUME NEW t \in Thread, OpenStream(t) PROVE StatsExact'
    <2>1. opened' \in CallId
      BY <1>3, GrpcAssumption
      DEF OpenStream, ThreadInv, Thread, StreamInv, TypeOK, CallId, NoCall
    <2>2. DataKept
      BY <1>3, <2>1, SubscribeEffect DEF OpenStream
    <2> QED
      BY <1>3, <2>2, StatsKept DEF OpenStream, seen
  <1>4. ASSUME NEW t \in Thread, RegisterLock(t) PROVE StatsExact'
    BY <1>4, StatsKept DEF RegisterLock, seen, DataKept
  <1>5. ASSUME NEW t \in Thread, RegisterWrite(t) PROVE StatsExact'
    <2>1. opened \in CallId /\ \E ok \in BOOLEAN : Write(opened, ok)
      BY <1>5, WriteOpen
    <2>2. DataKept
      BY <2>1, WriteEffect
    <2>3. stats' = stats
      BY <1>5 DEF RegisterWrite, seen
    <2> QED
      BY <2>2, <2>3, StatsKept
  <1>6. ASSUME NEW t \in Thread, CloseCall(t) PROVE StatsExact'
    BY <1>6, StatsKept DEF CloseCall, seen, DataKept
  <1>7. ASSUME NEW t \in Thread, CloseCancel(t) PROVE StatsExact'
    <2>1. opened \in CallId /\ TryCancel(opened)
      BY <1>7, CancelOpen
    <2>2. DataKept
      BY <2>1, TryCancelEffect
    <2>3. stats' = stats
      BY <1>7 DEF CloseCancel, seen
    <2> QED
      BY <2>2, <2>3, StatsKept
  <1>8. ASSUME NEW t \in Thread, CloseJoin(t) PROVE StatsExact'
    BY <1>8, StatsKept DEF CloseJoin, seen, DataKept
  <1>9. ASSUME NEW t \in Thread, CloseReset(t) PROVE StatsExact'
    BY <1>9, StatsKept DEF CloseReset, seen, DataKept
  <1>10. CASE RxGood
    <2> DEFINE r == <<opened, calls[opened].taken + 1>>
    <2>1. RxRead("good") /\ stats' = Append(stats, r)
      BY <1>10, ReadOpen DEF RxGood, StatsWith
    <2>2. /\ Taken' = Taken \cup {r}
          /\ \A q \in Taken : Earlier(q, r)
          /\ \A q \in Taken' : calls'[q[1]].sent[q[2]] = calls[q[1]].sent[q[2]]
      BY <2>1, ReadTaken
    <2>3. calls[r[1]].sent[r[2]] = "good"
      BY <2>1, ReadOpen
    <2>4. stats \in Seq(CallId \X Nat)
      BY DEF StreamInv, TypeOK
    <2> HIDE DEF r
    <2>5. /\ Len(stats') = Len(stats) + 1 /\ Len(stats) \in Nat
          /\ stats'[Len(stats) + 1] = r
          /\ \A k \in 1 .. Len(stats) : stats'[k] = stats[k]
      BY <2>1, <2>4
    <2>6. {stats'[k] : k \in 1 .. Len(stats')} =
            {stats[k] : k \in 1 .. Len(stats)} \cup {r}
      <3>1. 1 .. Len(stats') = (1 .. Len(stats)) \cup {Len(stats) + 1}
        BY <2>5
      <3> QED
        BY <2>5, <3>1, Zenon
    <2>7. {stats'[k] : k \in 1 .. Len(stats')} =
            {q \in Taken' : calls'[q[1]].sent[q[2]] = "good"}
      BY <2>2, <2>3, <2>6, Zenon DEF StatsExact
    <2>8. ASSUME NEW j \in 1 .. Len(stats'), NEW k \in 1 .. Len(stats'), j < k
          PROVE  Earlier(stats'[j], stats'[k])
      <3>1. j \in 1 .. Len(stats) /\ stats'[j] = stats[j]
        BY <2>5, <2>8
      <3>2. CASE k \in 1 .. Len(stats)
        BY <2>5, <2>8, <3>1, <3>2 DEF StatsExact
      <3>3. CASE k = Len(stats) + 1
        <4>1. stats[j] \in Taken
          BY <3>1 DEF StatsExact
        <4> QED
          BY <2>2, <2>5, <3>1, <3>3, <4>1
      <3> QED
        BY <2>5, <3>2, <3>3
    <2> QED
      BY <2>7, <2>8 DEF StatsExact
  <1>11. CASE RxBad
    BY <1>11, ReadSkipped DEF RxBad, seen
  <1>12. CASE RxFatal
    BY <1>12, ReadSkipped DEF RxFatal, seen
  <1>13. CASE RxSuccessReturn
    BY <1>13, StatsKept DEF RxSuccessReturn, seen, DataKept
  <1>14. CASE RxReadEnd
    BY <1>14, StatsKept DEF RxReadEnd, seen, DataKept
  <1>15. CASE RxLock
    BY <1>15, StatsKept DEF RxLock, seen, DataKept
  <1>16. CASE RxFinish
    <2>1. opened \in CallId /\ subscribe_stream_rw = opened /\ Finish(opened)
      BY <1>16, FinishOpen
    <2>2. DataKept
      BY <2>1, FinishEffect
    <2> QED
      BY <1>16, <2>2, StatsKept DEF RxFinish
  <1>17. CASE RxFailedReturn
    BY <1>17, StatsKept DEF RxFailedReturn, seen, DataKept
  <1>18. ASSUME NEW c \in CallId, Respond(c) PROVE StatsExact'
    <2>1. PICK k \in Kinds : ServerRespond(c, k)
      BY <1>18 DEF Respond
    <2>2. /\ OthersSame(c)
          /\ calls'[c].taken = calls[c].taken
          /\ calls'[c].sent = Append(calls[c].sent, k)
      BY <2>1, RespondEffect
    <2>3. \A d \in CallId : calls'[d].taken = calls[d].taken
      BY <2>2 DEF OthersSame
    <2>4. Taken' = Taken
      BY <2>3 DEF Taken
    <2>5. \A r \in Taken : calls'[r[1]].sent[r[2]] = calls[r[1]].sent[r[2]]
      <3> SUFFICES ASSUME NEW r \in Taken
                   PROVE  calls'[r[1]].sent[r[2]] = calls[r[1]].sent[r[2]]
          OBVIOUS
      <3>1. r[1] \in CallId /\ r[2] \in 1 .. calls[r[1]].taken
        BY FieldTypes, GrpcAssumption DEF Taken
      <3>2. r[2] \in 1 .. Len(calls[r[1]].sent)
        BY <3>1, FieldTypes DEF StreamInv, CallInv
      <3>3. CASE r[1] = c
        BY <2>2, <3>2, <3>3, FieldTypes
      <3>4. CASE r[1] # c
        BY <2>2, <3>1, <3>4 DEF OthersSame
      <3> QED
        BY <3>3, <3>4
    <2>6. stats' = stats
      BY <1>18 DEF Respond, client
    <2> QED
      BY <2>4, <2>5, <2>6 DEF StatsExact
  <1>19. ASSUME NEW c \in CallId, End(c) PROVE StatsExact'
    <2>1. DataKept
      BY <1>19, EndEffect DEF End
    <2> QED
      BY <1>19, <2>1, StatsKept DEF End, client
  <1>20. CASE UNCHANGED vars
    BY <1>20, StatsKept DEF vars, DataKept
  <1> QED
    BY <1>1, <1>2, <1>3, <1>4, <1>5, <1>6, <1>7, <1>8, <1>9, <1>10,
       <1>11, <1>12, <1>13, <1>14, <1>15, <1>16, <1>17, <1>18, <1>19,
       <1>20
    DEF Next, Api, Receive, Stopped

(* Only the success handler's call of rpc_stream_close gets to the join:   *)
(* the failed handler runs with the mutex held, and waits for it before.   *)
LEMMA JoinStep == StreamInv /\ [Next]_vars => JoinInv'
  <1> SUFFICES ASSUME StreamInv, [Next]_vars PROVE JoinInv'
      OBVIOUS
  <1> USE DEF StreamInv, TypeOK, ThreadInv, JoinInv, Running, Thread, Handler,
              InHandler, joinable, Goto, Return, impl, app
  <1>1. ASSUME NEW h \in Handler, SetHandler(h) PROVE JoinInv'
    BY <1>1 DEF SetHandler
  <1>2. ASSUME NEW t \in Thread, RegisterCall(t) PROVE JoinInv'
    BY <1>2 DEF RegisterCall, MayCall, RegisterStart
  <1>3. ASSUME NEW t \in Thread, OpenStream(t) PROVE JoinInv'
    BY <1>3 DEF OpenStream
  <1>4. ASSUME NEW t \in Thread, RegisterLock(t) PROVE JoinInv'
    BY <1>4 DEF RegisterLock
  <1>5. ASSUME NEW t \in Thread, RegisterWrite(t) PROVE JoinInv'
    <2>1. pc' = [pc EXCEPT ![t] = "idle"]
      BY <1>5 DEF RegisterWrite
    <2>2. fault = "none" /\ fault' = fault /\ receive_thread' = receive_thread
      BY <1>5 DEF RegisterWrite
    <2> QED
      BY <2>1, <2>2
  <1>6. ASSUME NEW t \in Thread, CloseCall(t) PROVE JoinInv'
    BY <1>6 DEF CloseCall, MayCall, CloseStart
  <1>7. ASSUME NEW t \in Thread, CloseCancel(t) PROVE JoinInv'
    BY <1>7 DEF CloseCancel, MutexInv, NoThread
  <1>8. ASSUME NEW t \in Thread, CloseJoin(t) PROVE JoinInv'
    BY <1>8 DEF CloseJoin, RxState
  <1>9. ASSUME NEW t \in Thread, CloseReset(t) PROVE JoinInv'
    BY <1>9 DEF CloseReset
  <1>10. CASE RxGood
    BY <1>10 DEF RxGood, RxRead, CallHandler
  <1>11. CASE RxBad
    BY <1>11 DEF RxBad, RxRead
  <1>12. CASE RxFatal
    BY <1>12 DEF RxFatal, RxRead
  <1>13. CASE RxSuccessReturn
    BY <1>13 DEF RxSuccessReturn
  <1>14. CASE RxReadEnd
    BY <1>14 DEF RxReadEnd
  <1>15. CASE RxLock
    BY <1>15 DEF RxLock
  <1>16. CASE RxFinish
    BY <1>16 DEF RxFinish, CallHandler
  <1>17. CASE RxFailedReturn
    BY <1>17 DEF RxFailedReturn
  <1>18. ASSUME NEW c \in CallId, Respond(c) PROVE JoinInv'
    BY <1>18 DEF Respond, client
  <1>19. ASSUME NEW c \in CallId, End(c) PROVE JoinInv'
    BY <1>19 DEF End, client
  <1>20. CASE UNCHANGED vars
    BY <1>20 DEF vars
  <1> QED
    BY <1>1, <1>2, <1>3, <1>4, <1>5, <1>6, <1>7, <1>8, <1>9, <1>10,
       <1>11, <1>12, <1>13, <1>14, <1>15, <1>16, <1>17, <1>18, <1>19,
       <1>20
    DEF Next, Api, Receive, Stopped

-----------------------------------------------------------------------------
(* The inductive invariant: the two threads, the mutex, the shared members *)
(* and the gRPC calls stay in step; the parts of it are TypeOK, where each *)
(* thread may be, ReportInv, StatsExact and JoinInv.                       *)
THEOREM Invariance == Spec => []StreamInv
<1>1. Init => StreamInv
  BY InitInv
<1>2. StreamInv /\ [Next]_vars => StreamInv'
  BY TypeStep, ThreadStep, MutexStep, MembersStep, CallStep, ReportStep,
     StatsStep, JoinStep DEF StreamInv
<1> QED
  BY <1>1, <1>2, PTL DEF Spec

(* rpc_register_stats_stream, rpc_stream_close and the receive thread keep *)
(* every variable in its type.                                             *)
THEOREM TypeCorrect == Spec => []TypeOK
<1>1. StreamInv => TypeOK
  BY DEF StreamInv
<1> QED
  BY <1>1, Invariance, PTL

(* add_stats stores exactly the good responses that were read, in order.   *)
THEOREM CountersExact == Spec => []StatsExact
<1>1. StreamInv => StatsExact
  BY DEF StreamInv
<1> QED
  BY <1>1, Invariance, PTL

(* No Read, Write, WritesDone, Finish or TryCancel goes through a null or  *)
(* an outdated pointer.                                                    *)
THEOREM NoStalePointer == Spec => []StreamInUse
<1>1. StreamInv => StreamInUse
  <2> SUFFICES ASSUME StreamInv PROVE StreamInUse
      OBVIOUS
  <2>1. joinable => subscribe_stream_rw = opened
    BY DEF StreamInv, MembersInv
  <2>2. \A t \in Thread : pc[t] = "write" => joinable
    BY DEF StreamInv, ThreadInv, Thread, joinable
  <2> QED
    BY <2>1, <2>2 DEF StreamInv, MembersInv, StreamInUse, joinable
<1> QED
  BY <1>1, Invariance, PTL

(* The mutex keeps a Write apart from other Writes and from Finish.        *)
THEOREM WritesSerialised == Spec => []WriteExclusive
<1>1. StreamInv => WriteExclusive
  <2> SUFFICES ASSUME StreamInv PROVE WriteExclusive
      OBVIOUS
  <2>1. pc["user"] = "write" => mtx = "user"
    BY DEF StreamInv, MutexInv
  <2>2. pc["recv"] = "write" => mtx = "recv" /\ receive_thread = "success"
    BY DEF StreamInv, MutexInv, ThreadInv
  <2>3. receive_thread = "finish" => mtx = "recv"
    BY DEF StreamInv, MutexInv
  <2> QED
    BY <2>1, <2>2, <2>3 DEF WriteExclusive, Thread
<1> QED
  BY <1>1, Invariance, PTL

(* Once the stream is closed or the client destroyed, no handler runs and  *)
(* nothing is left open.                                                   *)
THEOREM CloseIsFinal == Spec => []QuietAfterClose
<1>1. StreamInv => QuietAfterClose
  <2> SUFFICES ASSUME StreamInv, pc["user"] = "close_reset" \/ ~alive
               PROVE  /\ ~joinable
                      /\ pc["recv"] = "idle"
                      /\ \A c \in 1 .. opened : calls[c].finished
      BY DEF QuietAfterClose
  <2>1. ~joinable
    BY DEF StreamInv, ThreadInv
  <2>2. pc["recv"] = "idle"
    BY <2>1 DEF StreamInv, ThreadInv, InHandler, Handler, joinable
  <2>3. \A c \in 1 .. opened : c \in CallId /\ (c < opened \/ c = opened)
    BY GrpcAssumption DEF StreamInv, TypeOK, CallId, NoCall
  <2>4. \A c \in 1 .. opened : calls[c].finished
    BY <2>1, <2>3 DEF StreamInv, CallInv, joinable
  <2> QED
    BY <2>1, <2>2, <2>4
<1> QED
  BY <1>1, Invariance, PTL

(* Whatever the handlers call, only the failed handler's own call waits    *)
(* for a mutex its thread holds, and only the success handler's call joins *)
(* its own thread.                                                         *)
THEOREM OwnWaitsKnown == Spec => []OwnWaitsOnly
<1>1. StreamInv => OwnWaitsOnly
  <2> SUFFICES ASSUME StreamInv PROVE OwnWaitsOnly
      OBVIOUS
  <2>1. mtx = "user" <=> pc["user"] = "write"
    BY DEF StreamInv, MutexInv
  <2>2. mtx = "recv" <=> \/ receive_thread \in {"finish", "failed"}
                         \/ pc["recv"] = "write"
    BY DEF StreamInv, MutexInv
  <2>3. pc["recv"] # "idle" => receive_thread \in {"success", "failed"}
    BY DEF StreamInv, ThreadInv, InHandler, Handler
  <2>4. ASSUME NEW t \in Thread, mtx = t,
               pc[t] \in {"reg_lock", "close_cancel", "open"}
        PROVE  t = "recv" /\ SelfDeadlock
    BY <2>1, <2>2, <2>3, <2>4 DEF SelfDeadlock, Thread
  <2>5. ASSUME fault = "self_join" \/ pc["recv"] = "close_join"
        PROVE  receive_thread = "success" /\ mtx # "recv"
    BY <2>2, <2>5 DEF StreamInv, JoinInv
  <2> QED
    BY <2>4, <2>5 DEF OwnWaitsOnly
<1> QED
  BY <1>1, Invariance, PTL

(* If the failed handler does not call the API, no thread waits for the    *)
(* mutex that it holds.                                                    *)
THEOREM DeadlockFree ==
  ASSUME \A f \in Function : <<"failed", f>> \notin HandlerCalls
  PROVE  Spec => [](\A t \in Thread :
                      pc[t] \in {"reg_lock", "close_cancel", "open"} => mtx # t)
<1> DEFINE HandlerInv == StreamInv /\ (receive_thread = "failed" => pc["recv"] = "idle")
<1>1. Init => HandlerInv
  BY InitInv DEF Init, Thread
<1>2. HandlerInv /\ [Next]_vars => HandlerInv'
  <2> SUFFICES ASSUME HandlerInv, [Next]_vars PROVE HandlerInv'
      OBVIOUS
  <2>1. StreamInv'
    BY TypeStep, ThreadStep, MutexStep, MembersStep, CallStep, ReportStep,
       StatsStep, JoinStep DEF StreamInv
  <2>2. receive_thread' = "failed" => pc'["recv"] = "idle"
    <3> USE DEF StreamInv, TypeOK, ThreadInv, Thread, Handler, InHandler,
                joinable, Goto, Return, impl, app
    <3>1. ASSUME NEW h \in Handler, SetHandler(h)
          PROVE  receive_thread' = "failed" => pc'["recv"] = "idle"
      BY <3>1 DEF SetHandler
    <3>2. ASSUME NEW t \in Thread, RegisterCall(t)
          PROVE  receive_thread' = "failed" => pc'["recv"] = "idle"
      BY <3>2 DEF RegisterCall, MayCall, Function
    <3>3. ASSUME NEW t \in Thread, OpenStream(t)
          PROVE  receive_thread' = "failed" => pc'["recv"] = "idle"
      BY <3>3 DEF OpenStream
    <3>4. ASSUME NEW t \in Thread, RegisterLock(t)
          PROVE  receive_thread' = "failed" => pc'["recv"] = "idle"
      BY <3>4 DEF RegisterLock
    <3>5. ASSUME NEW t \in Thread, RegisterWrite(t)
          PROVE  receive_thread' = "failed" => pc'["recv"] = "idle"
      BY <3>5 DEF RegisterWrite
    <3>6. ASSUME NEW t \in Thread, CloseCall(t)
          PROVE  receive_thread' = "failed" => pc'["recv"] = "idle"
      BY <3>6 DEF CloseCall, MayCall, Function
    <3>7. ASSUME NEW t \in Thread, CloseCancel(t)
          PROVE  receive_thread' = "failed" => pc'["recv"] = "idle"
      BY <3>7 DEF CloseCancel
    <3>8. ASSUME NEW t \in Thread, CloseJoin(t)
          PROVE  receive_thread' = "failed" => pc'["recv"] = "idle"
      BY <3>8 DEF CloseJoin
    <3>9. ASSUME NEW t \in Thread, CloseReset(t)
          PROVE  receive_thread' = "failed" => pc'["recv"] = "idle"
      BY <3>9 DEF CloseReset
    <3>10. CASE RxGood
      BY <3>10 DEF RxGood, CallHandler
    <3>11. CASE RxBad
      BY <3>11 DEF RxBad
    <3>12. CASE RxFatal
      BY <3>12 DEF RxFatal
    <3>13. CASE RxSuccessReturn
      BY <3>13 DEF RxSuccessReturn
    <3>14. CASE RxReadEnd
      BY <3>14 DEF RxReadEnd
    <3>15. CASE RxLock
      BY <3>15 DEF RxLock
    <3>16. CASE RxFinish
      BY <3>16 DEF RxFinish, CallHandler
    <3>17. CASE RxFailedReturn
      BY <3>17 DEF RxFailedReturn
    <3>18. ASSUME NEW c \in CallId, Respond(c)
          PROVE  receive_thread' = "failed" => pc'["recv"] = "idle"
      BY <3>18 DEF Respond, client
    <3>19. ASSUME NEW c \in CallId, End(c)
          PROVE  receive_thread' = "failed" => pc'["recv"] = "idle"
      BY <3>19 DEF End, client
    <3>20. CASE UNCHANGED vars
      BY <3>20 DEF vars
    <3> QED
      BY <3>1, <3>2, <3>3, <3>4, <3>5, <3>6, <3>7, <3>8, <3>9, <3>10,
         <3>11, <3>12, <3>13, <3>14, <3>15, <3>16, <3>17, <3>18,
         <3>19, <3>20
      DEF Next, Api, Receive, Stopped
  <2> QED
    BY <2>1, <2>2
<1> DEFINE NoOwnWait == \A t \in Thread :
             pc[t] \in {"reg_lock", "close_cancel", "open"} => mtx # t
<1>3. HandlerInv => NoOwnWait
  <2> SUFFICES ASSUME HandlerInv PROVE NoOwnWait
      OBVIOUS
  <2>1. mtx = "user" => pc["user"] = "write"
    BY DEF StreamInv, MutexInv
  <2>2. mtx = "recv" => \/ receive_thread \in {"finish", "failed"}
                        \/ pc["recv"] = "write"
    BY DEF StreamInv, MutexInv
  <2>3. pc["recv"] # "idle" => receive_thread = "success"
    BY DEF StreamInv, ThreadInv, InHandler, Handler
  <2> QED
    BY <2>1, <2>2, <2>3 DEF Thread
<1> QED
  BY <1>1, <1>2, <1>3, PTL DEF Spec

-----------------------------------------------------------------------------
(* What no step of GnmiStream may do (its three action properties), and that *)
(* GnmiStream implements StreamSession.                                    *)

(* The context of a call is replaced only once the call has been finished. *)
LEMMA ContextStep ==
  StreamInv /\ [Next]_vars =>
    (stream_context' # stream_context /\ stream_context # NoCall
       => calls[stream_context].finished)
  <1> DEFINE Kept == stream_context' # stream_context /\ stream_context # NoCall
                       => calls[stream_context].finished
  <1> SUFFICES ASSUME StreamInv, [Next]_vars PROVE Kept
      OBVIOUS
  <1>1. ASSUME NEW h \in Handler, SetHandler(h) PROVE Kept
    BY <1>1 DEF SetHandler, impl
  <1>2. ASSUME NEW t \in Thread, RegisterCall(t) PROVE Kept
    BY <1>2 DEF RegisterCall, impl
  <1>3. ASSUME NEW t \in Thread, OpenStream(t) PROVE Kept
    <2>1. pc["user"] = "open"
      BY <1>3 DEF OpenStream, StreamInv, ThreadInv, Thread
    <2>2. receive_thread = "none"
      BY <2>1 DEF StreamInv, ThreadInv, joinable
    <2>3. stream_context = opened /\ (opened # NoCall => opened \in CallId)
      BY DEF StreamInv, MembersInv, TypeOK
    <2> QED
      BY <2>2, <2>3 DEF StreamInv, CallInv
  <1>4. ASSUME NEW t \in Thread, RegisterLock(t) PROVE Kept
    BY <1>4 DEF RegisterLock
  <1>5. ASSUME NEW t \in Thread, RegisterWrite(t) PROVE Kept
    BY <1>5 DEF RegisterWrite
  <1>6. ASSUME NEW t \in Thread, CloseCall(t) PROVE Kept
    BY <1>6 DEF CloseCall, impl
  <1>7. ASSUME NEW t \in Thread, CloseCancel(t) PROVE Kept
    BY <1>7 DEF CloseCancel, impl
  <1>8. ASSUME NEW t \in Thread, CloseJoin(t) PROVE Kept
    BY <1>8 DEF CloseJoin, impl
  <1>9. ASSUME NEW t \in Thread, CloseReset(t) PROVE Kept
    BY <1>9 DEF CloseReset
  <1>10. CASE RxGood
    BY <1>10 DEF RxGood, impl
  <1>11. CASE RxBad
    BY <1>11 DEF RxBad, impl
  <1>12. CASE RxFatal
    BY <1>12 DEF RxFatal, impl
  <1>13. CASE RxSuccessReturn
    BY <1>13 DEF RxSuccessReturn, impl
  <1>14. CASE RxReadEnd
    BY <1>14 DEF RxReadEnd, impl
  <1>15. CASE RxLock
    BY <1>15 DEF RxLock
  <1>16. CASE RxFinish
    BY <1>16 DEF RxFinish
  <1>17. CASE RxFailedReturn
    BY <1>17 DEF RxFailedReturn
  <1>18. ASSUME NEW c \in CallId, Respond(c) PROVE Kept
    BY <1>18 DEF Respond, client
  <1>19. ASSUME NEW c \in CallId, End(c) PROVE Kept
    BY <1>19 DEF End, client
  <1>20. CASE UNCHANGED vars
    BY <1>20 DEF vars
  <1> QED
    BY <1>1, <1>2, <1>3, <1>4, <1>5, <1>6, <1>7, <1>8, <1>9, <1>10,
       <1>11, <1>12, <1>13, <1>14, <1>15, <1>16, <1>17, <1>18, <1>19, <1>20
    DEF Next, Api, Receive, Stopped

(* The call that a context belongs to is over before the context is        *)
(* destroyed.                                                              *)
THEOREM ContextIsSafe == Spec => ContextOutlivesCall
<1>1. Spec => []StreamInv
  BY Invariance
<1> QED
  BY <1>1, ContextStep, PTL DEF Spec, ContextOutlivesCall

(* Every step but RxFinish leaves alone which calls are finished and which *)
(* were reported, and none reads from a finished call.                     *)
LEMMA FinishStep ==
  StreamInv /\ [Next]_vars =>
    /\ RxFinish \/ (FinishKept /\ reported' = reported)
    /\ \A d \in CallId :
         calls[d].finished => calls'[d].taken = calls[d].taken
  <1> DEFINE Last ==
        /\ RxFinish \/ (FinishKept /\ reported' = reported)
        /\ \A d \in CallId :
             calls[d].finished => calls'[d].taken = calls[d].taken
  <1> SUFFICES ASSUME StreamInv, [Next]_vars PROVE Last
      OBVIOUS
  <1> calls \in [CallId -> Call]
      BY DEF StreamInv, TypeOK
  <1>1. ASSUME NEW h \in Handler, SetHandler(h) PROVE Last
    BY <1>1 DEF SetHandler, seen, FinishKept
  <1>2. ASSUME NEW t \in Thread, RegisterCall(t) PROVE Last
    BY <1>2 DEF RegisterCall, seen, FinishKept
  <1>3. ASSUME NEW t \in Thread, OpenStream(t) PROVE Last
    <2>1. opened' \in CallId
      BY <1>3, GrpcAssumption
      DEF OpenStream, ThreadInv, Thread, StreamInv, TypeOK, CallId, NoCall
    <2>2. DataKept /\ FinishKept
      BY <1>3, <2>1, SubscribeEffect DEF OpenStream
    <2>3. reported' = reported
      BY <1>3 DEF OpenStream, seen
    <2> QED
      BY <2>2, <2>3 DEF DataKept
  <1>4. ASSUME NEW t \in Thread, RegisterLock(t) PROVE Last
    BY <1>4 DEF RegisterLock, seen, FinishKept
  <1>5. ASSUME NEW t \in Thread, RegisterWrite(t) PROVE Last
    <2>1. opened \in CallId /\ \E ok \in BOOLEAN : Write(opened, ok)
      BY <1>5, WriteOpen
    <2>2. DataKept /\ FinishKept
      BY <2>1, WriteEffect
    <2>3. reported' = reported
      BY <1>5 DEF RegisterWrite, seen
    <2> QED
      BY <2>2, <2>3 DEF DataKept
  <1>6. ASSUME NEW t \in Thread, CloseCall(t) PROVE Last
    BY <1>6 DEF CloseCall, seen, FinishKept
  <1>7. ASSUME NEW t \in Thread, CloseCancel(t) PROVE Last
    <2>1. opened \in CallId /\ TryCancel(opened)
      BY <1>7, CancelOpen
    <2>2. DataKept /\ FinishKept
      BY <2>1, TryCancelEffect
    <2>3. reported' = reported
      BY <1>7 DEF CloseCancel, seen
    <2> QED
      BY <2>2, <2>3 DEF DataKept
  <1>8. ASSUME NEW t \in Thread, CloseJoin(t) PROVE Last
    BY <1>8 DEF CloseJoin, seen, FinishKept
  <1>9. ASSUME NEW t \in Thread, CloseReset(t) PROVE Last
    BY <1>9 DEF CloseReset, seen, FinishKept
  <1>10. CASE RxGood
    <2>1. opened \in CallId /\ subscribe_stream_rw = opened /\ Read(opened)
      BY <1>10, ReadOpen DEF RxGood
    <2>2. OthersSame(opened) /\ FinishKept
      BY <2>1, ReadEffect
    <2>3. ~calls[opened].finished
      BY <1>10, <2>1 DEF RxGood, RxRead, StreamInv, CallInv
    <2>4. reported' = reported
      BY <1>10 DEF RxGood, seen
    <2> QED
      BY <2>2, <2>3, <2>4 DEF OthersSame
  <1>11. CASE RxBad
    <2>1. opened \in CallId /\ subscribe_stream_rw = opened /\ Read(opened)
      BY <1>11, ReadOpen DEF RxBad
    <2>2. OthersSame(opened) /\ FinishKept
      BY <2>1, ReadEffect
    <2>3. ~calls[opened].finished
      BY <1>11, <2>1 DEF RxBad, RxRead, StreamInv, CallInv
    <2>4. reported' = reported
      BY <1>11 DEF RxBad, seen
    <2> QED
      BY <2>2, <2>3, <2>4 DEF OthersSame
  <1>12. CASE RxFatal
    <2>1. opened \in CallId /\ subscribe_stream_rw = opened /\ Read(opened)
      BY <1>12, ReadOpen DEF RxFatal
    <2>2. OthersSame(opened) /\ FinishKept
      BY <2>1, ReadEffect
    <2>3. ~calls[opened].finished
      BY <1>12, <2>1 DEF RxFatal, RxRead, StreamInv, CallInv
    <2>4. reported' = reported
      BY <1>12 DEF RxFatal, seen
    <2> QED
      BY <2>2, <2>3, <2>4 DEF OthersSame
  <1>13. CASE RxSuccessReturn
    BY <1>13 DEF RxSuccessReturn, seen, FinishKept
  <1>14. CASE RxReadEnd
    BY <1>14 DEF RxReadEnd, seen, FinishKept
  <1>15. CASE RxLock
    BY <1>15 DEF RxLock, seen, FinishKept
  <1>16. CASE RxFinish
    <2>1. opened \in CallId /\ Finish(opened)
      BY <1>16, FinishOpen
    <2>2. DataKept
      BY <2>1, FinishEffect
    <2> QED
      BY <1>16, <2>2 DEF DataKept
  <1>17. CASE RxFailedReturn
    BY <1>17 DEF RxFailedReturn, seen, FinishKept
  <1>18. ASSUME NEW c \in CallId, Respond(c) PROVE Last
    <2>1. FinishKept /\ \A d \in CallId : calls'[d].taken = calls[d].taken
      BY <1>18, RespondEffect DEF Respond
    <2>2. reported' = reported
      BY <1>18 DEF Respond, client
    <2> QED
      BY <2>1, <2>2
  <1>19. ASSUME NEW c \in CallId, End(c) PROVE Last
    <2>1. DataKept /\ FinishKept
      BY <1>19, EndEffect DEF End
    <2>2. reported' = reported
      BY <1>19 DEF End, client
    <2> QED
      BY <2>1, <2>2 DEF DataKept
  <1>20. CASE UNCHANGED vars
    BY <1>20 DEF vars, FinishKept
  <1> QED
    BY <1>1, <1>2, <1>3, <1>4, <1>5, <1>6, <1>7, <1>8, <1>9, <1>10,
       <1>11, <1>12, <1>13, <1>14, <1>15, <1>16, <1>17, <1>18, <1>19, <1>20
    DEF Next, Api, Receive, Stopped

(* RxFinish finishes the call opened last, which was read to its end, and  *)
(* reports it if it failed.                                                *)
LEMMA FinishOnce ==
  ASSUME StreamInv, RxFinish
  PROVE  /\ opened \in CallId /\ subscribe_stream_rw = opened
         /\ receive_thread = "finish" /\ mtx = "recv"
         /\ ReadFails(opened)
         /\ ~calls[opened].finished /\ calls'[opened].finished
         /\ OthersSame(opened)
         /\ reported' = IF Failure(opened)
                        THEN [reported EXCEPT ![opened] = reported[opened] + 1]
                        ELSE reported
<1>1. /\ opened \in CallId /\ subscribe_stream_rw = opened
      /\ Finish(opened) /\ receive_thread = "finish"
  BY FinishOpen DEF RxFinish
<1>2. mtx = "recv"
  BY <1>1 DEF StreamInv, MutexInv
<1>3. ReadFails(opened) /\ ~calls[opened].finished
  BY <1>1 DEF StreamInv, CallInv
<1>4. OthersSame(opened) /\ calls'[opened].finished
  BY <1>1, FinishEffect DEF StreamInv, TypeOK
<1>5. reported' = IF Failure(opened)
                  THEN [reported EXCEPT ![opened] = reported[opened] + 1]
                  ELSE reported
  BY <1>1 DEF RxFinish
<1> QED
  BY <1>1, <1>2, <1>3, <1>4, <1>5

(* Finish is called once for a call, at the end of it, and is the last     *)
(* thing that happens to it.                                               *)
THEOREM FinishComesLast == Spec => FinishIsLast
<1> DEFINE Last ==
      /\ RxFinish => /\ ReadFails(subscribe_stream_rw)
                     /\ ~calls[subscribe_stream_rw].finished
                     /\ mtx = "recv"
      /\ \A c \in CallId :
           /\ calls'[c].finished # calls[c].finished
                => receive_thread = "finish" /\ c = subscribe_stream_rw
           /\ calls[c].finished => calls'[c].taken = calls[c].taken
<1>1. StreamInv /\ [Next]_vars => Last
  <2> SUFFICES ASSUME StreamInv, [Next]_vars PROVE Last
      OBVIOUS
  <2>1. CASE RxFinish
    <3>1. \A c \in CallId : calls[c].finished => calls'[c].taken = calls[c].taken
      BY FinishStep
    <3> QED
      BY <2>1, <3>1, FinishOnce DEF OthersSame
  <2>2. CASE ~RxFinish
    BY <2>2, FinishStep DEF FinishKept
  <2> QED
    BY <2>1, <2>2
<1>2. Spec => []StreamInv
  BY Invariance
<1> QED
  BY <1>1, <1>2, PTL DEF Spec, FinishIsLast

(* The failed handler is called once for every call that ended with an     *)
(* error, and for none that ended with OK or was cancelled by a close.     *)
THEOREM FailuresExact == Spec => ReportExact
<1> DEFINE Reports ==
      \A c \in CallId :
        /\ reported'[c] # reported[c]
             => /\ reported'[c] = reported[c] + 1
                /\ ~calls[c].finished /\ calls'[c].finished
                /\ calls[c].status # "OK"
                /\ ~(calls[c].status = "CANCELLED" /\ calls[c].cancelled)
        /\ ~calls[c].finished /\ calls'[c].finished
             /\ calls[c].status \in ErrorStatus
             => reported'[c] # reported[c]
<1>1. StreamInv /\ [Next]_vars => Reports
  <2> SUFFICES ASSUME StreamInv, [Next]_vars PROVE Reports
      OBVIOUS
  <2>1. reported \in [CallId -> Nat]
    BY DEF StreamInv, TypeOK
  <2>2. CASE RxFinish
    <3>1. ASSUME NEW c \in CallId, c # opened
          PROVE  calls'[c] = calls[c] /\ reported'[c] = reported[c]
      BY <2>1, <2>2, <3>1, FinishOnce DEF OthersSame
    <3>2. CASE Failure(opened)
      <4>1. reported'[opened] = reported[opened] + 1 /\ reported[opened] \in Nat
        BY <2>1, <2>2, <3>2, FinishOnce
      <4>2. calls[opened].status # "OK" /\ calls[opened].status # "CANCELLED"
        BY <3>2, GrpcAssumption DEF Failure
      <4>3. ~calls[opened].finished /\ calls'[opened].finished
        BY <2>2, FinishOnce
      <4>4. reported'[opened] # reported[opened]
        BY <4>1
      <4> QED
        BY <3>1, <4>1, <4>2, <4>3, <4>4
    <3>3. CASE ~Failure(opened)
      <4>1. reported' = reported
        BY <2>2, <3>3, FinishOnce
      <4> QED
        BY <3>1, <3>3, <4>1 DEF Failure
    <3> QED
      BY <3>2, <3>3
  <2>3. CASE ~RxFinish
    BY <2>3, FinishStep DEF FinishKept
  <2> QED
    BY <2>2, <2>3
<1>2. Spec => []StreamInv
  BY Invariance
<1> QED
  BY <1>1, <1>2, PTL DEF Spec, ReportExact

-----------------------------------------------------------------------------
(* The initial states are those of a client without a session. *)
LEMMA SessionInit == Init => Session!Init
  <1> SUFFICES ASSUME Init PROVE Session!Init
      OBVIOUS
  <1>1. {c \in CallId : reported[c] > 0} = {}
    BY DEF Init
  <1> QED
    BY <1>1 DEF Init, Session!Init, Phase, Running, joinable

(* Every step is a step of the session or leaves it alone. *)
LEMMA SessionStep == StreamInv /\ [Next]_vars => [Session!Next]_(Session!svars)
  <1> SUFFICES ASSUME StreamInv, [Next]_vars PROVE [Session!Next]_(Session!svars)
      OBVIOUS
  <1>1. ASSUME NEW h \in Handler, SetHandler(h) PROVE [Session!Next]_(Session!svars)
    BY <1>1 DEF SetHandler, impl, seen, Session!svars, Phase, Running, joinable
  <1>2. ASSUME NEW t \in Thread, RegisterCall(t) PROVE [Session!Next]_(Session!svars)
    <2>1. (pc'["user"] \in {"close_cancel", "close_join"})
             = (pc["user"] \in {"close_cancel", "close_join"})
      BY <1>2 DEF RegisterCall, RegisterStart, MayCall, Goto, Return, StreamInv, TypeOK, Thread
    <2>2. UNCHANGED <<opened, receive_thread, stats, reported, fault>>
      BY <1>2 DEF RegisterCall, impl, seen
    <2> QED
      BY <2>1, <2>2 DEF Session!svars, Phase, Running, joinable
  <1>3. ASSUME NEW t \in Thread, OpenStream(t) PROVE [Session!Next]_(Session!svars)
    <2>1. pc["user"] = "open" /\ t = "user"
      BY <1>3 DEF OpenStream, StreamInv, ThreadInv, Thread
    <2>2. receive_thread = "none"
      BY <2>1 DEF StreamInv, ThreadInv, joinable
    <2>3. opened + 1 \in CallId
      BY <2>1, GrpcAssumption DEF StreamInv, ThreadInv, TypeOK, CallId, NoCall
    <2>4. pc' = [pc EXCEPT !["user"] = "reg_lock"]
      BY <1>3, <2>1 DEF OpenStream, Goto
    <2>5. pc'["user"] = "reg_lock"
      BY <2>4 DEF StreamInv, TypeOK, Thread
    <2>6. Session!Open
      BY <1>3, <2>1, <2>2, <2>3, <2>5
      DEF OpenStream, Session!Open, Phase, Running, joinable, seen
    <2> QED
      BY <2>6 DEF Session!Next
  <1>4. ASSUME NEW t \in Thread, RegisterLock(t) PROVE [Session!Next]_(Session!svars)
    <2>1. (pc'["user"] \in {"close_cancel", "close_join"})
             = (pc["user"] \in {"close_cancel", "close_join"})
      BY <1>4 DEF RegisterLock, Goto, StreamInv, TypeOK, Thread
    <2>2. UNCHANGED <<opened, receive_thread, stats, reported, fault>>
      BY <1>4 DEF RegisterLock, seen
    <2> QED
      BY <2>1, <2>2 DEF Session!svars, Phase, Running, joinable
  <1>5. ASSUME NEW t \in Thread, RegisterWrite(t) PROVE [Session!Next]_(Session!svars)
    <2>1. (pc'["user"] \in {"close_cancel", "close_join"})
             = (pc["user"] \in {"close_cancel", "close_join"})
      BY <1>5 DEF RegisterWrite, Goto, Return, StreamInv, TypeOK, Thread
    <2>2. UNCHANGED <<opened, receive_thread, stats, reported, fault>>
      BY <1>5 DEF RegisterWrite, seen
    <2> QED
      BY <2>1, <2>2 DEF Session!svars, Phase, Running, joinable
  <1>6. ASSUME NEW t \in Thread, CloseCall(t) PROVE [Session!Next]_(Session!svars)
    <2>1. UNCHANGED <<opened, receive_thread, stats, reported, fault>>
      BY <1>6 DEF CloseCall, impl, seen
    <2>2. CASE t = "user" /\ joinable
      <3>1. pc["user"] = "idle" /\ pc'["user"] = "close_cancel"
        BY <1>6, <2>2 DEF CloseCall, CloseStart, MayCall, Goto, StreamInv, TypeOK, Thread
      <3>2. Session!AskClose
        BY <1>6, <2>1, <2>2, <3>1
        DEF CloseCall, MayCall, Session!AskClose, Phase, Running, joinable
      <3> QED
        BY <3>2 DEF Session!Next
    <2>3. CASE t = "user" /\ ~joinable
      BY <2>1, <2>3 DEF Session!svars, Phase, Running, joinable
    <2>4. CASE t = "recv"
      <3>1. pc'["user"] = pc["user"]
        BY <1>6, <2>4 DEF CloseCall, Goto, StreamInv, TypeOK, Thread
      <3> QED
        BY <2>1, <3>1 DEF Session!svars, Phase, Running, joinable
    <2> QED
      BY <2>2, <2>3, <2>4 DEF Thread
  <1>7. ASSUME NEW t \in Thread, CloseCancel(t) PROVE [Session!Next]_(Session!svars)
    <2>1. (pc'["user"] \in {"close_cancel", "close_join"})
             = (pc["user"] \in {"close_cancel", "close_join"})
      BY <1>7 DEF CloseCancel, Goto, StreamInv, TypeOK, Thread
    <2>2. UNCHANGED <<opened, receive_thread, stats, reported, fault>>
      BY <1>7 DEF CloseCancel, impl, seen
    <2> QED
      BY <2>1, <2>2 DEF Session!svars, Phase, Running, joinable
  <1>8. ASSUME NEW t \in Thread, CloseJoin(t) PROVE [Session!Next]_(Session!svars)
    <2>1. UNCHANGED <<opened, stats, reported>> /\ pc[t] = "close_join" /\ Running
      BY <1>8 DEF CloseJoin, impl, seen
    <2>2. joinable /\ receive_thread # "none"
      BY <2>1 DEF StreamInv, ThreadInv, Thread, joinable, InHandler, Handler
    <2>3. CASE t = "user"
      <3>1. /\ receive_thread = "done" /\ receive_thread' = "none"
            /\ fault' = fault
        BY <1>8, <2>3 DEF CloseJoin
      <3>2. Session!Close
        BY <2>1, <2>2, <2>3, <3>1 DEF Session!Close, Phase, Running, joinable
      <3> QED
        BY <3>2 DEF Session!Next
    <2>4. CASE t = "recv"
      <3>1. fault' = "self_join" /\ UNCHANGED <<receive_thread, pc>>
        BY <1>8, <2>4 DEF CloseJoin
      <3>2. Session!Crash
        BY <2>1, <2>2, <3>1 DEF Session!Crash, Phase, Running, joinable
      <3> QED
        BY <3>2 DEF Session!Next
    <2> QED
      BY <2>3, <2>4 DEF Thread
  <1>9. ASSUME NEW t \in Thread, CloseReset(t) PROVE [Session!Next]_(Session!svars)
    <2>1. (pc'["user"] \in {"close_cancel", "close_join"})
             = (pc["user"] \in {"close_cancel", "close_join"})
      BY <1>9 DEF CloseReset, Goto, Return, StreamInv, TypeOK, Thread
    <2>2. UNCHANGED <<opened, receive_thread, stats, reported, fault>>
      BY <1>9 DEF CloseReset, seen
    <2> QED
      BY <2>1, <2>2 DEF Session!svars, Phase, Running, joinable
  <1>10. CASE RxGood
    <2> DEFINE i == calls[opened].taken + 1
    <2>1. RxRead("good") /\ receive_thread = "read" /\ Running
      BY <1>10 DEF RxGood, RxRead
    <2>2. /\ opened \in CallId /\ subscribe_stream_rw = opened
          /\ i \in 1 .. MaxResponses
      BY <2>1, ReadOpen
    <2>3. \A q \in Taken : Earlier(q, <<opened, i>>)
      BY <2>1, ReadTaken
    <2>4. \A k \in 1 .. Len(stats) : stats[k] \in Taken
      BY DEF StreamInv, StatsExact
    <2>5. \A k \in 1 .. Len(stats) : stats[k][1] = opened => stats[k][2] < i
      BY <2>2, <2>3, <2>4 DEF Earlier, CallId
    <2>6. /\ stats' = Append(stats, <<opened, i>>)
          /\ receive_thread' = "success"
          /\ UNCHANGED <<opened, reported, pc>>
      BY <1>10, <2>2 DEF RxGood, StatsWith, CallHandler, impl
    <2>7. Session!Deliver(i)
      BY <2>1, <2>5, <2>6 DEF Session!Deliver, Phase, Running, joinable
    <2> QED
      BY <2>2, <2>7 DEF Session!Next
  <1>11. CASE RxBad
    BY <1>11 DEF RxBad, impl, seen, Session!svars, Phase, Running, joinable
  <1>12. CASE RxFatal
    <2>1. Session!Crash
      BY <1>12 DEF RxFatal, RxRead, Session!Crash, Phase, Running, joinable, impl, seen
    <2> QED
      BY <2>1 DEF Session!Next
  <1>13. CASE RxSuccessReturn
    BY <1>13 DEF RxSuccessReturn, RxRead, impl, seen, Session!svars, Phase, Running, joinable
  <1>14. CASE RxReadEnd
    BY <1>14 DEF RxReadEnd, impl, seen, Session!svars, Phase, Running, joinable
  <1>15. CASE RxLock
    BY <1>15 DEF RxLock, seen, Session!svars, Phase, Running, joinable
  <1>16. CASE RxFinish
    <2>1. /\ opened \in CallId /\ subscribe_stream_rw = opened
          /\ receive_thread = "finish" /\ Running
          /\ UNCHANGED <<opened, stats, pc>>
      BY <1>16, FinishOpen DEF RxFinish
    <2>2. CASE Failure(opened)
      <3>1. /\ reported' = [reported EXCEPT ![opened] = reported[opened] + 1]
            /\ receive_thread' = "failed"
        BY <1>16, <2>1, <2>2 DEF RxFinish, CallHandler
      <3>2. {c \in CallId : reported'[c] > 0}
              = {c \in CallId : reported[c] > 0} \cup {opened}
        BY <2>1, <3>1 DEF StreamInv, TypeOK
      <3>3. Session!Over
        BY <2>1, <3>1, <3>2 DEF Session!Over, Phase, Running, joinable
      <3> QED
        BY <3>3 DEF Session!Next
    <2>3. CASE ~Failure(opened)
      <3>1. UNCHANGED <<reported, fault>> /\ receive_thread' = "done"
        BY <1>16, <2>1, <2>3 DEF RxFinish
      <3>2. Session!Over
        BY <2>1, <3>1 DEF Session!Over, Phase, Running, joinable
      <3> QED
        BY <3>2 DEF Session!Next
    <2> QED
      BY <2>2, <2>3
  <1>17. CASE RxFailedReturn
    BY <1>17 DEF RxFailedReturn, seen, Session!svars, Phase, Running, joinable
  <1>18. ASSUME NEW c \in CallId, Respond(c) PROVE [Session!Next]_(Session!svars)
    BY <1>18 DEF Respond, client, Session!svars, Phase, Running, joinable
  <1>19. ASSUME NEW c \in CallId, End(c) PROVE [Session!Next]_(Session!svars)
    BY <1>19 DEF End, client, Session!svars, Phase, Running, joinable
  <1>20. CASE UNCHANGED vars
    BY <1>20 DEF vars, Session!svars, Phase, Running, joinable
  <1> QED
    BY <1>1, <1>2, <1>3, <1>4, <1>5, <1>6, <1>7, <1>8, <1>9, <1>10,
       <1>11, <1>12, <1>13, <1>14, <1>15, <1>16, <1>17, <1>18, <1>19, <1>20
    DEF Next, Api, Receive, Stopped

(* The threads, the mutex and the calls implement the sessions that        *)
(* StreamSession describes, up to progress.                                *)
THEOREM StreamImplementsSession == Spec => StreamSafe
<1>1. Spec => []StreamInv
  BY Invariance
<1> QED
  BY <1>1, SessionInit, SessionStep, PTL DEF Spec, StreamSafe, Session!Spec

=============================================================================
