--------------------------- MODULE GrpcCallProofs ---------------------------
(***************************************************************************)
(* What each operation of GrpcCall does to the record of its call, field   *)
(* by field, and that it changes no other call.                            *)
(***************************************************************************)
EXTENDS GrpcCall, TLAPS

OthersSame(c) == \A d \in CallId \ {c} : calls'[d] = calls[d]

StatusKept == \A d \in CallId : /\ calls'[d].state = calls[d].state
                               /\ calls'[d].status = calls[d].status
DataKept   == \A d \in CallId : /\ calls'[d].sent = calls[d].sent
                               /\ calls'[d].taken = calls[d].taken
FinishKept == \A d \in CallId : calls'[d].finished = calls[d].finished
CancelKept == \A d \in CallId : calls'[d].cancelled = calls[d].cancelled

(* The types of the fields of a call. *)
LEMMA FieldTypes ==
  ASSUME calls \in [CallId -> Call], NEW c \in CallId
  PROVE  /\ calls[c].taken \in Nat
         /\ calls[c].sent \in Seq(Kinds)
         /\ Len(calls[c].sent) \in Nat
         /\ calls[c].finished \in BOOLEAN
         /\ calls[c].cancelled \in BOOLEAN
         /\ calls[c].status \in Status \cup {"none"}
<1>1. calls[c] \in Call
  OBVIOUS
<1> QED
  BY <1>1 DEF Call

(* Opening a call changes only its state. *)
LEMMA SubscribeEffect ==
  ASSUME NEW c \in CallId, calls \in [CallId -> Call],
         Subscribe(c)
  PROVE  /\ calls' \in [CallId -> Call]
         /\ OthersSame(c)
         /\ calls'[c].state = "open"
         /\ DataKept /\ FinishKept /\ CancelKept
<1>1. calls[c] \in Call
  OBVIOUS
<1>2. [calls[c] EXCEPT !.state = "open"] \in Call
  BY <1>1 DEF Call
<1>3. calls' = [calls EXCEPT ![c] = [calls[c] EXCEPT !.state = "open"]]
  BY <1>1 DEF Subscribe, Call
<1>4. calls' \in [CallId -> Call] /\ OthersSame(c)
  BY <1>2, <1>3 DEF OthersSame
<1>5. calls'[c] = [calls[c] EXCEPT !.state = "open"]
  BY <1>2, <1>3
<1> QED
  BY <1>1, <1>4, <1>5
  DEF DataKept, FinishKept, CancelKept, OthersSame, Call

(* A Write changes only whether the server has a request. *)
LEMMA WriteEffect ==
  ASSUME NEW c \in CallId, NEW ok \in BOOLEAN, calls \in [CallId -> Call],
         Write(c, ok)
  PROVE  /\ calls' \in [CallId -> Call]
         /\ OthersSame(c)
         /\ StatusKept /\ DataKept /\ FinishKept /\ CancelKept
<1>1. calls[c] \in Call
  OBVIOUS
<1>2. [calls[c] EXCEPT !.requested = calls[c].requested \/ ok] \in Call
  BY <1>1 DEF Call
<1>3. calls' = [calls EXCEPT ![c] = [calls[c] EXCEPT !.requested = calls[c].requested \/ ok]]
  BY <1>1 DEF Write, Call
<1>4. calls' \in [CallId -> Call] /\ OthersSame(c)
  BY <1>2, <1>3 DEF OthersSame
<1>5. calls'[c] = [calls[c] EXCEPT !.requested = calls[c].requested \/ ok]
  BY <1>2, <1>3
<1> QED
  BY <1>1, <1>4, <1>5
  DEF StatusKept, DataKept, FinishKept, CancelKept, OthersSame, Call

(* TryCancel changes only the mark that the call is cancelled. *)
LEMMA TryCancelEffect ==
  ASSUME NEW c \in CallId, calls \in [CallId -> Call],
         TryCancel(c)
  PROVE  /\ calls' \in [CallId -> Call]
         /\ OthersSame(c)
         /\ calls'[c].cancelled
         /\ StatusKept /\ DataKept /\ FinishKept
<1>1. calls[c] \in Call
  OBVIOUS
<1>2. [calls[c] EXCEPT !.cancelled = TRUE] \in Call
  BY <1>1 DEF Call
<1>3. calls' = [calls EXCEPT ![c] = [calls[c] EXCEPT !.cancelled = TRUE]]
  BY <1>1 DEF TryCancel, Call
<1>4. calls' \in [CallId -> Call] /\ OthersSame(c)
  BY <1>2, <1>3 DEF OthersSame
<1>5. calls'[c] = [calls[c] EXCEPT !.cancelled = TRUE]
  BY <1>2, <1>3
<1> QED
  BY <1>1, <1>4, <1>5
  DEF StatusKept, DataKept, FinishKept, OthersSame, Call

(* Read takes one response. *)
LEMMA ReadEffect ==
  ASSUME NEW c \in CallId, calls \in [CallId -> Call],
         Read(c)
  PROVE  /\ calls' \in [CallId -> Call]
         /\ OthersSame(c)
         /\ calls'[c].taken = calls[c].taken + 1
         /\ \A d \in CallId : calls'[d].sent = calls[d].sent
         /\ StatusKept /\ FinishKept /\ CancelKept
<1>1. calls[c] \in Call
  OBVIOUS
<1>2. [calls[c] EXCEPT !.taken = calls[c].taken + 1] \in Call
  <2>1. calls[c].taken + 1 \in Nat
    BY <1>1 DEF Call
  <2>2. \A x \in Nat : [calls[c] EXCEPT !.taken = x] \in Call
    BY <1>1 DEF Call
  <2> QED
    BY <2>1, <2>2
<1>3. calls' = [calls EXCEPT ![c] = [calls[c] EXCEPT !.taken = calls[c].taken + 1]]
  BY <1>1 DEF Read, Call
<1>4. calls' \in [CallId -> Call] /\ OthersSame(c)
  BY <1>2, <1>3 DEF OthersSame
<1>5. calls'[c] = [calls[c] EXCEPT !.taken = calls[c].taken + 1]
  BY <1>2, <1>3
<1> QED
  BY <1>1, <1>4, <1>5
  DEF StatusKept, FinishKept, CancelKept, OthersSame, Call

(* Finish changes only the mark that the call is finished. *)
LEMMA FinishEffect ==
  ASSUME NEW c \in CallId, calls \in [CallId -> Call],
         Finish(c)
  PROVE  /\ calls' \in [CallId -> Call]
         /\ OthersSame(c)
         /\ calls'[c].finished
         /\ StatusKept /\ DataKept /\ CancelKept
<1>1. calls[c] \in Call
  OBVIOUS
<1>2. [calls[c] EXCEPT !.finished = TRUE] \in Call
  BY <1>1 DEF Call
<1>3. calls' = [calls EXCEPT ![c] = [calls[c] EXCEPT !.finished = TRUE]]
  BY <1>1 DEF Finish, Call
<1>4. calls' \in [CallId -> Call] /\ OthersSame(c)
  BY <1>2, <1>3 DEF OthersSame
<1>5. calls'[c] = [calls[c] EXCEPT !.finished = TRUE]
  BY <1>2, <1>3
<1> QED
  BY <1>1, <1>4, <1>5
  DEF StatusKept, DataKept, CancelKept, OthersSame, Call

(* A response is appended to those that were sent. *)
LEMMA RespondEffect ==
  ASSUME NEW c \in CallId, NEW k \in Kinds, calls \in [CallId -> Call],
         ServerRespond(c, k)
  PROVE  /\ calls' \in [CallId -> Call]
         /\ OthersSame(c)
         /\ calls'[c].sent = Append(calls[c].sent, k)
         /\ \A d \in CallId : calls'[d].taken = calls[d].taken
         /\ StatusKept /\ FinishKept /\ CancelKept
<1>1. calls[c] \in Call
  OBVIOUS
<1>2. [calls[c] EXCEPT !.sent = Append(calls[c].sent, k)] \in Call
  <2>1. Append(calls[c].sent, k) \in Seq(Kinds)
    BY <1>1 DEF Call
  <2>2. \A x \in Seq(Kinds) : [calls[c] EXCEPT !.sent = x] \in Call
    BY <1>1 DEF Call
  <2> QED
    BY <2>1, <2>2
<1>3. calls' = [calls EXCEPT ![c] = [calls[c] EXCEPT !.sent = Append(calls[c].sent, k)]]
  BY <1>1 DEF ServerRespond, Call
<1>4. calls' \in [CallId -> Call] /\ OthersSame(c)
  BY <1>2, <1>3 DEF OthersSame
<1>5. calls'[c] = [calls[c] EXCEPT !.sent = Append(calls[c].sent, k)]
  BY <1>2, <1>3
<1> QED
  BY <1>1, <1>4, <1>5
  DEF StatusKept, FinishKept, CancelKept, OthersSame, Call

(* The end of a call gives it a status. *)
LEMMA EndEffect ==
  ASSUME NEW c \in CallId, NEW s \in Status, calls \in [CallId -> Call],
         CallEnd(c, s)
  PROVE  /\ calls' \in [CallId -> Call]
         /\ OthersSame(c)
         /\ calls'[c].state = "ended" /\ calls'[c].status = s
         /\ DataKept /\ FinishKept /\ CancelKept
<1>1. calls[c] \in Call
  OBVIOUS
<1>2. [calls[c] EXCEPT !.state = "ended", !.status = s] \in Call
  BY <1>1 DEF Call
<1>3. calls' = [calls EXCEPT ![c] = [calls[c] EXCEPT !.state = "ended", !.status = s]]
  BY <1>1 DEF CallEnd, Call
<1>4. calls' \in [CallId -> Call] /\ OthersSame(c)
  BY <1>2, <1>3 DEF OthersSame
<1>5. calls'[c] = [calls[c] EXCEPT !.state = "ended", !.status = s]
  BY <1>2, <1>3
<1> QED
  BY <1>1, <1>4, <1>5
  DEF DataKept, FinishKept, CancelKept, OthersSame, Call

=============================================================================
