------------------------------ MODULE GrpcCall ------------------------------
(***************************************************************************)
(* The gRPC Subscribe call as the client library sees it: what             *)
(* grpc::ClientContext and grpc::ClientReaderWriter let a caller do, and   *)
(* what the server and the network may do meanwhile.  gRPC itself is not   *)
(* part of the repository; this module is the environment of GnmiStream    *)
(* and is written from the way mgbl_api.cpp uses these classes.            *)
(*                                                                         *)
(* A response is abstracted to its kind, the outcome check_response gives  *)
(* for it: "good" (SUCCESS), "bad" (an internal_error_code other than      *)
(* SUCCESS) or "fatal" (an exception leaves check_response).  The i-th     *)
(* response of call c is identified by the pair <<c, i>>.                  *)
(***************************************************************************)
EXTENDS Naturals, Sequences

CONSTANTS
  MaxCalls,      \* bound: Subscribe calls a client opens in its life
  MaxResponses,  \* bound: responses the server sends on one call
  Kinds,         \* kinds of response the server may send
  ErrorStatus    \* the grpc::StatusCodes other than OK and CANCELLED

ASSUME GrpcAssumption ==
  /\ MaxCalls \in Nat
  /\ MaxResponses \in Nat
  /\ Kinds \subseteq {"good", "bad", "fatal"}
  /\ {"OK", "CANCELLED", "none"} \cap ErrorStatus = {}

CallId == 1 .. MaxCalls
NoCall == 0                          \* a null shared_ptr
Status == {"OK", "CANCELLED"} \cup ErrorStatus

Call == [state     : {"unused", "open", "ended"},
         status    : Status \cup {"none"},
         sent      : Seq(Kinds),     \* responses, in the order sent
         taken     : Nat,            \* how many of them Read has returned
         requested : BOOLEAN,        \* some Write succeeded
         cancelled : BOOLEAN,        \* TryCancel was called
         finished  : BOOLEAN]        \* WritesDone and Finish were called

UnusedCall == [state |-> "unused", status |-> "none", sent |-> << >>,
               taken |-> 0, requested |-> FALSE, cancelled |-> FALSE,
               finished |-> FALSE]

VARIABLE calls

CallsInit == calls = [c \in CallId |-> UnusedCall]

-----------------------------------------------------------------------------
(* What the client does with a call. *)

Subscribe(c) == calls' = [calls EXCEPT ![c].state = "open"]

(* A Write fails once the call is over; after TryCancel it may fail.       *)
WriteOutcomes(c) ==
  IF calls[c].state = "ended" \/ calls[c].finished THEN {FALSE}
  ELSE IF calls[c].cancelled THEN BOOLEAN ELSE {TRUE}

Write(c, ok) == calls' = [calls EXCEPT ![c].requested = @ \/ ok]

TryCancel(c) == calls' = [calls EXCEPT ![c].cancelled = TRUE]

Readable(c) == calls[c].taken < Len(calls[c].sent)

Read(c) == calls' = [calls EXCEPT ![c].taken = @ + 1]

(* Read returns false when the call is over.  With status OK every         *)
(* response has been read by then; otherwise unread ones may be dropped.   *)
ReadFails(c) ==
  /\ calls[c].state = "ended"
  /\ calls[c].status = "OK" => ~Readable(c)

Finish(c) == calls' = [calls EXCEPT ![c].finished = TRUE]

-----------------------------------------------------------------------------
(* What the server and the network do. *)

(* The server answers a subscription it has received. *)
ServerRespond(c, k) ==
  /\ calls[c].state = "open" /\ calls[c].requested
  /\ Len(calls[c].sent) < MaxResponses
  /\ calls' = [calls EXCEPT ![c].sent = Append(@, k)]

(* The call ends: the server closes it, the deadline passes, the channel   *)
(* breaks, or a cancellation takes effect.  A cancellation may lose the    *)
(* race against any of the others.                                         *)
CallEnd(c, s) ==
  /\ calls[c].state = "open"
  /\ calls' = [calls EXCEPT ![c].state = "ended", ![c].status = s]

=============================================================================
