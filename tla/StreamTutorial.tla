--------------------------- MODULE StreamTutorial ---------------------------
(***************************************************************************)
(* mgbl_api_pbr_stream_tutorial.cpp: the handlers push events on a deque   *)
(* under queue_mtx; main registers twice, waits on the condition variable  *)
(* for an event, and closes, retries or leaves.                            *)
(***************************************************************************)
EXTENDS StreamApplication

VARIABLE my_deque   \* the events <<call, what>>; "call" is for the properties

tvars == <<avars, my_deque>>

Event == CallId \X ({"limit"} \cup ErrorStatus)

TutorialTypeOK == ApplicationTypeOK /\ my_deque \in Seq(Event)

TutorialInit ==
  /\ ApplicationInit /\ program = "tutorial"
  /\ my_deque = << >>

-----------------------------------------------------------------------------
(* The head of the loop and its first registration ... *)
RegisterFirst ==
  /\ at = "loop" /\ count_retry < RetryStream
  /\ Register("first")
  /\ UNCHANGED my_deque

(* ... the second, another request on the same stream ... *)
RegisterSecond ==
  /\ at = "first" /\ Register("wait")
  /\ UNCHANGED my_deque

(* ... and the wait for an event, with what main does next.  Mutant: a     *)
(* stream opened again after the last response. *)
AfterEventRestart(what) == IF what = "limit" THEN "retry" ELSE "quit"
AfterEvent(what) ==
  CASE what = "limit"                              -> "leave"
    [] what \in {"UNAVAILABLE", "UNAUTHENTICATED"} -> "retry"
    [] OTHER                                       -> "quit"

TakeEvent ==
  /\ Running /\ at = "wait" /\ pc["user"] = "idle"
  /\ my_deque # << >>
  /\ at' = AfterEvent(Head(my_deque)[2])
  /\ my_deque' = Tail(my_deque)
  /\ UNCHANGED <<vars, program, retry_count, count, count_retry, locals,
                 dangling>>

CloseStream ==
  /\ \/ at = "retry" /\ Close("retried")
     \/ at = "quit"  /\ Close("left")
  /\ UNCHANGED my_deque

(* Mutant: the retry not counted. *)
RetriedUncounted == count_retry
Retried          == count_retry + 1

StreamClosed ==
  /\ Running /\ pc["user"] = "idle"
  /\ \/ at = "retried" /\ count_retry' = Retried /\ at' = "loop"
     \/ at = "left" /\ at' = "leave" /\ UNCHANGED count_retry
  /\ UNCHANGED <<vars, my_deque, program, retry_count, count, locals,
                 dangling>>

-----------------------------------------------------------------------------
(* The bodies of the handlers, up to their return. *)
PushIf(test, what) ==
  my_deque' = IF locals /\ test
                THEN Append(my_deque, <<subscribe_stream_rw, what>>)
                ELSE my_deque

SuccessHandler ==
  /\ RxSuccessReturn
  /\ Counted
  /\ PushIf(Reached(count + 1), "limit")
  /\ UNCHANGED main

FailedHandler ==
  /\ RxFailedReturn
  /\ FailureSeen
  /\ LET status == calls[subscribe_stream_rw].status IN
       PushIf(NotOk(status), status)
  /\ UNCHANGED main

-----------------------------------------------------------------------------
MainStep == \/ RegisterFirst \/ RegisterSecond
            \/ TakeEvent \/ CloseStream \/ StreamClosed
            \/ CommonStep /\ UNCHANGED my_deque

LibraryStep == (ClientStep \/ ReceiveStep) /\ UNCHANGED my_deque

Deadline(c) == CallOver(c) /\ UNCHANGED my_deque

TutorialNext ==
  \/ MainStep \/ LibraryStep \/ SuccessHandler \/ FailedHandler
  \/ \E c \in CallId : (Answer(c) /\ UNCHANGED my_deque) \/ Deadline(c)

(* Each thread runs, and each call ends: main sets a deadline for it.      *)
TutorialFairness ==
  /\ WF_tvars(MainStep)
  /\ WF_tvars(ClientStep /\ UNCHANGED my_deque)
  /\ WF_tvars(ReceiveStep /\ UNCHANGED my_deque)
  /\ WF_tvars(SuccessHandler) /\ WF_tvars(FailedHandler)
  /\ \A c \in CallId : WF_tvars(Deadline(c))

TutorialSpec == TutorialInit /\ [][TutorialNext]_tvars /\ TutorialFairness

-----------------------------------------------------------------------------
(* main never takes an event of an earlier stream for one of the stream it *)
(* has just registered: when it goes on to another stream, the event it    *)
(* took was the last.                                                      *)
EventsOfThisStream ==
  at \in {"loop", "first", "wait"} =>
    \A n \in 1 .. Len(my_deque) : at # "loop" /\ my_deque[n][1] = opened

(* When main waits and there is no event, one may still come: the limit is *)
(* not reached, and if the receive thread has ended the stream was ended   *)
(* without an error, for which no handler is called.                       *)
WaitsForAnEvent ==
  at = "wait" /\ my_deque = << >> =>
    /\ ~(receive_thread = "read" /\ count >= ResponseLimit)
    /\ receive_thread = "done" => calls[opened].status \notin ErrorStatus

(* The handlers outlive the locals they refer to only if main left the     *)
(* loop because of the limit, without closing the stream (line 290).       *)
DanglingAfterLimit ==
  program = "tutorial" /\ dangling => count >= ResponseLimit

(* An inductive strengthening.  Where main is, and the stream it is about; *)
(* the event of a failure comes last, when the receive thread has ended,   *)
(* and the limit is reached when its first event is in the deque.          *)
TutorialPlace ==
  /\ program = "tutorial"
  /\ at \notin {"again", "registered", "await", "closed"}
  /\ at = "loop"  => pc["user"] = "idle" /\ ~joinable /\ opened = count_retry
  /\ at = "first" => \/ pc["user"] = "open" /\ ~joinable /\ opened = count_retry
                     \/ /\ pc["user"] \in {"reg_lock", "write", "idle"}
                        /\ joinable /\ opened = count_retry + 1
  /\ at = "wait"  => /\ pc["user"] \in {"reg_lock", "write", "idle"}
                     /\ joinable /\ opened = count_retry + 1
  /\ at = "retry" => pc["user"] = "idle" /\ opened = count_retry + 1
  /\ at = "quit"  => pc["user"] = "idle"
  /\ at = "retried" => opened = count_retry + 1
  /\ at \in {"retry", "retried"} => receive_thread \in {"none", "done"}
  /\ at \in {"retried", "left"} => Closes /\ (pc["user"] = "idle" => ~joinable)

QueueInv ==
  /\ at \in {"connect", "set", "loop", "retry", "retried"} => my_deque = << >>
  /\ at = "first" /\ pc["user"] = "open" => my_deque = << >>
  /\ at \in {"first", "wait"} =>
       /\ \A n \in 1 .. Len(my_deque) :
            /\ my_deque[n][1] = opened
            /\ my_deque[n][2] = "limit" => count >= ResponseLimit
            /\ my_deque[n][2] # "limit" => n = Len(my_deque) /\ receive_thread = "done"
       /\ count >= ResponseLimit => my_deque # << >> /\ Head(my_deque)[2] = "limit"
       /\ receive_thread = "done" /\ calls[opened].status \in ErrorStatus
            => my_deque # << >>
  /\ at \in {"connect", "set", "loop", "retry", "retried"} => count < ResponseLimit

LeaveInv ==
  /\ at \in {"leave", "destroy", "return"} /\ joinable => count >= ResponseLimit
  /\ dangling => count >= ResponseLimit

TutorialInv ==
  StreamInv /\ TutorialTypeOK /\ ReadyInv /\ TutorialPlace /\ QueueInv /\ LeaveInv

(* The tutorial comes to its end, unless a stream ends in silence, with a  *)
(* status that is not an error, before main has closed it.                 *)
TutorialEnds ==
  program = "tutorial" => <>(SilentEnd \/ ~Running \/ Returned)

=============================================================================
