---------------------------- MODULE SubscribeOnce ----------------------------
(***************************************************************************)
(* GnmiClient::rpc_register_stats_once: one Subscribe call made, read to   *)
(* its end and finished in the thread of the caller.  It takes no lock and *)
(* shares nothing with the streaming half but the counters object, so only *)
(* the server and the network run beside it.                               *)
(*                                                                         *)
(* The status a call returns is calls[c].status; an exception that leaves  *)
(* check_response leaves this function too and reaches its caller.         *)
(***************************************************************************)
EXTENDS GrpcCall

VARIABLES
  interface,     \* interface->name() of the counters object
  pc,            \* where the caller is in rpc_register_stats_once
  opened,        \* the calls opened so far; the current one is "opened"
  set_deadline,  \* context_args.set_deadline of each call
  has_deadline,  \* whether the context of each call has a deadline
  stats,         \* the responses add_stats has stored, oldest first
  returned,      \* how the function returned for each call
  refused        \* it last returned without a call

vars == <<calls, interface, pc, opened, set_deadline, has_deadline, stats,
          returned, refused>>

Outcome == {"none", "SUCCESS", "RPC_FAILURE", "exception"}

TypeOK ==
  /\ calls \in [CallId -> Call]
  /\ interface \in {"pbr", "other"}
  /\ pc \in {"idle", "write", "read", "finish"}
  /\ opened \in CallId \cup {NoCall}
  /\ set_deadline \in [CallId -> BOOLEAN]
  /\ has_deadline \in [CallId -> BOOLEAN]
  /\ stats \in Seq(CallId \X Nat)
  /\ returned \in [CallId -> Outcome]
  /\ refused \in BOOLEAN

Init ==
  /\ CallsInit
  /\ interface \in {"pbr", "other"}
  /\ pc = "idle"
  /\ opened = NoCall
  /\ set_deadline = [c \in CallId |-> FALSE]
  /\ has_deadline = [c \in CallId |-> FALSE]
  /\ stats = << >>
  /\ returned = [c \in CallId |-> "none"]
  /\ refused = FALSE

-----------------------------------------------------------------------------
(* The wrong counters, or an empty user name or password: no call is made. *)
RefuseOnce(credentials) ==
  /\ pc = "idle"
  /\ interface # "pbr" \/ ~credentials
  /\ refused' = TRUE
  /\ UNCHANGED <<calls, interface, pc, opened, set_deadline, has_deadline,
                 stats, returned>>

(* Mutant: the deadline of the arguments not passed on. *)
ContextDeadlineUnset(deadline) == FALSE
ContextDeadline(deadline)      == deadline

OpenOnce(credentials, deadline) ==
  /\ pc = "idle"
  /\ interface = "pbr" /\ credentials
  /\ opened < MaxCalls
  /\ opened' = opened + 1
  /\ set_deadline' = [set_deadline EXCEPT ![opened'] = deadline]
  /\ has_deadline' = [has_deadline EXCEPT ![opened'] = ContextDeadline(deadline)]
  /\ Subscribe(opened')
  /\ pc' = "write"
  /\ refused' = FALSE
  /\ UNCHANGED <<interface, stats, returned>>

(* A Write that fails is logged, and the function goes on. *)
WriteOnce ==
  /\ pc = "write"
  /\ \E ok \in WriteOutcomes(opened) : Write(opened, ok)
  /\ pc' = "read"
  /\ UNCHANGED <<interface, opened, set_deadline, has_deadline, stats,
                 returned, refused>>

(* add_stats.  Mutant: the counters of a response that check_response      *)
(* rejected stored too. *)
StoreAny(kind, r) == Append(stats, r)
Store(kind, r)    == IF kind = "good" THEN Append(stats, r) ELSE stats

ReadOnce ==
  /\ pc = "read" /\ Readable(opened)
  /\ LET i == calls[opened].taken + 1
         kind == calls[opened].sent[i]
     IN  /\ Read(opened)
         /\ IF kind = "fatal"
              THEN /\ returned' = [returned EXCEPT ![opened] = "exception"]
                   /\ pc' = "idle"
                   /\ UNCHANGED stats
              ELSE /\ stats' = Store(kind, <<opened, i>>)
                   /\ UNCHANGED <<pc, returned>>
  /\ UNCHANGED <<interface, opened, set_deadline, has_deadline, refused>>

(* Read returns false.  Mutant: one Read that fails or finds nothing yet   *)
(* is taken for the end. *)
NoMoreEarly(c) == ~Readable(c)
NoMore(c)      == ReadFails(c)

EndReading ==
  /\ pc = "read" /\ NoMore(opened)
  /\ pc' = "finish"
  /\ UNCHANGED <<calls, interface, opened, set_deadline, has_deadline, stats,
                 returned, refused>>

(* Mutant: the grpc status returned as it is. *)
OnceCodeRaw(c) == calls[c].status
OnceCode(c)    == IF calls[c].status = "OK" THEN "SUCCESS" ELSE "RPC_FAILURE"

(* WritesDone, and Finish, which waits for the call to be over. *)
FinishOnce ==
  /\ pc = "finish" /\ calls[opened].state = "ended"
  /\ Finish(opened)
  /\ returned' = [returned EXCEPT ![opened] = OnceCode(opened)]
  /\ pc' = "idle"
  /\ UNCHANGED <<interface, opened, set_deadline, has_deadline, stats, refused>>

client == <<interface, pc, opened, set_deadline, has_deadline, stats,
            returned, refused>>

Respond(c) == \E k \in Kinds : ServerRespond(c, k) /\ UNCHANGED client

(* The context is destroyed with an exception; only then is a call of this *)
(* function cancelled by the client. *)
End(c) == \E s \in Status : CallEnd(c, s) /\ UNCHANGED client

Once == WriteOnce \/ ReadOnce \/ EndReading \/ FinishOnce

Next ==
  \/ \E credentials \in BOOLEAN : RefuseOnce(credentials)
  \/ \E credentials, deadline \in BOOLEAN : OpenOnce(credentials, deadline)
  \/ Once
  \/ \E c \in CallId : Respond(c) \/ End(c)

Spec == Init /\ [][Next]_vars

(* The caller goes on when it can; a call with a deadline ends.  A server  *)
(* is not obliged to end a ONCE subscription, nor the client to make one.  *)
Fairness ==
  /\ WF_vars(Once)
  /\ \A c \in CallId : WF_vars(has_deadline[c] /\ End(c))

FairSpec == Spec /\ Fairness

-----------------------------------------------------------------------------
StoredOf(c) == {k \in 1 .. MaxResponses :
                  \E n \in 1 .. Len(stats) : stats[n] = <<c, k>>}

(* SUCCESS means that nothing went wrong and nothing is missing: the call  *)
(* ended with OK and was finished, each response the server sent on it has *)
(* been read, and the good ones, and only they, are stored.                *)
SuccessIsComplete ==
  \A c \in CallId :
    returned[c] = "SUCCESS" =>
      /\ calls[c].finished /\ calls[c].status = "OK"
      /\ calls[c].taken = Len(calls[c].sent)
      /\ StoredOf(c) = {k \in 1 .. Len(calls[c].sent) : calls[c].sent[k] = "good"}

(* Whatever happens, an error or an exception included, what is stored is  *)
(* the good responses read, each once, in the order they were sent, a      *)
(* later call after an earlier one.                                        *)
Earlier(r, q) == r[1] < q[1] \/ (r[1] = q[1] /\ r[2] < q[2])

StoredInOrder ==
  /\ \A n, m \in 1 .. Len(stats) : n < m => Earlier(stats[n], stats[m])
  /\ \A c \in CallId :
       StoredOf(c) = {k \in 1 .. calls[c].taken : calls[c].sent[k] = "good"}

(* An inductive strengthening of the two.  A call is read no further than  *)
(* it was sent, and not before it was opened; a call that returned SUCCESS *)
(* is over, so that nothing is sent on it any more; what is stored was     *)
(* read, from a call that was opened.                                      *)
ProgressInv ==
  /\ pc # "idle" => opened # NoCall /\ returned[opened] = "none"
  /\ pc = "finish" => ReadFails(opened)
  /\ \A c \in CallId :
       /\ calls[c].taken <= Len(calls[c].sent)
       /\ Len(calls[c].sent) <= MaxResponses
       /\ c > opened => /\ calls[c].state = "unused" /\ calls[c].sent = << >>
                        /\ returned[c] = "none"
       /\ returned[c] = "SUCCESS" => calls[c].state = "ended"

StoredInv ==
  \A n \in 1 .. Len(stats) :
    stats[n][1] <= opened /\ stats[n][2] \in 1 .. calls[stats[n][1]].taken

OnceInv == /\ TypeOK /\ ProgressInv /\ StoredInv
           /\ SuccessIsComplete /\ StoredInOrder

(* A caller that asked for a deadline gets an answer, whatever the server  *)
(* does.                                                                   *)
DeadlineReturns ==
  \A c \in CallId : (opened = c /\ set_deadline[c]) ~> (pc = "idle")

=============================================================================
