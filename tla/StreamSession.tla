---------------------------- MODULE StreamSession ----------------------------
(***************************************************************************)
(* What the streaming interface of GnmiClient promises to an application,  *)
(* without threads, locks or gRPC: the sequence of sessions that           *)
(* rpc_register_stats_stream opens and rpc_stream_close closes.            *)
(*                                                                         *)
(* Within a session counters are delivered; the session is over at most    *)
(* once, perhaps with a failure that is then reported; nothing is          *)
(* delivered after that, and a new session starts only when the old one    *)
(* is over and closed.  Once the application has asked for the close the   *)
(* session will be over and closed.                                        *)
(***************************************************************************)
EXTENDS Naturals, Sequences

CONSTANTS
  Sessions,  \* the identities of the sessions: 1 .. n, in order
  Indexes    \* the positions a response may have in a session

VARIABLES
  session,   \* the last session opened, 0 at first
  phase,     \* "closed", "streaming" or "over"
  closing,   \* the application waits for the close
  stats,     \* the deliveries <<session, index>>, oldest first
  failures,  \* the sessions whose failure was reported, oldest first
  running    \* the process has not been terminated

svars == <<session, phase, closing, stats, failures, running>>

Init ==
  /\ session = 0
  /\ phase = "closed"
  /\ closing = FALSE
  /\ stats = << >>
  /\ failures = {}
  /\ running = TRUE

Open ==
  /\ running /\ phase = "closed"
  /\ session + 1 \in Sessions
  /\ session' = session + 1
  /\ phase' = "streaming"
  /\ UNCHANGED <<closing, stats, failures, running>>

(* A delivery or a report ends in the termination of the process when the  *)
(* handler for it is missing. *)
Deliver(i) ==
  /\ running /\ phase = "streaming"
  /\ \A k \in 1 .. Len(stats) : stats[k][1] = session => stats[k][2] < i
  /\ stats' = Append(stats, <<session, i>>)
  /\ running' \in BOOLEAN
  /\ UNCHANGED <<session, phase, closing, failures>>

Over ==
  /\ running /\ phase = "streaming"
  /\ phase' = "over"
  /\ \/ UNCHANGED <<failures, running>>
     \/ /\ failures' = failures \cup {session}
        /\ running' \in BOOLEAN
  /\ UNCHANGED <<session, closing, stats>>

AskClose ==
  /\ running /\ phase # "closed" /\ ~closing
  /\ closing' = TRUE
  /\ UNCHANGED <<session, phase, stats, failures, running>>

Close ==
  /\ running /\ phase = "over" /\ closing
  /\ phase' = "closed"
  /\ closing' = FALSE
  /\ UNCHANGED <<session, stats, failures, running>>

(* A handler, or a response that cannot be parsed, takes the process down. *)
Crash ==
  /\ running /\ phase # "closed"
  /\ running' = FALSE
  /\ UNCHANGED <<session, phase, closing, stats, failures>>

Next ==
  \/ Open \/ Over \/ AskClose \/ Close \/ Crash
  \/ \E i \in Indexes : Deliver(i)

Spec == Init /\ [][Next]_svars

(* A session that the application wants closed will be over and closed.    *)
Progress == WF_svars(closing /\ Over) /\ WF_svars(Close)

=============================================================================
