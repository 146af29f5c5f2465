--------------------------- MODULE OnceApplication ---------------------------
(***************************************************************************)
(* The programs that make ONCE subscriptions, over SubscribeOnce step by   *)
(* step: the once tutorial, which retries a call that failed, the testing  *)
(* tool without its stream option, which makes one call, and any other     *)
(* program that makes one call after another, with any arguments, and goes *)
(* on after an exception.                                                  *)
(*                                                                         *)
(* The two programs of the repository have PBR counters, and the tutorial  *)
(* has credentials too: its branch for CLIENT_TYPE_FAILURE is never taken. *)
(* Neither program catches an exception.                                   *)
(***************************************************************************)
EXTENDS SubscribeOnce

VARIABLES
  program,   \* which of the programs runs
  at,        \* where main is, outside rpc_register_stats_once
  printed    \* the lists main has printed, <<call, list>>, oldest first

main  == <<program, at, printed>>
ovars == <<vars, main>>

OnceTypeOK ==
  /\ TypeOK
  /\ program \in {"tutorial", "tool", "other"}
  /\ at \in {"connect", "call", "called", "retry", "retried", "return"}
  /\ printed \in Seq(CallId \X Seq(CallId \X Nat))

OnceInit ==
  /\ Init
  /\ program \in {"tutorial", "tool", "other"}
  /\ program # "other" => interface = "pbr"
  /\ at = "connect"
  /\ printed = << >>

Library == program # "other"   \* one of the repository's programs

-----------------------------------------------------------------------------
Uncaught == Library /\ \E c \in CallId : returned[c] = "exception"

(* Back from the call, with an error code. *)
Answered == pc = "idle" /\ ~Uncaught
Success  == ~refused /\ returned[opened] = "SUCCESS"

(* wait_for_grpc_server_connection; without a connection main returns. *)
Connect ==
  /\ Library /\ at = "connect"
  /\ at' \in {"call", "return"}
  /\ UNCHANGED <<vars, program, printed>>

(* The arguments main gives: the tutorial's has all that is needed, the    *)
(* tool's come from the command line.  Mutant: a tutorial without the      *)
(* deadline that its comment recommends. *)
DeadlinesAny(prog) == BOOLEAN
Deadlines(prog)    == IF prog = "tutorial" THEN {TRUE} ELSE BOOLEAN
Credentials(prog)  == IF prog = "tutorial" THEN {TRUE} ELSE BOOLEAN

CallOnce ==
  /\ Library
  /\ \/ at = "call"  /\ at' = "called"
     \/ at = "retry" /\ at' = "retried"
  /\ \E credentials \in Credentials(program), deadline \in Deadlines(program) :
       RefuseOnce(credentials) \/ OpenOnce(credentials, deadline)
  /\ UNCHANGED <<program, printed>>

PrintList(list) == printed' = Append(printed, <<opened, list>>)

(* The first answer: main prints a copy of the counters, or calls again    *)
(* for one of three statuses, or gives up. *)
Retryable == {"DEADLINE_EXCEEDED", "UNAVAILABLE", "UNAUTHENTICATED"}

PrintStats ==
  /\ at = "called" /\ Answered /\ Success
  /\ PrintList(stats)
  /\ at' = "return"
  /\ UNCHANGED <<vars, program>>

CallFailed ==
  /\ at = "called" /\ Answered /\ ~Success
  /\ at' = IF program = "tutorial" /\ calls[opened].status \in Retryable
             THEN "retry" ELSE "return"
  /\ UNCHANGED <<vars, program, printed>>

(* The second answer: main prints retry_once, a vector of its own that     *)
(* nothing was put in.  Mutant: the counters printed, as the first time.   *)
RetryOnceStats(s) == s
RetryOnce(s)      == << >>

Retried ==
  /\ at = "retried" /\ Answered
  /\ IF Success THEN PrintList(RetryOnce(stats)) ELSE UNCHANGED printed
  /\ at' = "return"
  /\ UNCHANGED <<vars, program>>

MainStep == Connect \/ CallOnce \/ PrintStats \/ CallFailed \/ Retried

(* The program has returned or was terminated. *)
Ended == (at = "return" \/ Uncaught) /\ UNCHANGED ovars

OnceNext ==
  \/ program = "other" /\ Next /\ UNCHANGED main
  \/ MainStep
  \/ Library /\ Once /\ UNCHANGED main
  \/ Library /\ (\E c \in CallId : Respond(c) \/ End(c)) /\ UNCHANGED main
  \/ Ended

(* main and the function it calls run; a call with a deadline ends.        *)
OnceFairness ==
  /\ WF_ovars(MainStep)
  /\ WF_ovars(Once /\ UNCHANGED main)
  /\ \A c \in CallId : WF_ovars(has_deadline[c] /\ End(c) /\ UNCHANGED main)

OnceSpec == OnceInit /\ [][OnceNext]_ovars /\ OnceFairness

-----------------------------------------------------------------------------
(* Nothing incomplete is ever printed: what a call received before it      *)
(* failed stays in stats, but main prints only the answer to a call that   *)
(* returned SUCCESS, each of its good responses in order.  (After a retry  *)
(* the code prints an empty list instead: RetryPrinted is about that.)     *)
IsAnswer(list, c) ==
  /\ {list[n] : n \in 1 .. Len(list)} =
       {<<c, k>> : k \in {k \in 1 .. Len(calls[c].sent) : calls[c].sent[k] = "good"}}
  /\ \A n, m \in 1 .. Len(list) : n < m => Earlier(list[n], list[m])

PrintedComplete ==
  \A n \in 1 .. Len(printed) :
    LET c    == printed[n][1]
        list == printed[n][2]
    IN  /\ returned[c] = "SUCCESS"
        /\ IsAnswer(list, c) \/ (c > 1 /\ list = << >>)

(* What makes it so: main has called no more often than its place says,    *)
(* and the first list it prints holds nothing of an earlier call.          *)
PlaceInv ==
  /\ ~Library => at = "connect" /\ printed = << >>
  /\ Library => interface = "pbr"
  /\ Library /\ at \in {"connect", "call"} => opened = NoCall /\ pc = "idle"
  /\ at = "called" => opened = 1 \/ (opened = NoCall /\ refused /\ program = "tool")
  /\ at = "retry" => opened = 1 /\ pc = "idle"
  /\ at = "retried" => opened = 2
  /\ at \in {"retry", "retried"} => program = "tutorial"

PrintedInv == OnceInv /\ OnceTypeOK /\ PlaceInv /\ PrintedComplete

(* mgbl_api_pbr_once_tutorial.cpp:61: the responses are printed on         *)
(* SUCCESS, those of the retry like those of the first call.               *)
RetryPrinted ==
  \A n \in 1 .. Len(printed) : IsAnswer(printed[n][2], printed[n][1])

(* A program that gave its call a deadline comes to an end, whatever the   *)
(* server does, in its retry as well: it returns, or an exception ends it. *)
OnceEnds ==
  program = "tutorial" \/ (program = "tool" /\ opened # NoCall /\ set_deadline[opened])
    ~> at = "return" \/ Uncaught

=============================================================================
