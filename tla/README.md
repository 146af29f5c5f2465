# Verification of the gNMI client library (mgbl_api)

This directory holds TLA+ models of the client library in `mgbl_api/`, the TLC
configurations that check them on small instances, and proofs, checked by TLAPS, of
the properties that matter most for every instance. Paths below are relative to
the repository; `mgbl_api.cpp` is `mgbl_api/src/mgbl_api.cpp`.

## 1. The system

The library subscribes to policy-based-routing (PBR) counters of a router over
gNMI. An application creates a `gnmi_client_connection` (a gRPC channel), a
counters object (`PBRBasic`) and a `GnmiClient`, and then either makes a blocking
ONCE subscription or opens a STREAM whose responses arrive in a second thread.

| Component | State | Operations | Interacts with |
|---|---|---|---|
| GnmiClient, streaming (`mgbl_api.cpp:426-456, 563-696`) | `receive_thread`, `stream_context`, `subscribe_stream_rw`, `subscription_mode_stream_mtx`, the two handlers | `rpc_register_stats_stream`, `rpc_stream_close`, destructor, `set_*_handler`, the receive thread | gRPC (blocking calls), the application (calls and callbacks), the parser, the counters |
| GnmiClient, once (`mgbl_api.cpp:464-555`) | locals only | `rpc_register_stats_once` | gRPC, the parser, the counters |
| Response parsing (`mgbl_api.cpp:179-419`, `pbr/mgbl_pbr.cpp:38-89`) | locals carried over the loop on updates | `check_response`, `gnmi_parse_response`, the two decoders, `unordered_map_to_stats` | called for each response by both kinds of subscription |
| PBRBasic counters (`pbr/mgbl_pbr.h`) | `stats`, `keys` | `add_stats`, `get_gnmi_paths` | written by subscriptions, read by the application |
| logger_manager (`logger/logger.h`) | `logger_instance`, `mutex_` | `set_logger`, `log` | every thread |
| Subscribe request, path conversion (`mgbl_api.cpp:124-170`, `gnmi/mgbl_gnmi_helper.cpp`) | none | `subscribe_request_helper`, `string_to_gnmipath`, `gnmipath_to_string` | called by both kinds of subscription |
| gnmi_client_connection (`mgbl_api.cpp:48-115`) | `channel`, `creds` | constructor, `wait_for_grpc_server_connection` | the gRPC channel |
| Tutorials and testing tool (`examples/`, `test/testing_tool/`) | event deque, retry counters | retry loops around the client | the client |

What is hard in each, and what makes it correct:

* **Streaming.** Two threads share three members and one mutex that protects some
  accesses only; `joinable()` is read outside it. The order register / failure /
  close / register / destroy is free, a cancellation races with the server and the
  deadline, handlers run in the receive thread (the failed handler with the mutex
  held) and may call the API. Correct means: no access through a stale or null
  pointer, no two Writes and no Write during Finish, Finish after the last Read and
  once per call, a context that outlives its call, counters stored once each in
  order, each failure reported once, nothing running after close, and every call
  returns.
* **Once.** The server may fail, stop or answer badly at any point. Correct means
  that SUCCESS is only returned for a complete answer, that what is stored is what
  was received, and that a deadline bounds the wait.
* **Parsing.** Encoding and path are carried from one update to the next, JSON
  entries are `insert`ed (the first wins) and PROTO entries assigned (the last wins),
  and `stoull` wraps and throws. Correct means that counters and names are those
  a reading of the whole response gives.
* **Request.** Keys become text and the text is parsed again; the parser's errors are
  logged, not returned. Correct means that a sound key is asked for exactly and that
  a broken one does not disturb the others.
* **Stream tutorial.** Handlers in one thread, a deque and a condition variable, and a
  retry loop in the other. Correct means that no event is missed or taken for one of
  another stream, that every retry is a new stream, and that the program ends.
* **Testing tool.** Handlers in one thread leave a verdict in flags that are only partly
  locked, and main waits, closes and then reads them. Correct means that main wakes up
  for the stream it waits for, that the verdict it reads is the last one and about that
  stream, and that it ends.
* **Once tutorial.** One call and one retry on the same counters. Correct means that
  nothing incomplete is printed as an answer, and that the retry is bounded too.
* **Logger.** The singleton is shared by all threads. Correct means that the logger
  called exists.

`PROJECT.json` lists each hazard at its line, with the properties that cover it.

## 2. Modules

| Module | Models | Notes |
|---|---|---|
| `GrpcCall` | a Subscribe call as gRPC shows it to a client | external environment: lost responses, deadline, cancellation races, server and channel failures |
| `GnmiStream` | GnmiClient, streaming | `EXTENDS GrpcCall`; the core of the project |
| `StreamSession` | what streaming promises an application | abstract specification: sessions without threads, mutex or gRPC |
| `SubscribeOnce` | `rpc_register_stats_once` | `EXTENDS GrpcCall` |
| `OnceApplication` | `main` of the once tutorial, the once case of the testing tool, and any other program that makes one call after another | `EXTENDS SubscribeOnce` |
| `ResponseParsing` | `check_response` and all that it calls | a loop over the updates of one response |
| `SubscribeRequest` | `get_gnmi_paths`, `subscribe_request_helper`, the path conversions | a loop over the keys of one request |
| `StreamApplication` | what the programs with streams share: connecting (`wait_for_grpc_server_connection`), setting the handlers, calls of the API, leaving the block | `EXTENDS GnmiStream` |
| `StreamTutorial` | `main` of the stream tutorial and its handlers | `EXTENDS StreamApplication`: application and client together |
| `TestingTool` | the stream case of the testing tool and its handlers | `EXTENDS StreamApplication` |
| `LoggerManager` | `set_logger`, `log` | any number of threads |
| `MCGnmiStream`, `MCResponseParsing`, `MCSubscribeRequest` | values of the constants for TLC | |
| `MCStreamApplication` | either of the two programs in one run | a variable says which; the other's variables rest |
| `GrpcCallProofs`, `GnmiStreamProofs`, `OnceProofs`, `StreamApplicationProofs`, `StreamProgramProofs`, `ResponseParsingProofs`, `SubscribeRequestProofs`, `LoggerManagerProofs` | proofs | section 5 |

Some operators come with a second form of the same parameters and a comment that
calls it a mutant: a plausible bug in that place, used to see that a property can
fail at all. Nothing refers to them in the specifications.

### GnmiStream and the code

The variables are the members of the client (`handlers`, `mtx`, `stream_context`,
`subscribe_stream_rw`, `receive_thread`), the place of each thread (`pc` for API
calls, `receive_thread` for the receive loop), what the application sees (`stats`,
`reported`, `result`), and ghosts (`opened`, `fault`). A call is a number; 0 is a
null pointer. `receive_thread = "none"` is a thread that is not joinable, `"done"`
one that has ended and not been joined.

A step runs from one observable point to the next: a lock, a blocking call, a
handler. `RegisterCall` evaluates `joinable()` (588) and is followed by
`OpenStream` (the locked block 590-667, whose lock nothing can separate from its
body), `RegisterLock` (672) and `RegisterWrite` (673-695). `CloseCall`,
`CloseCancel`, `CloseJoin` and `CloseReset` are 439, 441-448, 449 and 451-455.
The receive thread is `RxGood`/`RxBad`/`RxFatal` (Read and check_response,
614-637), `RxSuccessReturn`, `RxReadEnd` (614), `RxLock` (641), `RxFinish`
(643-665) and `RxFailedReturn`. The destructor is a close with `destroying` set.
The application is one thread: the class has no claim to be used from several, and
the examples never do. A handler that calls the API does so with `pc["recv"]`;
`HandlerCalls` says which handler may call what. Exceptions in the receive thread
(an empty handler, an exception of the parser, joining itself) set `fault` and
stop the process.

A response is abstracted to what `check_response` makes of it: "good", "bad" or
"fatal". `ResponseParsing` is where that outcome comes from: SUCCESS, an error
code, or an exception.

### ResponseParsing and the code

A path is the two names the code looks for; an update is the presence of a path
and a value, the value's encoding, and the map its flattening gives; a number is an
integer, and `stoull` is modelled with its width (`WordSize`). `pc` walks through
`CheckPrefix` (186-335), `DecodeUpdate` (one round of 336-376), `EndUpdates`
(378-402), `CheckNames` (404-418) and `ToStats` (`mgbl_pbr.cpp:38-89`).

### SubscribeOnce and the code

`RefuseOnce` is 464-499, `OpenOnce` 500-513, `WriteOnce` 515-524, `ReadOnce` a round
of 526-534, `EndReading` its end, `FinishOnce` 536-554.

### OnceApplication and the code

`program` is one of the two programs of the repository or "other", which is `Next` of
`SubscribeOnce` unrestricted: one call after another with any arguments and any
counters, also after an exception. For the two, `at` is where `main` is:
`CallOnce` enters `rpc_register_stats_once`, `PrintStats` and `CallFailed` are the
branches on its first answer (once tutorial 144-248, tool 361-391), `Retried` the
three equal branches on the second (208-272). The first list printed is a copy of
`pbr_counters->stats`, the second the local `retry_once`. An exception of the
call leaves `main` (`Uncaught`).

### SubscribeRequest and the code

A text is a sequence of tokens: the four characters the path syntax knows, and the
pieces between them. `PathText` is `mgbl_pbr.cpp:91-103`. `string_to_gnmipath` is
`Pieces` (the loop's cuts at slashes: `FirstPiece` is line 63, `PieceEnd` 126-131,
`PiecesFrom` the loop as a function of `start`), `Accepts` (every check that throws) and
`Element`; `TextUpTo` is the loop of `gnmipath_to_string`. A closing bracket before the opening one makes the length at
`mgbl_gnmi_helper.cpp:101` wrap, and the rest of the piece is taken. The actions are
`SetEncoding` (132-144), `AddSubscription` (a round of 146-168), `EndPaths` and `Send`,
which follows whatever the helper returned (510-515, 585-675).

### StreamApplication, StreamTutorial, TestingTool and the code

`at` is where `main` is between its calls of the API; each call is the corresponding
step of `GnmiStream`, restricted to what `main` calls there. The handlers' actions
are the returns of the handlers together with their bodies: what they do to the deque
or to the flags is atomic under `queue_mtx` or `stream_mtx`, except for the tool's
`retry` and `count`, which `main` touches only when the receive thread is joined
(`VerdictOfThisStream` has `~joinable` for that). Waiting on the condition variable
is waiting for its predicate. `LeaveBlock` ends the lifetime of the locals, before
`DestroyClient` runs `~GnmiClient`.

The tool's loop has two heads in the model: "loop", where the last stream is closed,
and "again", after a registration that failed (350-353), where it is not.
`CheckRetry` is the lambda at 324-332 with the branch on its result.

### LoggerManager and the code

`log()` is four steps: the copy under the mutex (106-110), the test of the member
(111), its second read with the call (113), and the return. The two unprotected
reads race with `set_logger`; they see the pointer before or after the assignment.

## 3. Runs

| Run | Question | Result |
|---|---|---|
| `GnmiStream_safety` | the inductive invariant, five safety invariants, three action properties and the refinement, while the success handler makes any API call and parsing may throw | hold, 1.2 million states |
| `GnmiStream_live` | with both handlers making any API call: which thread may wait for itself, calls return, failures are reported, the session with its progress is implemented | hold, 78 000 states |
| `StreamApplication_check` | the stream tutorial and the testing tool: events and verdicts match streams, nothing is waited for in vain, handlers outlive their locals on two known paths only, the programs end | hold, 130 000 states |
| `OnceApplication_check` | success is complete, only complete answers are printed, a deadline is kept, by the retry too | hold, 223 000 states |
| `SubscribeRequest_check` | keys are asked for exactly, paths survive printing (with one exception, below), the root only for a bad key | hold, 9 500 states |
| `ResponseParsing_check` | counters, names and exceptions against a declarative definition | hold, 33 000 states |
| `LoggerManager_quiet` | loggers replaced while nobody logs | hold, 288 states |
| `GnmiStream_doc_write` | "prevent a write" after disconnect (`mgbl_api.cpp:668-671`) | violated: `stream_context` is never reset |
| `GnmiStream_doc_cancelled` | a cancelled RPC reaches the failed handler unless the close cancelled it (`mgbl_gnmi_client.h:73-76`, `README.md:240`) | violated: every CANCELLED is left out |
| `ResponseParsing_doc_rule` | the counters of "each `pbr_key`" (`README.md:211`) | violated: two rules in one notification are merged |
| `OnceApplication_doc_retry` | "print the resposnes on Success" (`mgbl_api_pbr_once_tutorial.cpp:61`) | violated: after a retry an empty vector is printed |
| `LoggerManager_doc_race` | "thread-safe access to the logger instance" (`logger.h:127`) | violated: tested and called outside the mutex |

What else the models show, and the runs above in more detail:

* CANCELLED is excluded from the failures whoever cancelled (`mgbl_api.cpp:648`).
  `EveryFailureReported` is what the header says instead, and is violated;
  `ReportExact` holds and says nothing of a CANCELLED that no close asked for.
  A consequence: a stream that the *server* cancels, or ends with OK, ends in silence,
  and the stream tutorial then waits for ever. `TutorialEnds` excepts this case.
* An undefined success handler does not "do nothing" (`mgbl_gnmi_client.h:91`): it is called
  untested (629), and an empty `std::function` throws in the receive thread. The fault
  `bad_function_call` of `GnmiStream` is that; `HandlersReady` shows that the programs
  always set both handlers.
* `check_response` does not always return an "internal error code" (`mgbl_api_impl.h:86`):
  `std::stoull` throws through it (`pbr/mgbl_pbr.cpp:57`), also for "unsupported_type", which the
  decoder itself puts there (`mgbl_api.cpp:289`). Nothing in the receive thread catches it
  (`parse_exception` in `GnmiStream`). `ThrowsExact` says for which responses this happens.
* A handler that calls the API: from the failed handler the call waits for the mutex that
  its own thread holds (653), and the application's next call waits with it; a close from
  the success handler joins its own thread, which terminates the process (450).
  `OwnWaitsOnly` shows that these are the only ways, `CallReturns` that nothing else
  keeps a call. No document forbids either.
* The result of a once call is that of `Finish`; a failed `Write` is only logged
  (`mgbl_api.cpp:515-524`). It is reported when the call ended with an error. If the
  server ended the call with OK before it had the request, SUCCESS is returned with
  nothing stored.
* The tutorial leaves its loop at line 290 without `rpc_stream_close`, although
  `mgbl_gnmi_client.h:143` asks for it always. A response that arrives before the
  destructor has joined the thread then runs a handler whose deque, mutex and counters
  are gone. `DanglingAfterLimit` shows that this is the only way to it.
* The testing tool counts a registration whose Write failed as a retry and does not close
  the stream (line 350), so that the retries that are left fail on the same stream
  (`FailsForGood`), and the client is destroyed after the handlers' locals
  (`DanglingAfterFailedWrite`: the only way to it).
* When the tool's limit is reached and the deadline passes before the close has
  joined the receive thread, the failed handler overwrites the verdict (line 291) and
  the tool opens another stream, although it has what it asked for. `VerdictOfThisStream`
  states this rule as it is.
* The tool computes the deadline of each registration from `deadline_var`, which is never
  initialised (lines 95, 320), and its `-a` option is kept in a local that is never read.
* After a retry that succeeds the once tutorial prints `retry_once` (lines 212, 235, 260),
  which nothing was put in. The answer is in `pbr_counters->stats`, behind what the failed
  call had received. `RetryPrinted` is violated by this; `PrintedComplete` allows for the
  empty list, to show that nothing else that is incomplete is printed.
* For counters that are not a `PBRBase`, `get_counter_gnmi_paths` falls off its end
  (`mgbl_api.cpp:707-715`).
* An update whose JSON does not parse is only logged (`mgbl_api.cpp:351-364`), and the
  response counts as one "parsed with no errors" (`mgbl_gnmi_client.h:86`).
* A piece with a closing bracket before the opening one is accepted, since the length at
  `mgbl_gnmi_helper.cpp:101` wraps and the value takes the rest of the piece, the last
  closing bracket included. `gnmipath_to_string` then prints one more, and parsing what
  it prints gives another value. `PathsRoundTrip` excepts the paths with such a name; TLC
  finds the counterexample (a policy `x]/x]*[x=x`) when the exception is left out.
* With an unsupported encoding a request without subscriptions is sent (`mgbl_api.cpp:510`,
  `585`); a key that is empty or has a slash may ask for the root (`mgbl_api.cpp:154-167`).

### Bounds, and why they are enough

* `MaxCalls = 2`: the interesting cases concern a stream and its successor (stale
  context, late counters). A third call meets the same state as the second; the
  proofs cover every number.
* `MaxResponses = 2` (1 in the live run): order needs two, everything else one.
* `Kinds`: all three outcomes in the safety run. A "fatal" response ends the process,
  so the live run leaves it out.
* `ErrorStatus`: one error next to OK and CANCELLED; the programs, which tell them
  apart, have one of each kind: retried and not retried.
* `HandlerCalls`: the success handler may make every API call in the safety run, and both
  handlers every one in the live run. The two runs differ because the failed handler's
  calls really stop the system (it runs with the mutex held, 653): the safety run keeps
  TLC's deadlock check, which shows that without them it never stops. The theorems cover
  every choice, `DeadlockFree` excepted.
* Stream tutorial and tool: as many streams as retries (two), a limit of two responses,
  so that the limit is reached within a stream, across two, and just before a failure.
* Once: two calls, the tutorial's first and its retry, each with two responses.
* Requests: one key with any two names that put each separator at the beginning, in
  the middle or at the end, or make a piece with its brackets in the wrong order; and
  two keys with one such name each. The proofs cover names of every length.
* Parsing: three updates of eleven kinds (both encodings, both counters, two rules,
  a missing rule, a missing path, no value, malformed, wrapping and out-of-range
  values), with words of 3 bits so that the edge is reached.
* Logger: three threads and two loggers.

Two runs switch the deadlock check off. In `GnmiStream_live` the system stops when the
failed handler calls the API; `CallReturns` says that calls are kept for ever in that case
only. In `StreamApplication_check` the programs return, and they really stop when a stream
ends in silence; `TutorialEnds`, `ToolEnds` and `WaitsForAnEvent` say that they stop
nowhere else.

## 4. Fairness

`GnmiStream`: a thread that can run does (weak fairness of each thread's steps), a
handler returns (strong, since it may make calls in between), and a call on which
`TryCancel` was called ends, which gRPC guarantees. Nothing obliges the server to
answer or to end a call, the application to call anything, or `std::mutex` to be
fair. The last matters: without it `FailureReported` needs its assumption
`<>[](mtx # "user")`, since an application that keeps registering may keep the
receive thread from the lock. `CallReturns` needs no such assumption because the
application waits for nothing that its own calls could delay; what may delay it for ever
is a failed handler that calls the API, which it excepts, as the progress part of
`StreamFair` does.

`StreamTutorial`: both threads run, and every call ends, since `main` sets a deadline for
each (79-80, 195-198). The server is still free to send nothing.

`TestingTool`: both threads run, and a call that was cancelled ends. A deadline is
optional there, and the one `main` sets is computed from an uninitialised variable, so no
other call is assumed to end: `ToolEnds` excepts a server that keeps the tool waiting.

`OnceApplication`: the caller's steps, and the end of a call that has a deadline.

## 5. Proofs

All are checked by TLAPS, from the named assumptions on the constants only.

* `GrpcCallProofs`: what each operation changes in the record of its call, field by
  field, and that other calls are left alone.
* `GnmiStreamProofs`: `StreamInv` is inductive. It consists of the types,
  `ThreadInv` (where one thread may be given the other), `MutexInv` (who holds the
  mutex where), `MembersInv` (the pointers belong to the call opened last), `CallInv`
  (how far each call is, given the receive thread), `ReportInv` (which calls were
  reported), `StatsExact` and `JoinInv` (which handler may join its own thread).
  `ReportInv` and `StatsExact` are not inductive alone: that a report is the first for its call, or
  a response later than all that were stored, follows from `CallInv`. `StreamInUse`,
  `WriteExclusive`, `QuietAfterClose` and `OwnWaitsOnly` follow from it, the last for
  every choice of `HandlerCalls`. `DeadlockFree` adds that no thread waits for its own
  mutex if the failed handler makes no API call, with
  `receive_thread = "failed" => pc["recv"] = "idle"` added to the invariant.
  In the same module, the action properties `ContextOutlivesCall`, `FinishIsLast` and
  `ReportExact`, and `Spec => StreamSafe`: every step of the two threads is a step of
  `StreamSession` or leaves it unchanged, under the mapping in `GnmiStream`.
* `OnceProofs`: `OnceInv` of `SubscribeOnce` is inductive. `SuccessIsComplete` and
  `StoredInOrder` are not alone: that nothing is sent after SUCCESS needs that the call
  is over by then (`ProgressInv`), and that a stored response is new and the latest needs
  that only what was read, of a call that was opened, is stored (`StoredInv`). Both
  programs and any other sequence of calls implement `Spec` (`ProgramsUseOnce`), so that
  this holds in them. `PrintedComplete` follows with `PlaceInv` (`main` makes no more calls
  than its place says): the first list printed is the whole of `stats` after one call,
  and what was printed stays an answer because a call that is over does not change.
* `StreamApplicationProofs`: `TutorialSpec` and `ToolSpec` imply `Spec` of `GnmiStream`:
  the programs are applications of the client, and all that is proved of it holds in
  them. Also what each step of the client means for a program (which thread moves where,
  what becomes of the current call), and the part of the invariant both share (`ReadyInv`).
* `StreamProgramProofs`: `TutorialInv` and `ToolInv` are inductive, on top of
  `StreamInv`. `EventsOfThisStream` rests on `QueueInv`: the event of a failure is the
  last of its stream and comes when the receive thread has ended, and once the
  limit is reached its event is at the head; hence `main` goes on to another stream only
  with an empty deque. `VerdictOfThisStream` rests on `FlagsInv`: `retry` is set if and
  only if the receive thread has ended and the status is DEADLINE_EXCEEDED. The
  two `Dangling` properties rest on what is known of the stream where `main` leaves its
  loop. These theorems hold for any number of retries, calls and responses, any limit and
  any error codes (none of which is the name of the limit's event). `EitherProgram` shows
  that a behaviour of `MCSpec`, which the run checks, is one of `TutorialSpec` or of
  `ToolSpec`, so that all of them hold in it; `ProgramTypesOK` follows.
* `ResponseParsingProofs`: `ParsingInv` is inductive, and `ParsingTypeOK`, `CountersExact`,
  `ThrowsExact` and `NamesExact` follow, for responses of any length, any leaves and any
  word size. The properties speak of the whole response, so none is inductive:
  `ResultInv` is the same reading of the updates decoded so far (each leaf of the
  flattened map has the value of the last PROTO update among them that carries it, else
  of the first JSON update), and `LastInv` says that encoding and path are those of the
  last value among them. The step of the loop (`DecodeUpdateStep`) rests on lemmas about
  `Insert` and `Assign` and on how one more update changes the carriers of a leaf.
* `SubscribeRequestProofs`: `RequestInv` (the subscriptions are, key by key, what the key's
  text is parsed to) is inductive; the work is in the lemmas about the texts.
  `KeysRequested` and `RootOnlyForBadKey` rest on `PathTextParsed`: the text of a key made
  of plain names is cut at its slashes only (`PiecesByCuts`), and each of the five
  pieces is accepted and gives its element. `PathsRoundTrip` rests on `ElementShape`
  (what an accepted piece gives: no slash, no bracket where one would be read as such) and
  `ElementPrinted` (such an element is printed as a piece that gives it back), and then
  on both recursions running over the same cuts. The parser and the printer
  are recursive functions over texts of any length. That they satisfy their
  equations, and what they compute, is by induction on the natural numbers, which is
  obtained in the form "a set with 0 and the successors of its elements is all of them"
  (`Induction`) from the least element of a set (`WFMin`), since the library's induction
  rules cannot be instantiated here.
* `LoggerManagerProofs`: `CalleeAlive` if loggers are set while no thread logs.

Every invariant, action property and the safety part of the refinement that the passing
runs check is stated by a theorem. Only model-checked is liveness: `CallReturns`,
`FailureReported`, the progress part of `StreamFair`, `DeadlineReturns`, `TutorialEnds`,
`ToolEnds` and `OnceEnds`. Their proofs need `ENABLED` of the fair actions, which the
prover does not support. `QuietInv` is proved to be inductive and is not in a run, and the
types of `SubscribeRequest` are proved and not in its run.

## 6. Not modelled

* The parsing of the testing tool's command line: the model starts from the arguments it
  may give. The constructor of `gnmi_client_connection`, which reads certificates if
  `ssl_tls` is set in its arguments; no program here sets it.
* Handlers assigned during a stream (nothing in the client checks for it; `SetHandler`
  assumes it does not happen), and a once subscription or a reader of `stats`
  beside a stream: undefined behaviour, which no program here runs into (`HandlersReady`
  for the first); listed among the hazards.
* Time: a deadline may pass at any moment. That the once tutorial sets its first deadline
  before it waits for the connection, or that a renewed deadline lies in the future, is
  therefore not told apart.
* A `Write` that blocks under flow control: it would keep the mutex and with it the
  receive thread's last lock; gRPC's limits are not in this code.
* `print_subscribe_request`, `log_level_to_string`: output only.
  `get_counter_gnmi_paths` touches no state.
* Tests, the test server, protos and build files.

## 7. Plan

1. Done: `GrpcCall`, `GnmiStream`, `StreamSession` and their proofs; `ResponseParsing`;
   `LoggerManager` and its proof; `SubscribeOnce`; `SubscribeRequest`; the programs:
   `StreamApplication`, `StreamTutorial`, `TestingTool`, `OnceApplication`.
2. Done: proofs of `SubscribeOnce` and of all four programs.
3. Done: proofs about `ResponseParsing` and `SubscribeRequest`, their recursive functions
   included.
4. Left: a once subscription beside a stream (hazard at `mgbl_api.cpp:531`), if a program
   comes to use it; shorter proofs where two lemmas say nearly the same.
