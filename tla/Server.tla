------------------------------- MODULE Server -------------------------------
(****************************************************************************)
(* The life of diskhash_server (server/main.cpp, server/http_server.cpp):   *)
(* main starts and joins the worker threads, a signal calls stop(), workers *)
(* accept connections and serve one session each, with blocking reads.      *)
(* io_context and acceptor are Boost.Asio's; they are modelled by what the  *)
(* code here relies on.  What a request does to the store is module         *)
(* ShardedMap's.                                                            *)
(****************************************************************************)
EXTENDS Naturals, FiniteSets

CONSTANTS
    Workers,         \* threads_
    Clients,         \* one connection each at a time
    NoClient

ASSUME ServerAssumption == NoClient \notin Clients /\ Workers # {}

VARIABLES
    main,            \* where main() is
    stopper,         \* where stop() is, called by the signal handler
    running,         \* running_
    accepting,       \* an async_accept is outstanding
    listening,       \* acceptor_ is open
    stopped,         \* ioc_.stop() was called
    db_open,         \* db_.close() has not run
    worker,          \* worker[w]: where it is, and in whose session
    conn,            \* conn[c]: the connection of client c
    request,         \* request[c]: a request was sent and not answered
    hung_up,         \* hung_up[c]: the client closed its end
    asked,           \* history: a signal came after the server said
                     \* "Press Ctrl+C to stop"
    late             \* history, late[c]: requests of the session answered
                     \* after running_ became false

main_vars == <<main, db_open>>
ioc_vars == <<running, accepting, listening, stopped>>
client_vars == <<conn, request, hung_up, late>>
vars == <<main_vars, stopper, ioc_vars, worker, client_vars, asked>>

NotStarted == [at |-> "none", client |-> NoClient]
Polling == [at |-> "poll", client |-> NoClient]
Accepting == [at |-> "accept", client |-> NoClient]
Exited == [at |-> "exited", client |-> NoClient]

Init ==
    /\ main = "starting" /\ stopper = "none"
    /\ running = FALSE /\ accepting = FALSE
    /\ listening = FALSE /\ stopped = FALSE /\ db_open = FALSE
    /\ worker = [w \in Workers |-> NotStarted]
    /\ conn = [c \in Clients |-> "none"]
    /\ request = [c \in Clients |-> FALSE]
    /\ hung_up = [c \in Clients |-> FALSE]
    /\ late = [c \in Clients |-> 0]
    /\ asked = FALSE

-----------------------------------------------------------------------------
(* main().  The signal handlers are already installed.                      *)
Construct ==
    /\ main = "starting" /\ main' = "constructed"
    /\ db_open' = TRUE /\ listening' = TRUE
    /\ UNCHANGED <<stopper, running, accepting, stopped, worker, client_vars, asked>>

(* The address cannot be used, or the files cannot be opened: exit code 1.  *)
ConstructFails ==
    /\ main = "starting" /\ main' = "finished"
    /\ UNCHANGED <<db_open, stopper, ioc_vars, worker, client_vars, asked>>

(* run(): running_ = true; do_accept(); the threads, one by one.            *)
RunSetsRunning ==
    /\ main = "constructed" /\ main' = "run"
    /\ running' = TRUE
    /\ UNCHANGED <<db_open, stopper, accepting, listening, stopped, worker,
                   client_vars, asked>>

RunAccepts ==
    /\ main = "run" /\ main' = "spawn"
    /\ accepting' = TRUE
    /\ UNCHANGED <<db_open, stopper, running, listening, stopped, worker,
                   client_vars, asked>>

Spawn(w) ==
    /\ main = "spawn" /\ worker[w] = NotStarted
    /\ worker' = [worker EXCEPT ![w] = Polling]
    /\ UNCHANGED <<main_vars, stopper, ioc_vars, client_vars, asked>>

(* run() returns and "Server is running. Press Ctrl+C to stop." is printed. *)
RunReturns ==
    /\ main = "spawn" /\ \A w \in Workers : worker[w] # NotStarted
    /\ main' = "wait"
    /\ UNCHANGED <<db_open, stopper, ioc_vars, worker, client_vars, asked>>

(* Mutant: the store is closed without joining the threads.                 *)
joined_not_awaited == TRUE

(* wait(): every thread is joined, then the store is closed.                *)
joined == \A w \in Workers : worker[w] = Exited

WaitJoins ==
    /\ main = "wait" /\ joined
    /\ main' = "joined" /\ db_open' = FALSE
    /\ UNCHANGED <<stopper, ioc_vars, worker, client_vars, asked>>

(* g_server.reset(): the destructor's stop() and wait() find nothing to do. *)
Finish ==
    /\ main = "joined" /\ stopper = "none" /\ main' = "finished"
    /\ UNCHANGED <<db_open, stopper, ioc_vars, worker, client_vars, asked>>

-----------------------------------------------------------------------------
(* SIGINT or SIGTERM: stop() returns at once unless running_ was set.       *)
Signal ==
    /\ main \notin {"finished", "terminated"} /\ stopper = "none"
    /\ asked' = (asked \/ main \in {"wait", "joined"})
    /\ IF main # "starting" /\ running
         THEN running' = FALSE /\ stopper' = "close"
         ELSE UNCHANGED <<running, stopper>>
    /\ UNCHANGED <<main_vars, accepting, listening, stopped, worker, client_vars>>

StopClosesAcceptor ==
    /\ stopper = "close" /\ stopper' = "stop"
    /\ listening' = FALSE
    /\ UNCHANGED <<main_vars, running, accepting, stopped, worker, client_vars, asked>>

StopStopsContext ==
    /\ stopper = "stop" /\ stopper' = "none"
    /\ stopped' = TRUE
    /\ UNCHANGED <<main_vars, running, accepting, listening, worker, client_vars, asked>>

-----------------------------------------------------------------------------
(* ioc_.run() in a worker: it runs handlers, and returns when stopped or    *)
(* when no handler is outstanding.                                          *)
polls(w) == worker[w] = Polling /\ ~stopped

(* The completion handler of async_accept posts the session ...             *)
Accept(w, c) ==
    /\ polls(w) /\ accepting /\ listening /\ conn[c] = "backlog"
    /\ conn' = [conn EXCEPT ![c] = IF running THEN "posted" ELSE "closed"]
    /\ worker' = [worker EXCEPT ![w] = Accepting] /\ accepting' = FALSE
    /\ UNCHANGED <<main_vars, stopper, running, listening, stopped,
                   request, hung_up, late, asked>>

(* ... or is called with an error once the acceptor is closed ...           *)
AcceptFails(w) ==
    /\ polls(w) /\ accepting /\ ~listening
    /\ worker' = [worker EXCEPT ![w] = Accepting] /\ accepting' = FALSE
    /\ UNCHANGED <<main_vars, stopper, running, listening, stopped, client_vars,
                   asked>>

(* ... reads running_ a second time and calls do_accept again.              *)
AcceptAgain(w) ==
    /\ worker[w] = Accepting
    /\ worker' = [worker EXCEPT ![w] = Polling] /\ accepting' = running
    /\ UNCHANGED <<main_vars, stopper, running, listening, stopped, client_vars,
                   asked>>

(* Mutant: the session is still there for another worker.                   *)
SessionStarts_twice(w, c) ==
    /\ polls(w) /\ conn[c] = "posted"
    /\ late' = [late EXCEPT ![c] = 0]
    /\ worker' = [worker EXCEPT ![w] = [at |-> "loop", client |-> c]]
    /\ UNCHANGED <<main_vars, stopper, ioc_vars, conn, request, hung_up, asked>>

(* The posted handler: handle_session.                                      *)
SessionStarts(w, c) ==
    /\ polls(w) /\ conn[c] = "posted"
    /\ conn' = [conn EXCEPT ![c] = "session"]
    /\ late' = [late EXCEPT ![c] = 0]
    /\ worker' = [worker EXCEPT ![w] = [at |-> "loop", client |-> c]]
    /\ UNCHANGED <<main_vars, stopper, ioc_vars, request, hung_up, asked>>

(* Mutant: the worker keeps the socket.                                     *)
SessionEnds_keeping_socket(w) ==
    /\ worker' = [worker EXCEPT ![w].at = "poll"]
    /\ conn' = [conn EXCEPT ![worker[w].client] = "closed"]
    /\ UNCHANGED <<main_vars, stopper, ioc_vars, request, hung_up, late, asked>>

SessionEnds(w) ==
    /\ worker' = [worker EXCEPT ![w] = Polling]
    /\ conn' = [conn EXCEPT ![worker[w].client] = "closed"]
    /\ UNCHANGED <<main_vars, stopper, ioc_vars, request, hung_up, late, asked>>

(* Mutant: while(true).                                                     *)
LoopReads_always(w) ==
    /\ worker[w].at = "loop"
    /\ worker' = [worker EXCEPT ![w].at = "read"]
    /\ UNCHANGED <<main_vars, stopper, ioc_vars, client_vars, asked>>

(* while(running_): the read is entered or the session ends.                *)
LoopReads(w) ==
    /\ worker[w].at = "loop" /\ running
    /\ worker' = [worker EXCEPT ![w].at = "read"]
    /\ UNCHANGED <<main_vars, stopper, ioc_vars, client_vars, asked>>

LoopEnds(w) == worker[w].at = "loop" /\ ~running /\ SessionEnds(w)

(* http::read returns only when the client speaks or hangs up.              *)
ReadRequest(w) ==
    /\ worker[w].at = "read" /\ request[worker[w].client]
    /\ worker' = [worker EXCEPT ![w].at = "serve"]
    /\ UNCHANGED <<main_vars, stopper, ioc_vars, client_vars, asked>>

ReadEnds(w) ==
    /\ worker[w].at = "read"
    /\ ~request[worker[w].client] /\ hung_up[worker[w].client]
    /\ SessionEnds(w)

(* late[c] when another request of c is answered, counted up to MaxLate.    *)
MaxLate == 2

late_now(c) == IF running \/ late[c] = MaxLate THEN late[c] ELSE late[c] + 1

(* handle_request and http::write.                                          *)
Serve(w) ==
    LET c == worker[w].client
    IN /\ worker[w].at = "serve"
       /\ request' = [request EXCEPT ![c] = FALSE]
       /\ late' = [late EXCEPT ![c] = late_now(c)]
       /\ worker' = [worker EXCEPT ![w].at = "loop"]
       /\ UNCHANGED <<main_vars, stopper, ioc_vars, conn, hung_up, asked>>

(* The write fails because the client is gone, or the response need_eof():  *)
(* a 400 or 404 to an HTTP/1.0 request.                                     *)
ServeLast(w) ==
    /\ worker[w].at = "serve"
    /\ worker' = [worker EXCEPT ![w] = Polling]
    /\ conn' = [conn EXCEPT ![worker[w].client] = "closed"]
    /\ request' = [request EXCEPT ![worker[w].client] = FALSE]
    /\ late' = [late EXCEPT ![worker[w].client] = late_now(worker[w].client)]
    /\ UNCHANGED <<main_vars, stopper, ioc_vars, hung_up, asked>>

(* The store throws (file_map cannot grow the file).  Nothing between       *)
(* handle_request and the thread's function catches it: std::terminate.     *)
ServeThrows(w) ==
    /\ worker[w].at = "serve"
    /\ main' = "terminated" /\ db_open' = FALSE /\ stopper' = "none"
    /\ running' = FALSE /\ accepting' = FALSE /\ listening' = FALSE /\ stopped' = TRUE
    /\ worker' = [v \in Workers |-> Exited]
    /\ conn' = [c \in Clients |-> IF conn[c] = "none" THEN "none" ELSE "closed"]
    /\ UNCHANGED <<request, hung_up, late, asked>>

idle_context ==
    /\ ~accepting
    /\ \A c \in Clients : conn[c] # "posted"
    /\ \A w \in Workers : worker[w].at \in {"none", "poll", "exited"}

WorkerExits(w) ==
    /\ worker[w] = Polling /\ (stopped \/ idle_context)
    /\ worker' = [worker EXCEPT ![w] = Exited]
    /\ UNCHANGED <<main_vars, stopper, ioc_vars, client_vars, asked>>

-----------------------------------------------------------------------------
(* The clients.                                                             *)
Connect(c) ==
    /\ conn[c] = "none" /\ listening
    /\ conn' = [conn EXCEPT ![c] = "backlog"]
    /\ UNCHANGED <<main_vars, stopper, ioc_vars, worker, request, hung_up, late, asked>>

connected(c) == conn[c] \in {"backlog", "posted", "session"} /\ ~hung_up[c]

Send(c) ==
    /\ connected(c) /\ ~request[c]
    /\ request' = [request EXCEPT ![c] = TRUE]
    /\ UNCHANGED <<main_vars, stopper, ioc_vars, worker, conn, hung_up, late, asked>>

HangUp(c) ==
    /\ connected(c)
    /\ hung_up' = [hung_up EXCEPT ![c] = TRUE]
    /\ UNCHANGED <<main_vars, stopper, ioc_vars, worker, conn, request, late, asked>>

(* A closed connection is forgotten; the client may connect again.          *)
Forget(c) ==
    /\ conn[c] = "closed"
    /\ conn' = [conn EXCEPT ![c] = "none"]
    /\ request' = [request EXCEPT ![c] = FALSE]
    /\ hung_up' = [hung_up EXCEPT ![c] = FALSE]
    /\ late' = [late EXCEPT ![c] = 0]
    /\ UNCHANGED <<main_vars, stopper, ioc_vars, worker, asked>>

-----------------------------------------------------------------------------
MainStep ==
    \/ Construct \/ ConstructFails \/ RunSetsRunning \/ RunAccepts \/ (\E w \in Workers : Spawn(w))
    \/ RunReturns \/ WaitJoins \/ Finish

StopStep == StopClosesAcceptor \/ StopStopsContext

WorkerStep(w) ==
    \/ \E c \in Clients : Accept(w, c) \/ SessionStarts(w, c)
    \/ AcceptFails(w) \/ AcceptAgain(w) \/ LoopReads(w) \/ LoopEnds(w) \/ ReadRequest(w)
    \/ ReadEnds(w) \/ Serve(w) \/ ServeLast(w) \/ ServeThrows(w)
    \/ WorkerExits(w)

ClientStep(c) == Connect(c) \/ Send(c) \/ HangUp(c) \/ Forget(c)

Next ==
    \/ MainStep \/ Signal \/ StopStep
    \/ \E w \in Workers : WorkerStep(w)
    \/ \E c \in Clients : ClientStep(c)

Spec == Init /\ [][Next]_vars

(* The scheduler runs every thread that can run.                            *)
ThreadsRun ==
    /\ WF_vars(MainStep) /\ WF_vars(StopStep)
    /\ \A w \in Workers : WF_vars(WorkerStep(w))

FairSpec == Spec /\ ThreadsRun

(* Besides, no client keeps a session open and stays silent for ever.       *)
TalkativeSpec ==
    FairSpec /\ \A c \in Clients : WF_vars(Send(c) \/ HangUp(c))

(* io_context keeps posted handlers in a queue: one that waits is not       *)
(* overtaken for ever.                                                      *)
ServingSpec ==
    /\ TalkativeSpec
    /\ \A c \in Clients : SF_vars(\E w \in Workers : SessionStarts(w, c))

-----------------------------------------------------------------------------
TypeOK ==
    /\ main \in {"starting", "constructed", "run", "spawn", "wait", "joined",
                 "finished", "terminated"}
    /\ stopper \in {"none", "close", "stop"}
    /\ {running, accepting, listening, stopped, db_open, asked} \subseteq BOOLEAN
    /\ worker \in [Workers ->
                     {NotStarted, Polling, Accepting, Exited}
                       \cup [at : {"loop", "read", "serve"}, client : Clients]]
    /\ conn \in [Clients -> {"none", "backlog", "posted", "session", "closed"}]
    /\ request \in [Clients -> BOOLEAN] /\ hung_up \in [Clients -> BOOLEAN]
    /\ late \in [Clients -> 0 .. MaxLate]

(****************************************************************************)
(* The store is open whenever a worker may use it: wait() closes it only    *)
(* after the threads have been joined.                                      *)
(****************************************************************************)
StoreOpenInSessions ==
    \A w \in Workers : worker[w].at \in {"loop", "read", "serve"} => db_open

(* A connection is served by one worker at a time.                          *)
OneWorkerPerSession ==
    \A c \in Clients :
      Cardinality({w \in Workers : worker[w].client = c})
        = IF conn[c] = "session" THEN 1 ELSE 0

(****************************************************************************)
(* stop() drains: once running_ is false a session answers at most the one  *)
(* request it was waiting for.                                              *)
(****************************************************************************)
StopDrains == \A c \in Clients : late[c] <= 1

(****************************************************************************)
(* main.cpp: "Wait for server to complete (signal handler calls stop())":   *)
(* after Ctrl+C the process ends.                                           *)
(****************************************************************************)
SignalEndsServer == asked ~> main \in {"finished", "terminated"}

(****************************************************************************)
(* A connection that was accepted gets its session.  This takes as many     *)
(* workers as there are connections: handle_session keeps its worker until  *)
(* the connection ends.                                                     *)
(****************************************************************************)
SessionsStart ==
    \A c \in Clients : conn[c] = "posted" ~> (conn[c] # "posted" \/ ~running)
=============================================================================
