---------------------------- MODULE ServerProofs ----------------------------
(****************************************************************************)
(* Proofs about Server for any number of workers and clients: the store is  *)
(* open in every session, a connection has one worker, and after stop() a   *)
(* session answers at most one more request.                                *)
(****************************************************************************)
EXTENDS Server, TLAPS, FiniteSetTheorems

in_session(r) == r.at \in {"loop", "read", "serve"}

WorkerState ==
    {NotStarted, Polling, Accepting, Exited}
      \cup [at : {"loop", "read", "serve"}, client : Clients]

(* A worker's session is with a connection in session, a connection in      *)
(* session has a worker, and no two workers serve one client.               *)
Sessions ==
    /\ \A w \in Workers : in_session(worker[w]) => conn[worker[w].client] = "session"
    /\ \A c \in Clients : conn[c] = "session" => \E w \in Workers : worker[w].client = c
    /\ \A v, w \in Workers :
         in_session(worker[v]) /\ worker[v].client = worker[w].client => v = w

(* run() spawns threads only after the store was opened, wait() closes it   *)
(* only after they are gone.                                                *)
Phases ==
    /\ main \in {"starting", "constructed"} => \A w \in Workers : worker[w] = NotStarted
    /\ main \in {"run", "spawn", "wait"} => db_open
    /\ main = "constructed" => db_open
    /\ ~db_open => \A w \in Workers : worker[w] \in {NotStarted, Exited}

(* No answer is late while running_ is true; after that a session that has  *)
(* answered one more request is at the top of its loop, or over.            *)
Lateness ==
    /\ running \/ main \in {"starting", "constructed"} => \A c \in Clients : late[c] = 0
    /\ \A w \in Workers : worker[w].at \in {"read", "serve"} => late[worker[w].client] = 0
    /\ \A c \in Clients : late[c] <= 1

Inv == TypeOK /\ Sessions /\ Phases /\ Lateness

-----------------------------------------------------------------------------
(* A worker in a session has a client; no other worker has one.             *)
LEMMA WorkerStates ==
  ASSUME TypeOK, NEW w \in Workers
  PROVE  /\ worker[w] \in WorkerState
         /\ in_session(worker[w]) <=> worker[w].client \in Clients
         /\ in_session(worker[w]) =>
              worker[w] = [at |-> worker[w].at, client |-> worker[w].client]
         /\ ~in_session(worker[w]) => worker[w].client = NoClient
<1>1. worker[w] \in WorkerState
  BY DEF TypeOK, WorkerState
<1> QED
  BY <1>1, ServerAssumption
     DEF WorkerState, in_session, NotStarted, Polling, Accepting, Exited

(* A worker that goes on with a well-typed state leaves the others alone.   *)
LEMMA WorkerGoesOn ==
  ASSUME TypeOK, NEW w \in Workers, NEW r \in WorkerState,
         worker' = [worker EXCEPT ![w] = r]
  PROVE  /\ worker' \in [Workers -> WorkerState]
         /\ worker'[w] = r
         /\ \A v \in Workers \ {w} : worker'[v] = worker[v]
  BY DEF TypeOK, WorkerState

(* A worker that moves inside its session keeps its client.                 *)
LEMMA WorkerMoves ==
  ASSUME TypeOK, NEW w \in Workers, in_session(worker[w]),
         NEW p \in {"loop", "read", "serve"}, worker' = [worker EXCEPT ![w].at = p]
  PROVE  /\ worker' = [worker EXCEPT ![w] = [at |-> p, client |-> worker[w].client]]
         /\ [at |-> p, client |-> worker[w].client] \in WorkerState
         /\ worker[w].client \in Clients
<1>1. /\ worker[w] = [at |-> worker[w].at, client |-> worker[w].client]
      /\ worker[w].client \in Clients
  BY WorkerStates
<1>2. [worker[w] EXCEPT !.at = p] = [at |-> p, client |-> worker[w].client]
  BY <1>1
<1> QED
  BY <1>1, <1>2 DEF WorkerState

(* The initial state satisfies the inductive invariant.                     *)
LEMMA InvInit == Init => Inv
<1> SUFFICES ASSUME Init PROVE Inv
  OBVIOUS
<1>1. TypeOK
  <2>1. {running, accepting, listening, stopped, db_open, asked} \subseteq BOOLEAN
    BY Zenon DEF Init
  <2>2. request \in [Clients -> BOOLEAN] /\ hung_up \in [Clients -> BOOLEAN]
    BY Zenon DEF Init
  <2> QED
    BY <2>1, <2>2 DEF Init, TypeOK, MaxLate
<1>2. \A w \in Workers : worker[w] = NotStarted /\ ~in_session(worker[w])
  BY DEF Init, NotStarted, in_session
<1>3. Sessions
  BY <1>2 DEF Init, Sessions
<1>4. Phases
  BY <1>2 DEF Init, Phases
<1>5. Lateness
  BY <1>2 DEF Init, Lateness, in_session
<1> QED
  BY <1>1, <1>3, <1>4, <1>5 DEF Inv

(* Every step of main preserves the inductive invariant.                    *)
LEMMA InvMain ==
  ASSUME Inv, MainStep
  PROVE  Inv'
<1> USE DEF Inv
<1>1. CASE Construct
  BY <1>1 DEF Construct, client_vars, TypeOK, Sessions, Phases, Lateness
<1>2. CASE ConstructFails
  BY <1>2 DEF ConstructFails, client_vars, ioc_vars, TypeOK, Sessions, Phases, Lateness
<1>3. CASE RunSetsRunning
  BY <1>3 DEF RunSetsRunning, client_vars, TypeOK, Sessions, Phases, Lateness
<1>4. CASE RunAccepts
  BY <1>4 DEF RunAccepts, client_vars, TypeOK, Sessions, Phases, Lateness
<1>5. ASSUME NEW w \in Workers, Spawn(w)
      PROVE  Inv'
  <2>1. worker' = [worker EXCEPT ![w] = Polling] /\ Polling \in WorkerState
    BY <1>5 DEF Spawn, WorkerState
  <2>2. /\ worker' \in [Workers -> WorkerState] /\ worker'[w] = Polling
        /\ \A v \in Workers \ {w} : worker'[v] = worker[v]
    BY <2>1, WorkerGoesOn
  <2>3. ~in_session(Polling) /\ ~in_session(worker[w]) /\ Polling.client = worker[w].client
    BY <1>5 DEF Spawn, Polling, NotStarted, in_session
  <2>4. /\ UNCHANGED <<main, db_open, stopper, running, accepting, listening, stopped,
                       conn, request, hung_up, late, asked>>
        /\ main = "spawn"
    BY <1>5 DEF Spawn, main_vars, ioc_vars, client_vars
  <2>5. TypeOK'
    BY <2>2, <2>4 DEF TypeOK, WorkerState
  <2>6. Sessions'
    BY <2>2, <2>3, <2>4 DEF Sessions, in_session
  <2>7. Phases'
    BY <2>4 DEF Phases
  <2>8. Lateness'
    BY <2>2, <2>3, <2>4 DEF Lateness, in_session
  <2> QED
    BY <2>5, <2>6, <2>7, <2>8
<1>6. CASE RunReturns
  BY <1>6 DEF RunReturns, client_vars, ioc_vars, TypeOK, Sessions, Phases, Lateness
<1>7. CASE WaitJoins
  BY <1>7 DEF WaitJoins, joined, client_vars, ioc_vars, TypeOK, Sessions, Phases, Lateness
<1>8. CASE Finish
  BY <1>8 DEF Finish, client_vars, ioc_vars, TypeOK, Sessions, Phases, Lateness
<1> QED
  BY <1>1, <1>2, <1>3, <1>4, <1>5, <1>6, <1>7, <1>8 DEF MainStep

(* The signal handler preserves the inductive invariant.                    *)
LEMMA InvSignal ==
  ASSUME Inv, Signal \/ StopStep
  PROVE  Inv'
<1> USE DEF Inv
<1>1. CASE Signal
  BY <1>1 DEF Signal, main_vars, client_vars, TypeOK, Sessions, Phases, Lateness
<1>2. CASE StopClosesAcceptor
  BY <1>2 DEF StopClosesAcceptor, main_vars, client_vars, TypeOK, Sessions, Phases, Lateness
<1>3. CASE StopStopsContext
  BY <1>3 DEF StopStopsContext, main_vars, client_vars, TypeOK, Sessions, Phases, Lateness
<1> QED
  BY <1>1, <1>2, <1>3 DEF StopStep

(* Every step of a client preserves the inductive invariant.                *)
LEMMA InvClient ==
  ASSUME Inv, NEW c \in Clients, ClientStep(c)
  PROVE  Inv'
<1> USE DEF Inv
<1>0. \A w \in Workers : in_session(worker[w]) => worker[w].client \in Clients
  BY WorkerStates
<1>1. CASE Connect(c)
  BY <1>0, <1>1 DEF Connect, main_vars, ioc_vars, TypeOK, Sessions, Phases, Lateness
<1>2. CASE Send(c)
  BY <1>2 DEF Send, main_vars, ioc_vars, TypeOK, Sessions, Phases, Lateness
<1>3. CASE HangUp(c)
  BY <1>3 DEF HangUp, main_vars, ioc_vars, TypeOK, Sessions, Phases, Lateness
<1>4. CASE Forget(c)
  <2>1. /\ conn' = [conn EXCEPT ![c] = "none"] /\ late' = [late EXCEPT ![c] = 0]
        /\ request' = [request EXCEPT ![c] = FALSE]
        /\ hung_up' = [hung_up EXCEPT ![c] = FALSE] /\ conn[c] = "closed"
        /\ UNCHANGED <<main, db_open, stopper, running, accepting, listening, stopped,
                       worker, asked>>
    BY <1>4 DEF Forget, main_vars, ioc_vars
  <2>2. TypeOK'
    BY <2>1 DEF TypeOK, MaxLate
  <2>3. Sessions' /\ Phases'
    BY <1>0, <2>1 DEF TypeOK, Sessions, Phases
  <2>4. Lateness'
    BY <1>0, <2>1 DEF TypeOK, Lateness, in_session
  <2> QED
    BY <2>2, <2>3, <2>4
<1> QED
  BY <1>1, <1>2, <1>3, <1>4 DEF ClientStep

-----------------------------------------------------------------------------
(****************************************************************************)
(* A started worker outside a session that stays outside preserves the      *)
(* invariant, whatever happens to connections not in session.               *)
(****************************************************************************)
LEMMA OutsideSession ==
  ASSUME Inv, NEW w \in Workers, NEW r \in {Polling, Accepting, Exited},
         worker' = [worker EXCEPT ![w] = r], worker[w] \in {Polling, Accepting},
         UNCHANGED <<main, db_open, late, running>>,
         conn' \in [Clients -> {"none", "backlog", "posted", "session", "closed"}],
         \A c \in Clients : conn'[c] = "session" <=> conn[c] = "session"
  PROVE  /\ worker' \in [Workers -> WorkerState]
         /\ Sessions' /\ Phases' /\ Lateness'
<1>1. /\ worker' \in [Workers -> WorkerState] /\ worker'[w] = r
      /\ \A v \in Workers \ {w} : worker'[v] = worker[v]
  BY WorkerGoesOn DEF Inv, WorkerState
<1>2. /\ ~in_session(r) /\ ~in_session(worker[w]) /\ r.client = worker[w].client
      /\ worker[w] \notin {NotStarted, Exited}
  BY DEF Polling, Accepting, Exited, NotStarted, in_session
<1>3. \A v \in Workers : in_session(worker[v]) => worker[v].client \in Clients
  BY WorkerStates DEF Inv
<1>4. Sessions'
  BY <1>1, <1>2, <1>3 DEF Inv, Sessions, in_session
<1>5. Phases'
  BY <1>1, <1>2 DEF Inv, Phases
<1>6. Lateness'
  BY <1>1, <1>2 DEF Inv, Lateness, in_session
<1> QED
  BY <1>1, <1>4, <1>5, <1>6

(****************************************************************************)
(* A worker that ends its session and closes the connection preserves the   *)
(* invariant, if it has answered at most one late request.                  *)
(****************************************************************************)
LEMMA SessionOver ==
  ASSUME Inv, NEW w \in Workers, in_session(worker[w]),
         worker' = [worker EXCEPT ![w] = Polling],
         conn' = [conn EXCEPT ![worker[w].client] = "closed"],
         UNCHANGED <<main, db_open, running>>,
         NEW n \in 0 .. 1, late' = [late EXCEPT ![worker[w].client] = n],
         running => n = 0
  PROVE  /\ worker' \in [Workers -> WorkerState]
         /\ conn' \in [Clients -> {"none", "backlog", "posted", "session", "closed"}]
         /\ late' \in [Clients -> 0 .. MaxLate]
         /\ Sessions' /\ Phases' /\ Lateness'
<1> DEFINE c == worker[w].client
<1>1. /\ worker' \in [Workers -> WorkerState] /\ worker'[w] = Polling
      /\ \A v \in Workers \ {w} : worker'[v] = worker[v]
  BY WorkerGoesOn DEF Inv, WorkerState
<1>2. /\ c \in Clients
      /\ \A v \in Workers : in_session(worker[v]) <=> worker[v].client \in Clients
  BY WorkerStates DEF Inv
<1>3. ~in_session(Polling) /\ Polling.client \notin Clients
  BY ServerAssumption DEF Polling, in_session
<1>4. \A v \in Workers \ {w} : worker[v].client # c
  BY DEF Inv, Sessions
<1>5. /\ conn'[c] = "closed" /\ \A d \in Clients \ {c} : conn'[d] = conn[d]
      /\ late'[c] = n /\ \A d \in Clients \ {c} : late'[d] = late[d]
      /\ conn' \in [Clients -> {"none", "backlog", "posted", "session", "closed"}]
      /\ late' \in [Clients -> 0 .. MaxLate]
  BY <1>2 DEF Inv, TypeOK, MaxLate
<1>6. worker[w] \notin {NotStarted, Exited}
  BY DEF NotStarted, Exited, in_session
<1> HIDE DEF c
<1>7. Sessions'
  <2>1. ASSUME NEW v \in Workers, in_session(worker'[v])
        PROVE  conn'[worker'[v].client] = "session"
    BY <2>1, <1>1, <1>2, <1>3, <1>4, <1>5 DEF Inv, Sessions
  <2>2. ASSUME NEW d \in Clients, conn'[d] = "session"
        PROVE  \E v \in Workers : worker'[v].client = d
    <3>1. d # c /\ conn[d] = "session"
      BY <1>5, <2>2
    <3>2. PICK v \in Workers : worker[v].client = d
      BY <3>1 DEF Inv, Sessions
    <3>3. v # w
      BY <3>1, <3>2 DEF c
    <3> QED
      BY <1>1, <3>2, <3>3
  <2>3. ASSUME NEW u \in Workers, NEW v \in Workers,
               in_session(worker'[u]), worker'[u].client = worker'[v].client
        PROVE  u = v
    BY <2>3, <1>1, <1>2, <1>3 DEF Inv, Sessions
  <2> QED
    BY <2>1, <2>2, <2>3 DEF Sessions, in_session
<1>8. Phases'
  BY <1>1, <1>6 DEF Inv, Phases
<1>9. Lateness'
  <2>1. main \notin {"starting", "constructed"}
    BY <1>6 DEF Inv, Phases
  <2>2. ASSUME NEW v \in Workers, worker'[v].at \in {"read", "serve"}
        PROVE  late'[worker'[v].client] = 0
    BY <2>2, <1>1, <1>2, <1>3, <1>4, <1>5 DEF Inv, Lateness, in_session
  <2>3. \A d \in Clients : late'[d] <= 1
    BY <1>5 DEF Inv, Lateness
  <2>4. running' => \A d \in Clients : late'[d] = 0
    BY <1>5 DEF Inv, Lateness
  <2> QED
    BY <2>1, <2>2, <2>3, <2>4 DEF Lateness
<1> QED
  BY <1>1, <1>5, <1>7, <1>8, <1>9

(****************************************************************************)
(* A worker that moves inside its session preserves the invariant, if the   *)
(* late answers it has given allow the place it moves to.                   *)
(****************************************************************************)
LEMMA InsideSession ==
  ASSUME Inv, NEW w \in Workers, in_session(worker[w]),
         NEW p \in {"loop", "read", "serve"}, worker' = [worker EXCEPT ![w].at = p],
         UNCHANGED <<main, db_open, running, conn>>,
         NEW n \in 0 .. 1, late' = [late EXCEPT ![worker[w].client] = n],
         running \/ p # "loop" => n = 0
  PROVE  /\ worker' \in [Workers -> WorkerState]
         /\ late' \in [Clients -> 0 .. MaxLate]
         /\ Sessions' /\ Phases' /\ Lateness'
<1> DEFINE c == worker[w].client
           r == [at |-> p, client |-> c]
<1>0. worker' = [worker EXCEPT ![w] = r] /\ r \in WorkerState /\ c \in Clients
  BY WorkerMoves DEF Inv
<1>1. /\ worker' \in [Workers -> WorkerState] /\ worker'[w] = r /\ c \in Clients
      /\ \A v \in Workers \ {w} : worker'[v] = worker[v]
  <2> HIDE DEF r
  <2> QED
    BY <1>0, WorkerGoesOn DEF Inv
<1>2. in_session(r) /\ r.client = c /\ r.at = p
  BY DEF in_session
<1> HIDE DEF r
<1>3. \A v \in Workers : in_session(worker[v]) <=> worker[v].client \in Clients
  BY WorkerStates DEF Inv
<1>4. \A v \in Workers \ {w} : worker[v].client # c
  BY DEF Inv, Sessions
<1>5. /\ late'[c] = n /\ \A d \in Clients \ {c} : late'[d] = late[d]
      /\ late' \in [Clients -> 0 .. MaxLate]
  BY <1>1 DEF Inv, TypeOK, MaxLate
<1>6. worker[w] \notin {NotStarted, Exited}
  BY DEF NotStarted, Exited, in_session
<1>7. \A v \in Workers : worker'[v].client = worker[v].client
                          /\ (in_session(worker'[v]) <=> in_session(worker[v]))
  BY <1>1, <1>2
<1> HIDE DEF c
<1>8. Sessions'
  BY <1>7 DEF Inv, Sessions, in_session
<1>9. Phases'
  BY <1>1, <1>6 DEF Inv, Phases
<1>10. Lateness'
  <2>1. main \notin {"starting", "constructed"}
    BY <1>6 DEF Inv, Phases
  <2>2. ASSUME NEW v \in Workers, worker'[v].at \in {"read", "serve"}
        PROVE  late'[worker'[v].client] = 0
    <3>1. CASE v = w
      BY <1>1, <1>2, <1>5, <2>2, <3>1
    <3>2. CASE v # w
      BY <1>1, <1>3, <1>4, <1>5, <2>2, <3>2 DEF Inv, Lateness, in_session
    <3> QED
      BY <3>1, <3>2
  <2>3. \A d \in Clients : late'[d] <= 1
    BY <1>5 DEF Inv, Lateness
  <2>4. running' => \A d \in Clients : late'[d] = 0
    BY <1>5 DEF Inv, Lateness
  <2> QED
    BY <2>1, <2>2, <2>3, <2>4 DEF Lateness
<1> QED
  BY <1>1, <1>5, <1>8, <1>9, <1>10

-----------------------------------------------------------------------------
(* What the actions leave alone stays well typed.                           *)
LEMMA TypeStep ==
  ASSUME TypeOK, main' = main, stopper' = stopper, db_open' = db_open,
         asked' = asked, running' = running, listening' = listening,
         stopped' = stopped, accepting' \in BOOLEAN,
         worker' \in [Workers -> WorkerState],
         conn' \in [Clients -> {"none", "backlog", "posted", "session", "closed"}],
         request' \in [Clients -> BOOLEAN], hung_up' = hung_up,
         late' \in [Clients -> 0 .. MaxLate]
  PROVE  TypeOK'
<1>1. {running, accepting, listening, stopped, db_open, asked}' \subseteq BOOLEAN
  BY Zenon DEF TypeOK
<1> QED
  BY <1>1 DEF TypeOK, WorkerState

(* Every step of a worker preserves the inductive invariant.                *)
LEMMA InvWorker ==
  ASSUME Inv, NEW w \in Workers, WorkerStep(w)
  PROVE  Inv'
<1> DEFINE c0 == worker[w].client
<1>0. /\ TypeOK /\ accepting \in BOOLEAN /\ running \in BOOLEAN
      /\ worker \in [Workers -> WorkerState]
      /\ conn \in [Clients -> {"none", "backlog", "posted", "session", "closed"}]
      /\ request \in [Clients -> BOOLEAN] /\ late \in [Clients -> 0 .. MaxLate]
      /\ in_session(worker[w]) => c0 \in Clients
  BY WorkerStates DEF Inv, TypeOK, WorkerState
<1>1. ASSUME NEW c \in Clients, Accept(w, c)
      PROVE  Inv'
  <2>1. /\ conn[c] = "backlog" /\ worker[w] = Polling
        /\ conn' = [conn EXCEPT ![c] = IF running THEN "posted" ELSE "closed"]
        /\ worker' = [worker EXCEPT ![w] = Accepting] /\ accepting' \in BOOLEAN
        /\ UNCHANGED <<main, db_open, stopper, running, listening, stopped,
                       request, hung_up, late, asked>>
    BY <1>1 DEF Accept, polls, main_vars
  <2>2. /\ conn' \in [Clients -> {"none", "backlog", "posted", "session", "closed"}]
        /\ \A d \in Clients : conn'[d] = "session" <=> conn[d] = "session"
    BY <1>0, <2>1
  <2>3. worker' \in [Workers -> WorkerState] /\ Sessions' /\ Phases' /\ Lateness'
    BY <2>1, <2>2, OutsideSession
  <2> QED
    BY <1>0, <2>1, <2>2, <2>3, TypeStep DEF Inv
<1>2. ASSUME NEW c \in Clients, SessionStarts(w, c)
      PROVE  Inv'
  <2> DEFINE r == [at |-> "loop", client |-> c]
  <2>1. /\ conn[c] = "posted" /\ worker[w] = Polling
        /\ conn' = [conn EXCEPT ![c] = "session"] /\ late' = [late EXCEPT ![c] = 0]
        /\ worker' = [worker EXCEPT ![w] = r]
        /\ UNCHANGED <<main, db_open, stopper, running, accepting, listening, stopped,
                       request, hung_up, asked>>
    BY <1>2 DEF SessionStarts, polls, main_vars, ioc_vars
  <2>2. r \in WorkerState /\ in_session(r) /\ r.client = c /\ r.at = "loop"
    BY DEF WorkerState, in_session
  <2> HIDE DEF r
  <2>3. /\ worker' \in [Workers -> WorkerState] /\ worker'[w] = r
        /\ \A v \in Workers \ {w} : worker'[v] = worker[v]
    BY <1>0, <2>1, <2>2, WorkerGoesOn
  <2>4. \A v \in Workers : in_session(worker[v]) <=> worker[v].client \in Clients
    BY <1>0, WorkerStates
  <2>5. \A v \in Workers : worker[v].client # c
    BY <2>1, <2>4 DEF Inv, Sessions
  <2>6. /\ conn'[c] = "session" /\ \A d \in Clients \ {c} : conn'[d] = conn[d]
        /\ late'[c] = 0 /\ \A d \in Clients \ {c} : late'[d] = late[d]
        /\ conn' \in [Clients -> {"none", "backlog", "posted", "session", "closed"}]
        /\ late' \in [Clients -> 0 .. MaxLate]
    BY <1>0, <2>1 DEF MaxLate
  <2>7. worker[w] \notin {NotStarted, Exited} /\ ~in_session(worker[w])
        /\ worker[w].client \notin Clients
    BY <2>1, ServerAssumption DEF Polling, NotStarted, Exited, in_session
  <2>8. Sessions'
    <3>1. ASSUME NEW v \in Workers, in_session(worker'[v])
          PROVE  conn'[worker'[v].client] = "session"
      BY <3>1, <2>2, <2>3, <2>4, <2>5, <2>6 DEF Inv, Sessions
    <3>2. ASSUME NEW d \in Clients, conn'[d] = "session"
          PROVE  \E v \in Workers : worker'[v].client = d
      <4>1. CASE d = c
        BY <2>2, <2>3, <4>1
      <4>2. CASE d # c
        <5>1. PICK v \in Workers : worker[v].client = d
          BY <2>6, <3>2, <4>2 DEF Inv, Sessions
        <5>2. v # w
          BY <2>7, <5>1
        <5> QED
          BY <2>3, <5>1, <5>2
      <4> QED
        BY <4>1, <4>2
    <3>3. ASSUME NEW u \in Workers, NEW v \in Workers,
                 in_session(worker'[u]), worker'[u].client = worker'[v].client
          PROVE  u = v
      BY <3>3, <2>2, <2>3, <2>4, <2>5 DEF Inv, Sessions
    <3> QED
      BY <3>1, <3>2, <3>3 DEF Sessions, in_session
  <2>9. Phases'
    BY <2>1, <2>3, <2>7 DEF Inv, Phases
  <2>10. Lateness'
    BY <2>1, <2>2, <2>3, <2>4, <2>5, <2>6 DEF Inv, Lateness, in_session
  <2> QED
    BY <1>0, <2>1, <2>3, <2>6, <2>8, <2>9, <2>10, TypeStep DEF Inv
<1>3. CASE AcceptFails(w) \/ AcceptAgain(w) \/ WorkerExits(w)
  <2>1. /\ worker[w] \in {Polling, Accepting}
        /\ \E r \in {Polling, Accepting, Exited} : worker' = [worker EXCEPT ![w] = r]
        /\ accepting' \in BOOLEAN
        /\ UNCHANGED <<main, db_open, stopper, running, listening, stopped,
                       conn, request, hung_up, late, asked>>
    BY <1>0, <1>3
       DEF AcceptFails, AcceptAgain, WorkerExits, polls, main_vars, ioc_vars, client_vars
  <2>2. worker' \in [Workers -> WorkerState] /\ Sessions' /\ Phases' /\ Lateness'
    BY <1>0, <2>1, OutsideSession
  <2> QED
    BY <1>0, <2>1, <2>2, TypeStep DEF Inv
<1>4. ASSUME worker[w].at \in {"loop", "read"}, SessionEnds(w)
      PROVE  Inv'
  <2>1. /\ worker' = [worker EXCEPT ![w] = Polling]
        /\ conn' = [conn EXCEPT ![c0] = "closed"]
        /\ UNCHANGED <<main, db_open, stopper, running, accepting, listening, stopped,
                       request, hung_up, late, asked>>
    BY <1>4 DEF SessionEnds, main_vars, ioc_vars
  <2>2. in_session(worker[w]) /\ c0 \in Clients
    BY <1>0, <1>4 DEF in_session
  <2>3. late[c0] \in 0 .. 1 /\ (running => late[c0] = 0) /\ late' = [late EXCEPT ![c0] = late[c0]]
    BY <1>0, <2>1, <2>2 DEF Inv, Lateness, MaxLate
  <2>4. /\ worker' \in [Workers -> WorkerState]
        /\ conn' \in [Clients -> {"none", "backlog", "posted", "session", "closed"}]
        /\ Sessions' /\ Phases' /\ Lateness'
    BY <2>1, <2>2, <2>3, SessionOver
  <2> QED
    BY <1>0, <2>1, <2>4, TypeStep DEF Inv
<1>5. CASE LoopEnds(w) \/ ReadEnds(w)
  BY <1>4, <1>5 DEF LoopEnds, ReadEnds
<1>6. CASE LoopReads(w) \/ ReadRequest(w)
  <2>1. /\ \E p \in {"read", "serve"} : worker' = [worker EXCEPT ![w].at = p]
        /\ running \/ worker[w].at = "read"
        /\ in_session(worker[w]) /\ c0 \in Clients
        /\ UNCHANGED <<main, db_open, stopper, running, accepting, listening, stopped,
                       conn, request, hung_up, late, asked>>
    BY <1>0, <1>6 DEF LoopReads, ReadRequest, main_vars, ioc_vars, client_vars, in_session
  <2>2. late[c0] = 0 /\ late' = [late EXCEPT ![c0] = 0]
    BY <1>0, <2>1 DEF Inv, Lateness
  <2>3. PICK p \in {"read", "serve"} : worker' = [worker EXCEPT ![w].at = p]
    BY <2>1
  <2>4. worker' \in [Workers -> WorkerState] /\ Sessions' /\ Phases' /\ Lateness'
    <3>1. 0 \in 0 .. 1 /\ p \in {"loop", "read", "serve"}
      BY <2>3
    <3> QED
      BY <2>1, <2>2, <2>3, <3>1, InsideSession
  <2> QED
    BY <1>0, <2>1, <2>4, TypeStep DEF Inv
<1>7. ASSUME worker[w].at = "serve"
      PROVE  /\ in_session(worker[w]) /\ c0 \in Clients
             /\ late_now(c0) \in 0 .. 1 /\ (running => late_now(c0) = 0)
  <2>1. in_session(worker[w]) /\ c0 \in Clients /\ late[c0] = 0
    BY <1>0, <1>7 DEF in_session, Inv, Lateness
  <2> QED
    BY <2>1 DEF late_now, MaxLate
<1>8. CASE Serve(w)
  <2>1. /\ worker[w].at = "serve" /\ worker' = [worker EXCEPT ![w].at = "loop"]
        /\ late' = [late EXCEPT ![c0] = late_now(c0)]
        /\ request' = [request EXCEPT ![c0] = FALSE]
        /\ UNCHANGED <<main, db_open, stopper, running, accepting, listening, stopped,
                       conn, hung_up, asked>>
    BY <1>8 DEF Serve, main_vars, ioc_vars
  <2>2. /\ worker' \in [Workers -> WorkerState] /\ late' \in [Clients -> 0 .. MaxLate]
        /\ Sessions' /\ Phases' /\ Lateness'
    BY <1>7, <2>1, InsideSession
  <2>3. request' \in [Clients -> BOOLEAN]
    BY <1>0, <2>1
  <2> QED
    BY <1>0, <2>1, <2>2, <2>3, TypeStep DEF Inv
<1>9. CASE ServeLast(w)
  <2>1. /\ worker[w].at = "serve" /\ worker' = [worker EXCEPT ![w] = Polling]
        /\ conn' = [conn EXCEPT ![c0] = "closed"]
        /\ late' = [late EXCEPT ![c0] = late_now(c0)]
        /\ request' = [request EXCEPT ![c0] = FALSE]
        /\ UNCHANGED <<main, db_open, stopper, running, accepting, listening, stopped,
                       hung_up, asked>>
    BY <1>9 DEF ServeLast, main_vars, ioc_vars
  <2>2. /\ worker' \in [Workers -> WorkerState] /\ late' \in [Clients -> 0 .. MaxLate]
        /\ conn' \in [Clients -> {"none", "backlog", "posted", "session", "closed"}]
        /\ Sessions' /\ Phases' /\ Lateness'
    BY <1>7, <2>1, SessionOver
  <2>3. request' \in [Clients -> BOOLEAN]
    BY <1>0, <2>1
  <2> QED
    BY <1>0, <2>1, <2>2, <2>3, TypeStep DEF Inv
<1>10. CASE ServeThrows(w)
  <2>1. /\ main' = "terminated" /\ db_open' = FALSE /\ stopper' = "none"
        /\ running' = FALSE /\ accepting' = FALSE /\ listening' = FALSE /\ stopped' = TRUE
        /\ worker' = [v \in Workers |-> Exited]
        /\ conn' = [c \in Clients |-> IF conn[c] = "none" THEN "none" ELSE "closed"]
        /\ UNCHANGED <<request, hung_up, late, asked>>
    BY <1>10 DEF ServeThrows
  <2>2. \A v \in Workers : worker'[v] = Exited /\ ~in_session(worker'[v])
    BY <2>1 DEF Exited, in_session
  <2>3. {running, accepting, listening, stopped, db_open, asked}' \subseteq BOOLEAN
    <3>1. asked \in BOOLEAN
      BY Zenon DEF Inv, TypeOK
    <3> QED
      BY Zenon, <2>1, <3>1
  <2>4. TypeOK'
    BY <2>1, <2>3 DEF Inv, TypeOK
  <2>5. Sessions' /\ Phases'
    BY <2>1, <2>2 DEF Sessions, Phases, in_session
  <2>6. Lateness'
    BY <2>1, <2>2 DEF Inv, Lateness, in_session
  <2> QED
    BY <2>4, <2>5, <2>6 DEF Inv
<1> QED
  BY <1>1, <1>2, <1>3, <1>5, <1>6, <1>8, <1>9, <1>10 DEF WorkerStep

(* The invariant is inductive.                                              *)
LEMMA InvNext == Inv /\ [Next]_vars => Inv'
<1> SUFFICES ASSUME Inv, [Next]_vars PROVE Inv'
  OBVIOUS
<1>1. CASE UNCHANGED vars
  BY <1>1 DEF vars, main_vars, ioc_vars, client_vars, Inv, TypeOK, Sessions, Phases, Lateness
<1>2. CASE Next
  BY <1>2, InvMain, InvSignal, InvWorker, InvClient DEF Next
<1> QED
  BY <1>1, <1>2

(****************************************************************************)
(* The state of main, of the workers and of the connections stays well      *)
(* typed: in particular a worker has a client exactly while in a session.   *)
(****************************************************************************)
THEOREM TypeCorrect == Spec => []TypeOK
<1>1. Inv => TypeOK
  BY DEF Inv
<1> QED
  BY <1>1, InvInit, InvNext, PTL DEF Spec

(****************************************************************************)
(* No worker is in a session when the store is closed, with any number of   *)
(* workers and wherever the signal came: wait() joins them all first.       *)
(****************************************************************************)
THEOREM StoreOpen == Spec => []StoreOpenInSessions
<1>1. Inv => StoreOpenInSessions
  BY DEF Inv, Phases, StoreOpenInSessions, NotStarted, Exited
<1> QED
  BY <1>1, InvInit, InvNext, PTL DEF Spec

(****************************************************************************)
(* An accepted connection is served by exactly one worker for as long as    *)
(* its session lasts, and by none before and after.                         *)
(****************************************************************************)
THEOREM ServedByOne == Spec => []OneWorkerPerSession
<1>1. Inv => OneWorkerPerSession
  <2> SUFFICES ASSUME Inv, NEW c \in Clients
               PROVE  Cardinality({w \in Workers : worker[w].client = c})
                        = IF conn[c] = "session" THEN 1 ELSE 0
    BY DEF OneWorkerPerSession
  <2>1. \A w \in Workers : in_session(worker[w]) <=> worker[w].client \in Clients
    BY WorkerStates DEF Inv
  <2>2. CASE conn[c] = "session"
    <3>1. PICK w \in Workers : worker[w].client = c
      BY <2>2 DEF Inv, Sessions
    <3>2. {v \in Workers : worker[v].client = c} = {w}
      BY <2>1, <3>1 DEF Inv, Sessions
    <3> QED
      BY <2>2, <3>2, FS_Singleton
  <2>3. CASE conn[c] # "session"
    <3>1. {w \in Workers : worker[w].client = c} = {}
      BY <2>1, <2>3 DEF Inv, Sessions
    <3> QED
      BY <2>3, <3>1, FS_EmptySet
  <2> QED
    BY <2>2, <2>3
<1> QED
  BY <1>1, InvInit, InvNext, PTL DEF Spec

(****************************************************************************)
(* Once running_ is false a session answers at most one more request, the   *)
(* one it was waiting for or serving.                                       *)
(****************************************************************************)
THEOREM Drains == Spec => []StopDrains
<1>1. Inv => StopDrains
  BY DEF Inv, Lateness, StopDrains
<1> QED
  BY <1>1, InvInit, InvNext, PTL DEF Spec
=============================================================================
