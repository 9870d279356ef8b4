--------------------------- MODULE AgentLifecycle ---------------------------
(***************************************************************************)
(* The agent as a process: how it starts, tells systemd that it is ready,  *)
(* serves the changes of one service, and stops or dies while some are     *)
(* under way; and what systemd does with it and with the runs of targetcli *)
(* it leaves behind.                                                       *)
(*                                                                         *)
(* Time passes in ticks.  What waits for nothing takes no time: Tick is    *)
(* disabled while it is due.                                               *)
(***************************************************************************)
EXTENDS Naturals, FiniteSets, SequencesExt

CONSTANTS
  Requests,         \* changes of one service that may be under way at once
  Deadline,         \* of a request: 12 s for backstores and mappings
  ShutdownTimeout,  \* AGENT_SHUTDOWN_TIMEOUT: 10 s
  StopTimeout,      \* TimeoutStopSec: 20 s
  MaxFailures,      \* how often the agent fails
  MaxStops          \* how often the unit is stopped

ASSUME ConstantsOK ==
  /\ {Deadline, ShutdownTimeout, StopTimeout} \subseteq Nat \ {0}
  /\ ShutdownTimeout < StopTimeout
  /\ {MaxFailures, MaxStops} \subseteq Nat

VARIABLES
  wish,       \* what the operator wants of the unit: "run" or "stop"
  unit,       \* the state of the unit
  main,       \* the next thing main() does
  termed,     \* SIGTERM has come and NotifyContext has it
  served,     \* errCh: what has become of srv.Serve
  socket,     \* whether the socket's file is there, and leads to a listener
  req,        \* req[r]: where request r is
  age,        \* age[r]: how long ago it was accepted
  queue,      \* the requests at the mutex, its holder first
  children,   \* the requests whose targetcli runs
  orphans,    \* those of requests whose agent is gone
  sinceStop,  \* how long ago systemd began to stop the unit
  result,     \* how the process ended: "clean" or "failed"
  failures, stops  \* how many there have been

systemd == <<wish, unit, result, sinceStop, stops>>
process == <<main, termed, served, socket>>
serving == <<req, age, queue, children, orphans>>
vars    == <<systemd, process, serving, failures>>

-----------------------------------------------------------------------------
Alive   == main # "none"
Pending == {r \in Requests : req[r] # "none"}

Init ==
  /\ wish = "stop" /\ unit = "inactive"
  /\ main = "none" /\ termed = FALSE /\ served = "none" /\ socket = "none"
  /\ req = [r \in Requests |-> "none"]
  /\ age = [r \in Requests |-> 0]
  /\ queue = <<>>
  /\ children = {} /\ orphans = {}
  /\ result = "clean" /\ sinceStop = 0 /\ failures = 0 /\ stops = 0

\* The requests are gone with their connections; left are the commands in S.
Abandoned(S) ==
  /\ req' = [r \in Requests |-> "none"]
  /\ age' = [r \in Requests |-> 0]
  /\ queue' = <<>>
  /\ children' = {}
  /\ orphans' = orphans \union S

\* The process ends with a result; its commands in S go on.
Exit(res, S) ==
  /\ main' = "none" /\ termed' = FALSE /\ served' = "none"
  /\ unit' = "ended" /\ result' = res
  /\ Abandoned(S)

FileOf(s) == IF s = "live" THEN "stale" ELSE s

Fails == failures < MaxFailures /\ failures' = failures + 1

-----------------------------------------------------------------------------
\* main(), step by step. A socket that was left behind is removed first.
Listen ==
  /\ main = "listen"
  /\ socket' = "live" /\ served' = "running" /\ main' = "ready"
  /\ UNCHANGED <<systemd, termed, serving, failures>>

\* READY=1
NotifyReady ==
  /\ main = "ready"
  /\ main' = "signals"
  /\ unit' = IF unit = "starting" THEN "active" ELSE unit
  /\ UNCHANGED <<wish, result, sinceStop, stops, termed, served, socket, serving, failures>>

\* From here on SIGTERM does not end the process by itself.
NotifyContext ==
  /\ main = "signals"
  /\ main' = "select"
  /\ UNCHANGED <<systemd, termed, served, socket, serving, failures>>

\* STOPPING=1
SelectSignal ==
  /\ main = "select" /\ termed
  /\ main' = "stopping"
  /\ UNCHANGED <<systemd, termed, served, socket, serving, failures>>

\* Wrong: an agent whose server has failed returns as if it had been stopped.
SelectReturn ==
  /\ main = "select" /\ served = "failed"
  /\ Exit("clean", children)
  /\ UNCHANGED <<wish, sinceStop, stops, socket, failures>>

\* log.Fatalf runs no deferred call.
SelectError ==
  /\ main = "select" /\ served = "failed"
  /\ Exit("failed", children)
  /\ UNCHANGED <<wish, sinceStop, stops, socket, failures>>

\* Shutdown closes the listener, which removes its file.
BeginShutdown ==
  /\ main = "stopping"
  /\ main' = "shutdown" /\ socket' = "none"
  /\ UNCHANGED <<systemd, termed, served, serving, failures>>

\* Wrong: the context of the shutdown is made from that of the signal.
NoPatience == TRUE

\* Shutdown returns when no request is left, or when its context is done.
ShutdownReturns == Pending = {} \/ sinceStop >= ShutdownTimeout

EndShutdown ==
  /\ main = "shutdown" /\ ShutdownReturns
  /\ main' = IF Pending = {} THEN "join" ELSE "close"
  /\ UNCHANGED <<systemd, termed, served, socket, serving, failures>>

\* Close breaks the connections and with them the contexts of their requests;
\* a command is killed by that, or not before the process is gone.
Close ==
  /\ main = "close"
  /\ main' = "join"
  /\ \E S \in SUBSET children : Abandoned(S)
  /\ UNCHANGED <<systemd, termed, served, socket, failures>>

\* What is received from errCh decides how the process ends.
Join ==
  /\ main = "join" /\ served \in {"closed", "failed"}
  /\ IF served = "failed"
     THEN /\ Exit("failed", children)
          /\ UNCHANGED <<wish, sinceStop, stops, socket, failures>>
     ELSE /\ main' = "cleanup"
          /\ UNCHANGED <<systemd, termed, served, socket, serving, failures>>

\* The deferred calls.
Cleanup ==
  /\ main = "cleanup"
  /\ socket' = "none"
  /\ Exit("clean", children)
  /\ UNCHANGED <<wish, sinceStop, stops, failures>>

Stopping == {"shutdown", "close", "join"}

\* Wrong: only an error is sent to errCh.
ServeEndsSilently ==
  /\ served = "running" /\ main \in Stopping
  /\ served' = "gone"
  /\ UNCHANGED <<systemd, main, termed, socket, serving, failures>>

\* Serve returns ErrServerClosed, and its goroutine sends nil.
ServeEnds ==
  /\ served = "running" /\ main \in Stopping
  /\ served' = "closed"
  /\ UNCHANGED <<systemd, main, termed, socket, serving, failures>>

Main ==
  \/ Listen \/ NotifyReady \/ NotifyContext \/ SelectSignal \/ SelectError
  \/ BeginShutdown \/ EndShutdown \/ Close \/ Join \/ Cleanup \/ ServeEnds

\* Serve gives up, and closes its listener as it returns.
ServeFails ==
  /\ served = "running" /\ main \in {"ready", "signals", "select"}
  /\ Fails
  /\ served' = "failed" /\ socket' = "none"
  /\ UNCHANGED <<systemd, main, termed, serving>>

\* The agent cannot listen, panics, or is killed.
Crash ==
  /\ Alive
  /\ Fails
  /\ socket' = FileOf(socket)
  /\ Exit("failed", children)
  /\ UNCHANGED <<wish, sinceStop, stops>>

-----------------------------------------------------------------------------
\* Wrong: the one that came last is next.
NextInLine(q, r) ==
  IF q # <<>> /\ req[q[1]] = "running" THEN <<q[1], r>> \o Tail(q) ELSE <<r>> \o q

\* The mutex is handed on in the order in which it was asked for.
InLine(q, r) == Append(q, r)

\* A handler is started; its context begins to run, and it asks for the mutex.
Connect(r) ==
  /\ Alive /\ socket = "live" /\ req[r] = "none"
  /\ req' = [req EXCEPT ![r] = "lock"]
  /\ queue' = InLine(queue, r)
  /\ UNCHANGED <<systemd, process, age, children, orphans, failures>>

Overdue(r) == age[r] >= Deadline

Holds(r) == queue # <<>> /\ queue[1] = r

\* Wrong: the service returns without letting go.
ReturnLocked(r) ==
  /\ req' = [req EXCEPT ![r] = "reply"]
  /\ UNCHANGED queue

\* The service lets go of the mutex; its handler has an answer.
Return(r) ==
  /\ req' = [req EXCEPT ![r] = "reply"]
  /\ queue' = Tail(queue)

\* A context that is done starts no command.
Command(r) ==
  /\ Alive /\ req[r] = "lock" /\ Holds(r)
  /\ IF Overdue(r)
     THEN Return(r) /\ UNCHANGED children
     ELSE /\ req' = [req EXCEPT ![r] = "running"]
          /\ children' = children \union {r}
          /\ UNCHANGED queue
  /\ UNCHANGED <<systemd, process, age, orphans, failures>>

\* targetcli ends, or is killed at the deadline; the service returns or goes on
\* with another command.
CommandEnds(r) ==
  /\ Alive /\ r \in children
  /\ children' = children \ {r}
  /\ \/ Return(r)
     \/ /\ ~Overdue(r)
        /\ req' = [req EXCEPT ![r] = "lock"]
        /\ UNCHANGED queue
  /\ UNCHANGED <<systemd, process, age, orphans, failures>>

Reply(r) ==
  /\ Alive /\ req[r] = "reply"
  /\ req' = [req EXCEPT ![r] = "none"]
  /\ age' = [age EXCEPT ![r] = 0]
  /\ UNCHANGED <<systemd, process, queue, children, orphans, failures>>

\* The command of an agent that is gone ends by itself.
OrphanEnds(r) ==
  /\ r \in orphans
  /\ orphans' = orphans \ {r}
  /\ UNCHANGED <<systemd, process, req, age, queue, children, failures>>

-----------------------------------------------------------------------------
\* systemd. ExecStart:
Launch ==
  /\ unit' = "starting" /\ main' = "listen"
  /\ sinceStop' = 0

Start ==
  /\ unit = "inactive"
  /\ wish' = "run"
  /\ Launch
  /\ UNCHANGED <<result, stops, termed, served, socket, serving, failures>>

\* Restart=on-failure, after RestartSec.
Restart ==
  /\ unit = "waiting"
  /\ Launch
  /\ UNCHANGED <<wish, result, stops, termed, served, socket, serving, failures>>

\* KillMode=control-group: SIGTERM goes to the agent and to every targetcli it
\* runs, so that the service that waits for it returns and lets go of the mutex.
\* The agent dies of it as long as NotifyContext has not run.
Stop ==
  /\ wish = "run" /\ unit \in {"starting", "active"} /\ Alive
  /\ stops < MaxStops /\ stops' = stops + 1
  /\ wish' = "stop"
  /\ sinceStop' = 0
  /\ IF main = "select"
     THEN /\ unit' = "stopping"
          /\ termed' = TRUE
          /\ children' = {}
          /\ req' = [r \in Requests |-> IF r \in children THEN "reply" ELSE req[r]]
          /\ queue' = IF children = {} THEN queue ELSE Tail(queue)
          /\ UNCHANGED <<result, main, served, socket, age, orphans>>
     ELSE /\ Exit("clean", {})
          /\ socket' = FileOf(socket)
  /\ UNCHANGED failures

StopWaiting ==
  /\ wish = "run" /\ unit = "waiting"
  /\ stops < MaxStops /\ stops' = stops + 1
  /\ wish' = "stop" /\ unit' = "inactive"
  /\ UNCHANGED <<result, sinceStop, process, serving, failures>>

\* Wrong: KillMode=process.
LeaveCommands == orphans

\* KillMode=control-group: before the unit is left or started anew systemd kills
\* what the agent has left behind.
AfterKill == {}

\* RuntimeDirectory goes with the unit, and a failure is followed by a restart.
Bury ==
  /\ unit = "ended"
  /\ orphans' = AfterKill
  /\ socket' = "none"
  /\ unit' = IF wish = "run" /\ result = "failed" THEN "waiting" ELSE "inactive"
  /\ UNCHANGED <<wish, result, sinceStop, stops, main, termed, served,
                 req, age, queue, children, failures>>

Systemd == Bury \/ Restart

-----------------------------------------------------------------------------
\* What is due at once.
MainDue ==
  \/ main \in {"listen", "ready", "signals", "stopping", "close", "cleanup"}
  \/ main = "select" /\ (termed \/ served = "failed")
  \/ main = "shutdown" /\ ShutdownReturns
  \/ main \in Stopping /\ served = "running"
  \/ main = "join" /\ served \in {"closed", "failed"}

RequestDue(r) ==
  \/ req[r] = "lock" /\ Holds(r)
  \/ r \in children /\ Overdue(r)
  \/ req[r] = "reply"

\* A waiter whose deadline has passed stays at the mutex: one tick above the
\* deadline stands for all.
Older(r) == IF r \in Pending /\ age[r] <= Deadline THEN age[r] + 1 ELSE age[r]

Tick ==
  /\ Alive
  /\ (Pending # {} \/ unit = "stopping")
  /\ ~MainDue /\ \A r \in Requests : ~RequestDue(r)
  /\ sinceStop < StopTimeout
  /\ age' = [r \in Requests |-> Older(r)]
  /\ sinceStop' = IF unit = "stopping" THEN sinceStop + 1 ELSE sinceStop
  /\ UNCHANGED <<wish, unit, result, stops, process, req, queue, children, orphans, failures>>

Handler(r) == Command(r) \/ CommandEnds(r) \/ Reply(r)

Next ==
  \/ Main \/ ServeFails \/ Crash
  \/ \E r \in Requests : Connect(r) \/ Handler(r) \/ OrphanEnds(r)
  \/ Start \/ Stop \/ StopWaiting \/ Systemd
  \/ Tick

\* The process and systemd run, and time passes.
Fairness ==
  /\ WF_vars(Main) /\ WF_vars(Systemd) /\ WF_vars(Tick)
  /\ \A r \in Requests : WF_vars(Handler(r))

Spec == Init /\ [][Next]_vars /\ Fairness

-----------------------------------------------------------------------------
ProcessTyped ==
  /\ wish \in {"run", "stop"}
  /\ unit \in {"inactive", "starting", "active", "stopping", "ended", "waiting"}
  /\ main \in {"none", "listen", "ready", "signals", "select", "stopping",
               "cleanup"} \union Stopping
  /\ termed \in BOOLEAN /\ result \in {"clean", "failed"}
  /\ served \in {"none", "running", "failed", "closed"}
  /\ socket \in {"none", "live", "stale"}
  /\ socket = "live" => served = "running"
  /\ socket = "stale" => ~Alive
  /\ sinceStop \in 0..StopTimeout
  /\ failures \in 0..MaxFailures /\ stops \in 0..MaxStops

RequestsTyped ==
  /\ req \in [Requests -> {"none", "lock", "running", "reply"}]
  /\ age \in [Requests -> 0..(Deadline + 1)]
  /\ ToSet(queue) = {r \in Requests : req[r] \in {"lock", "running"}}
  /\ Cardinality(ToSet(queue)) = Len(queue)
  /\ children = {r \in Requests : req[r] = "running"}
  /\ \A r \in children : Holds(r)
  /\ orphans \subseteq Requests

\* Every variable has its type; the mutex is with the request whose command runs;
\* a file of the socket that leads to nobody is left by a dead agent only.
TypeOK == ProcessTyped /\ RequestsTyped

\* What a mutex of the agent is for holds across its death too: never do two
\* commands of one service run at once, be the one that of an agent that crashed,
\* gave up, or was stopped with its requests cut off, and the other that of the
\* agent started after it.
MutexSpansRestarts == Cardinality(children) + Cardinality(orphans) <= 1

\* However many wait for the mutex, a request is through by its own deadline,
\* although Lock does not look at the context: who is before it has the earlier
\* deadline.
AnsweredInTime == \A r \in Requests : age[r] <= Deadline

\* A stop is over before systemd loses patience, whatever the agent was doing and
\* if its server had failed by itself: no way through main() blocks. What systemd
\* does otherwise, SIGKILL to all that is left, is never needed.
StopsInTime == sinceStop < StopTimeout

\* A request that an orderly stop cuts off was given ShutdownTimeout from the
\* stop on; with AnsweredInTime, it came in the last Deadline - ShutdownTimeout
\* before it.
CutIsOld ==
  [][main = "close" => \A r \in Requests :
       req[r] # "none" /\ req'[r] = "none" => age[r] >= ShutdownTimeout]_vars

\* As long as the operator wants it to run, the agent is there again after every
\* failure: READY was told and the socket leads to it.
AgentComesBack ==
  wish = "run" ~> (unit = "active" /\ socket = "live") \/ wish = "stop"
=============================================================================
