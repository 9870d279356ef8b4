----------------------- MODULE AgentLifecycle_proofs -----------------------
(***************************************************************************)
(* What the agent and systemd keep true for any number of requests and any *)
(* times with ShutdownTimeout < StopTimeout.                               *)
(*                                                                         *)
(* Who waits for the mutex waits in the order of deadlines, the holder     *)
(* first (Queued): time only passes while the holder's command has not     *)
(* used up its deadline, so nobody's is (AnsweredInTime).  The phase of    *)
(* main() tells what is left of an agent (Phases): the commands of one     *)
(* that is gone, or has cut its requests off, run only where nothing can   *)
(* be accepted, until systemd has killed them (MutexSpansRestarts).  And   *)
(* time passes in a stop only while Shutdown waits (Timely), so that what  *)
(* it gives up on is old (CutIsOld) and the stop over in time              *)
(* (StopsInTime).                                                          *)
(***************************************************************************)
EXTENDS AgentLifecycle, SequenceTheorems, FiniteSetTheorems, TLAPS

\* A queue has each request once, and none before one that is older.
Distinct(q) == \A i, j \in 1..Len(q) : q[i] = q[j] => i = j
Ordered(q, old) == \A i, j \in 1..Len(q) : i < j => old[q[j]] <= old[q[i]]

Queued ==
  /\ queue \in Seq(Requests) /\ Distinct(queue) /\ Ordered(queue, age)
  /\ \A r \in Requests : req[r] = "none" => age[r] = 0

Phases ==
  /\ ~Alive <=> unit \in {"inactive", "ended", "waiting"}
  /\ main \in {"none", "listen"} <=> served = "none"
  /\ termed <=> unit = "stopping"
  /\ main \in {"stopping", "cleanup"} \union Stopping => termed
  /\ termed => main \in {"select", "stopping", "cleanup"} \union Stopping
  /\ unit \in {"inactive", "waiting"} => socket = "none" /\ orphans = {}
  /\ main \in {"cleanup"} \union Stopping => socket = "none"
  /\ main \in {"none", "join", "cleanup"} => Pending = {}
  /\ orphans # {} => main \in {"join", "cleanup"} \/ unit = "ended"
  /\ \A r, s \in orphans : r = s

\* How far a stop has got, and how old are the requests it waits for.
Timely ==
  /\ sinceStop <= ShutdownTimeout
  /\ main \in {"select", "stopping"} /\ termed => sinceStop = 0
  /\ main \in {"shutdown", "close"} => \A r \in Pending : age[r] >= sinceStop
  /\ main = "close" => sinceStop >= ShutdownTimeout

\* What is kept of the requests, and of the process.
RequestsKept == RequestsTyped /\ Queued /\ AnsweredInTime
ProcessKept  == ProcessTyped /\ Phases

IInv == RequestsKept /\ ProcessKept /\ Timely

-----------------------------------------------------------------------------
LEMMA TimesTyped ==
  /\ Deadline \in Nat \ {0} /\ ShutdownTimeout \in Nat \ {0} /\ StopTimeout \in Nat \ {0}
  /\ ShutdownTimeout < StopTimeout /\ MaxFailures \in Nat /\ MaxStops \in Nat
BY ConstantsOK

\* A queue is as long as there are requests in it.
LEMMA QueueLength ==
  ASSUME NEW q \in Seq(Requests), Distinct(q)
  PROVE  Cardinality(ToSet(q)) = Len(q)
<1>1. q \in [1..Len(q) -> ToSet(q)] /\ Len(q) \in Nat /\ DOMAIN q = 1..Len(q)
  BY LenProperties DEF ToSet
<1>2. q \in Injection(1..Len(q), ToSet(q))
  BY <1>1 DEF Injection, IsInjective, Distinct
<1>3. q \in Surjection(1..Len(q), ToSet(q))
  BY <1>1 DEF Surjection, ToSet
<1>4. ExistsBijection(1..Len(q), ToSet(q))
  BY <1>2, <1>3 DEF ExistsBijection, Bijection
<1> QED
  BY <1>1, <1>4, FS_CountingElements

\* Its head leaves a queue: the others keep their order.
LEMMA HeadLeaves ==
  ASSUME NEW q \in Seq(Requests), q # <<>>, Distinct(q), NEW old, Ordered(q, old)
  PROVE  /\ Tail(q) \in Seq(Requests) /\ Distinct(Tail(q)) /\ Ordered(Tail(q), old)
         /\ ToSet(Tail(q)) = ToSet(q) \ {q[1]}
<1>1. PICK n \in Nat : n = Len(q) /\ n > 0
  BY EmptySeq
<1>2. PICK t \in Seq(Requests) : /\ t = Tail(q) /\ Len(t) = n - 1
                                /\ \A i \in 1..(n - 1) : t[i] = q[i + 1]
  <2>1. /\ Tail(q) \in Seq(Requests) /\ Len(Tail(q)) = Len(q) - 1
        /\ \A i \in 1..Len(Tail(q)) : Tail(q)[i] = q[i + 1]
    BY HeadTailProperties
  <2> QED
    BY <1>1, <2>1
<1>3. Distinct(t)
  BY <1>1, <1>2 DEF Distinct
<1>4. Ordered(t, old)
  <2> SUFFICES ASSUME NEW i \in 1..Len(t), NEW j \in 1..Len(t), i < j
               PROVE  old[t[j]] <= old[t[i]]
    BY DEF Ordered
  <2>1. /\ i + 1 \in 1..Len(q) /\ j + 1 \in 1..Len(q) /\ i + 1 < j + 1
        /\ t[i] = q[i + 1] /\ t[j] = q[j + 1]
    BY <1>1, <1>2
  <2> QED
    BY <2>1 DEF Ordered
<1>5. ASSUME NEW x
      PROVE  x \in ToSet(t) <=> x \in ToSet(q) \ {q[1]}
  <2>1. DOMAIN t = 1..(n - 1) /\ DOMAIN q = 1..n
    BY <1>1, <1>2
  <2>2. ASSUME x \in ToSet(t)
        PROVE  x \in ToSet(q) \ {q[1]}
    <3>1. PICK i \in 1..(n - 1) : x = t[i]
      BY <2>1, <2>2 DEF ToSet
    <3>2. x = q[i + 1] /\ i + 1 \in 1..n /\ 1 \in 1..n /\ i + 1 # 1
      BY <1>1, <1>2, <3>1
    <3> QED
      BY <1>1, <2>1, <3>2 DEF ToSet, Distinct
  <2>3. ASSUME x \in ToSet(q) \ {q[1]}
        PROVE  x \in ToSet(t)
    <3>1. PICK i \in 1..n : x = q[i] /\ i # 1
      BY <2>1, <2>3 DEF ToSet
    <3>2. i - 1 \in 1..(n - 1) /\ t[i - 1] = q[(i - 1) + 1] /\ (i - 1) + 1 = i
      BY <1>1, <1>2, <3>1
    <3> QED
      BY <2>1, <3>1, <3>2 DEF ToSet
  <2> QED
    BY <2>2, <2>3
<1> QED
  BY <1>2, <1>3, <1>4, <1>5

\* One more joins a queue, as young as anyone in it.
LEMMA OneJoins ==
  ASSUME NEW q \in Seq(Requests), Distinct(q), NEW old, Ordered(q, old),
         NEW r \in Requests, r \notin ToSet(q),
         \A x \in ToSet(q) : old[r] <= old[x]
  PROVE  /\ Append(q, r) \in Seq(Requests) /\ Distinct(Append(q, r))
         /\ Ordered(Append(q, r), old)
         /\ ToSet(Append(q, r)) = ToSet(q) \union {r}
         /\ q # <<>> => Append(q, r)[1] = q[1] /\ Append(q, r) # <<>>
<1>1. PICK n \in Nat : n = Len(q) /\ DOMAIN q = 1..n
  BY LenProperties
<1>2. PICK t \in Seq(Requests) : /\ t = Append(q, r) /\ Len(t) = n + 1
                                /\ DOMAIN t = 1..(n + 1)
                                /\ \A i \in 1..n : t[i] = q[i]
                                /\ t[n + 1] = r
  <2>1. /\ Append(q, r) \in Seq(Requests) /\ Len(Append(q, r)) = Len(q) + 1
        /\ \A i \in 1..Len(q) : Append(q, r)[i] = q[i]
        /\ Append(q, r)[Len(q) + 1] = r
    OBVIOUS
  <2>2. DOMAIN Append(q, r) = 1..Len(Append(q, r))
    BY <2>1, LenProperties
  <2> QED
    BY <1>1, <2>1, <2>2
<1>3. \A i \in 1..n : q[i] \in ToSet(q) /\ q[i] # r
  BY <1>1 DEF ToSet
<1>4. Distinct(t)
  BY <1>1, <1>2, <1>3 DEF Distinct
<1>5. Ordered(t, old)
  <2> SUFFICES ASSUME NEW i \in 1..(n + 1), NEW j \in 1..(n + 1), i < j
               PROVE  old[t[j]] <= old[t[i]]
    BY <1>2 DEF Ordered
  <2>1. i \in 1..n
    OBVIOUS
  <2>2. CASE j \in 1..n
    BY <1>1, <1>2, <2>1, <2>2 DEF Ordered
  <2>3. CASE j = n + 1
    BY <1>2, <1>3, <2>1, <2>3
  <2> QED
    BY <2>2, <2>3
<1>6. ToSet(t) = ToSet(q) \union {r}
  BY <1>1, <1>2 DEF ToSet
<1>7. q # <<>> => t[1] = q[1] /\ t # <<>>
  BY <1>1, <1>2, EmptySeq
<1> QED
  BY <1>2, <1>4, <1>5, <1>6, <1>7

-----------------------------------------------------------------------------
\* What a step has to leave of the requests.
LEMMA RequestsReached ==
  ASSUME req' \in [Requests -> {"none", "lock", "running", "reply"}],
         age' \in [Requests -> 0..Deadline],
         queue' \in Seq(Requests), Distinct(queue'), Ordered(queue', age'),
         ToSet(queue') = {r \in Requests : req'[r] \in {"lock", "running"}},
         children' = {r \in Requests : req'[r] = "running"},
         \A r \in children' : queue' # <<>> /\ queue'[1] = r,
         orphans' \subseteq Requests,
         \A r \in Requests : req'[r] = "none" => age'[r] = 0
  PROVE  RequestsKept'
<1>1. age' \in [Requests -> 0..(Deadline + 1)] /\ AnsweredInTime'
  BY TimesTyped DEF AnsweredInTime
<1>2. Cardinality(ToSet(queue')) = Len(queue')
  BY QueueLength
<1> QED
  BY <1>1, <1>2 DEF RequestsKept, RequestsTyped, Queued, Holds

\* What is known of the requests before a step.
LEMMA RequestsNow ==
  ASSUME RequestsKept
  PROVE  /\ req \in [Requests -> {"none", "lock", "running", "reply"}]
         /\ age \in [Requests -> 0..Deadline]
         /\ queue \in Seq(Requests) /\ Distinct(queue) /\ Ordered(queue, age)
         /\ ToSet(queue) = {r \in Requests : req[r] \in {"lock", "running"}}
         /\ children = {r \in Requests : req[r] = "running"}
         /\ \A r \in children : queue # <<>> /\ queue[1] = r
         /\ orphans \subseteq Requests
         /\ \A r \in Requests : req[r] = "none" => age[r] = 0
BY TimesTyped DEF RequestsKept, RequestsTyped, Queued, Holds, AnsweredInTime

\* Those at the mutex are the members of the queue; its head is one of them.
LEMMA HeadWaits ==
  ASSUME NEW q \in Seq(Requests), q # <<>>
  PROVE  q[1] \in ToSet(q)
BY EmptySeq DEF ToSet

LEMMA RequestsGone ==
  ASSUME RequestsKept, NEW S \in SUBSET children, Abandoned(S)
  PROVE  RequestsKept'
<1>1. /\ queue' \in Seq(Requests) /\ Distinct(queue') /\ Ordered(queue', age')
      /\ ToSet(queue') = {}
  BY DEF Abandoned, Distinct, Ordered, ToSet
<1>2. /\ req' = [r \in Requests |-> "none"] /\ age' = [r \in Requests |-> 0]
      /\ children' = {} /\ orphans' \subseteq Requests
  BY RequestsNow DEF Abandoned
<1>3. age' \in [Requests -> 0..Deadline]
  BY <1>2, TimesTyped
<1> QED
  BY <1>1, <1>2, <1>3, RequestsReached

LEMMA RequestsStay ==
  ASSUME RequestsKept, UNCHANGED <<req, age, queue, children>>, orphans' \subseteq Requests
  PROVE  RequestsKept'
BY RequestsNow, RequestsReached

LEMMA ConnectKeeps ==
  ASSUME RequestsKept, NEW r \in Requests, Connect(r)
  PROVE  RequestsKept'
<1>1. /\ req[r] = "none" /\ req' = [req EXCEPT ![r] = "lock"]
      /\ queue' = Append(queue, r)
      /\ UNCHANGED <<age, children, orphans>>
  BY DEF Connect, InLine
<1>2. r \notin ToSet(queue) /\ age[r] = 0 /\ \A x \in ToSet(queue) : age[r] <= age[x]
  BY <1>1, RequestsNow, TimesTyped
<1>3. /\ queue' \in Seq(Requests) /\ Distinct(queue') /\ Ordered(queue', age)
      /\ ToSet(queue') = ToSet(queue) \union {r}
      /\ queue # <<>> => queue'[1] = queue[1] /\ queue' # <<>>
  BY <1>1, <1>2, RequestsNow, OneJoins
<1>4. req' \in [Requests -> {"none", "lock", "running", "reply"}]
  BY <1>1, RequestsNow
<1>5. ToSet(queue') = {x \in Requests : req'[x] \in {"lock", "running"}}
  BY <1>1, <1>3, RequestsNow
<1>6. children' = {x \in Requests : req'[x] = "running"}
  BY <1>1, RequestsNow
<1>7. \A x \in children' : queue' # <<>> /\ queue'[1] = x
  BY <1>1, <1>3, RequestsNow
<1>8. \A x \in Requests : req'[x] = "none" => age'[x] = 0
  BY <1>1, RequestsNow
<1> QED
  BY <1>1, <1>3, <1>4, <1>5, <1>6, <1>7, <1>8, RequestsNow, RequestsReached

\* The service of the holder returns, its command having ended if one ran.
LEMMA ReturnKeeps ==
  ASSUME RequestsKept, NEW r \in Requests, Holds(r), Return(r),
         children' = children \ {r}, UNCHANGED <<age, orphans>>
  PROVE  RequestsKept'
<1>1. /\ queue # <<>> /\ r = queue[1]
      /\ req' = [req EXCEPT ![r] = "reply"] /\ queue' = Tail(queue)
  BY DEF Holds, Return
<1>2. /\ queue' \in Seq(Requests) /\ Distinct(queue') /\ Ordered(queue', age)
      /\ ToSet(queue') = ToSet(queue) \ {r}
  BY <1>1, RequestsNow, HeadLeaves
<1>3. req' \in [Requests -> {"none", "lock", "running", "reply"}]
  BY <1>1, RequestsNow
<1>4. ToSet(queue') = {x \in Requests : req'[x] \in {"lock", "running"}}
  BY <1>1, <1>2, RequestsNow
<1>5. children' = {x \in Requests : req'[x] = "running"} /\ children' = {}
  BY <1>1, RequestsNow
<1>6. \A x \in Requests : req'[x] = "none" => age'[x] = 0
  BY <1>1, RequestsNow
<1> QED
  BY <1>2, <1>3, <1>4, <1>5, <1>6, RequestsNow, RequestsReached

\* The holder starts a command, or its command ends and it goes on.
LEMMA GoOnKeeps ==
  ASSUME RequestsKept, NEW r \in Requests, Holds(r), NEW now \in {"lock", "running"},
         req[r] \in {"lock", "running"},
         req' = [req EXCEPT ![r] = now],
         children' = IF now = "running" THEN children \union {r} ELSE children \ {r},
         UNCHANGED <<age, queue, orphans>>
  PROVE  RequestsKept'
<1>1. queue # <<>> /\ r = queue[1]
  BY DEF Holds
<1>2. req' \in [Requests -> {"none", "lock", "running", "reply"}]
  BY RequestsNow
<1>3. ToSet(queue') = {x \in Requests : req'[x] \in {"lock", "running"}}
  BY RequestsNow
<1>4. children' = {x \in Requests : req'[x] = "running"}
  BY RequestsNow
<1>5. \A x \in children' : queue' # <<>> /\ queue'[1] = x
  BY <1>1, RequestsNow
<1>6. \A x \in Requests : req'[x] = "none" => age'[x] = 0
  BY RequestsNow
<1> QED
  BY <1>2, <1>3, <1>4, <1>5, <1>6, RequestsNow, RequestsReached

LEMMA HandlerKeeps ==
  ASSUME RequestsKept, NEW r \in Requests, Handler(r)
  PROVE  RequestsKept'
<1>1. CASE Command(r)
  <2>1. /\ req[r] = "lock" /\ Holds(r) /\ UNCHANGED <<age, orphans>>
    BY <1>1 DEF Command
  <2>2. CASE Return(r) /\ UNCHANGED children
    <3>1. children' = children \ {r}
      BY <2>1, <2>2, RequestsNow
    <3> QED
      BY <2>1, <2>2, <3>1, ReturnKeeps
  <2>3. CASE /\ req' = [req EXCEPT ![r] = "running"]
             /\ children' = children \union {r}
             /\ UNCHANGED queue
    BY <2>1, <2>3, GoOnKeeps
  <2> QED
    BY <1>1, <2>2, <2>3 DEF Command
<1>2. CASE CommandEnds(r)
  <2>1. /\ r \in children /\ children' = children \ {r} /\ UNCHANGED <<age, orphans>>
    BY <1>2 DEF CommandEnds
  <2>2. Holds(r) /\ req[r] = "running"
    BY <2>1, RequestsNow DEF Holds
  <2>3. CASE Return(r)
    BY <2>1, <2>2, <2>3, ReturnKeeps
  <2>4. CASE req' = [req EXCEPT ![r] = "lock"] /\ UNCHANGED queue
    BY <2>1, <2>2, <2>4, GoOnKeeps
  <2> QED
    BY <1>2, <2>3, <2>4 DEF CommandEnds
<1>3. CASE Reply(r)
  <2>1. /\ req[r] = "reply" /\ req' = [req EXCEPT ![r] = "none"]
        /\ age' = [age EXCEPT ![r] = 0]
        /\ UNCHANGED <<queue, children, orphans>>
    BY <1>3 DEF Reply
  <2>2. age' \in [Requests -> 0..Deadline]
    BY <2>1, RequestsNow, TimesTyped
  <2>3. \A i \in 1..Len(queue) : queue[i] \in Requests /\ queue[i] # r
    BY <2>1, RequestsNow DEF ToSet
  <2>4. Ordered(queue', age')
    BY <2>1, <2>3, RequestsNow DEF Ordered
  <2>5. req' \in [Requests -> {"none", "lock", "running", "reply"}]
    BY <2>1, RequestsNow
  <2>6. /\ ToSet(queue') = {x \in Requests : req'[x] \in {"lock", "running"}}
        /\ children' = {x \in Requests : req'[x] = "running"}
        /\ \A x \in Requests : req'[x] = "none" => age'[x] = 0
    BY <2>1, RequestsNow
  <2> QED
    BY <2>1, <2>2, <2>4, <2>5, <2>6, RequestsNow, RequestsReached
<1> QED
  BY <1>1, <1>2, <1>3 DEF Handler

\* SIGTERM ends the command that runs, if any: the service of its request returns.
LEMMA StopKeeps ==
  ASSUME RequestsKept, Stop
  PROVE  RequestsKept'
<1>1. CASE main # "select"
  BY <1>1, RequestsGone DEF Stop, Exit
<1>2. CASE main = "select" /\ children = {}
  <2>1. /\ req' = req /\ UNCHANGED <<queue, age, orphans, children>>
    BY <1>2, RequestsNow DEF Stop
  <2> QED
    BY <2>1, RequestsNow, RequestsStay
<1>3. CASE main = "select" /\ children # {}
  <2>1. PICK r \in Requests : r \in children /\ Holds(r) /\ children = {r}
    BY <1>3, RequestsNow DEF Holds
  <2>2. /\ req' = [req EXCEPT ![r] = "reply"] /\ queue' = Tail(queue)
        /\ children' = children \ {r} /\ UNCHANGED <<age, orphans>>
    BY <1>3, <2>1, RequestsNow DEF Stop
  <2> QED
    BY <2>1, <2>2, ReturnKeeps DEF Return
<1> QED
  BY <1>1, <1>2, <1>3

\* Time passes while the command of the holder has time left: so has everyone.
LEMMA TickKeeps ==
  ASSUME RequestsKept, Tick
  PROVE  /\ RequestsKept'
         /\ \A r \in Requests : age'[r] = IF r \in Pending THEN age[r] + 1 ELSE age[r]
<1>1. /\ age' = [r \in Requests |-> Older(r)]
      /\ UNCHANGED <<req, queue, children, orphans>>
      /\ \A r \in Requests : ~RequestDue(r)
  BY DEF Tick
<1>2. ASSUME NEW r \in Pending
      PROVE  age[r] < Deadline /\ r \in ToSet(queue)
  <2>1. r \in ToSet(queue)
    BY <1>1, RequestsNow DEF Pending, RequestDue
  <2>2. PICK i \in 1..Len(queue) : r = queue[i]
    BY <2>1, RequestsNow DEF ToSet
  <2>3. PICK h \in Requests : h = queue[1] /\ queue # <<>> /\ h \in ToSet(queue)
    BY <2>2, RequestsNow, HeadWaits, EmptySeq
  <2>4. req[h] = "running" /\ h \in children
    BY <1>1, <2>3, RequestsNow DEF RequestDue, Holds
  <2>5. age[h] < Deadline
    BY <1>1, <2>3, <2>4, RequestsNow, TimesTyped DEF RequestDue, Overdue
  <2>6. age[r] <= age[h]
    <3>1. CASE i = 1
      BY <2>2, <2>3, <3>1, RequestsNow
    <3>2. CASE i # 1
      <4>1. 1 \in 1..Len(queue) /\ 1 < i
        BY <2>2, <3>2, RequestsNow
      <4> QED
        BY <2>2, <2>3, <4>1, RequestsNow DEF Ordered
    <3> QED
      BY <3>1, <3>2
  <2> QED
    BY <2>1, <2>3, <2>5, <2>6, RequestsNow, TimesTyped DEF Pending
<1>3. \A r \in Requests : age'[r] = IF r \in Pending THEN age[r] + 1 ELSE age[r]
  BY <1>1, <1>2, RequestsNow, TimesTyped DEF Older
<1>4. age' \in [Requests -> 0..Deadline]
  <2>1. \A r \in Requests : age'[r] \in 0..Deadline
    BY <1>2, <1>3, RequestsNow, TimesTyped
  <2> QED
    BY <1>1, <2>1
<1>5. Ordered(queue', age')
  <2> SUFFICES ASSUME NEW i \in 1..Len(queue), NEW j \in 1..Len(queue), i < j
               PROVE  age'[queue[j]] <= age'[queue[i]]
    BY <1>1 DEF Ordered
  <2>1. queue[i] \in ToSet(queue) /\ queue[j] \in ToSet(queue)
    BY RequestsNow DEF ToSet
  <2>2. queue[i] \in Pending /\ queue[j] \in Pending
    BY <2>1, RequestsNow DEF Pending
  <2>3. age'[queue[i]] = age[queue[i]] + 1 /\ age'[queue[j]] = age[queue[j]] + 1
    BY <1>3, <2>2 DEF Pending
  <2>4. age[queue[j]] <= age[queue[i]]
    BY RequestsNow DEF Ordered
  <2>5. age[queue[j]] \in Nat /\ age[queue[i]] \in Nat
    BY <2>2, RequestsNow, TimesTyped DEF Pending
  <2> QED
    BY <2>3, <2>4, <2>5
<1>6. \A r \in Requests : req'[r] = "none" => age'[r] = 0
  BY <1>1, <1>3, RequestsNow DEF Pending
<1> QED
  BY <1>1, <1>3, <1>4, <1>5, <1>6, RequestsNow, RequestsReached

\* Every step keeps the requests and the mutex as they should be.
LEMMA RequestsStep ==
  ASSUME RequestsKept, [Next]_vars
  PROVE  RequestsKept'
<1> USE DEF systemd, process, serving
<1>1. CASE Main
  <2>1. CASE Listen \/ NotifyReady \/ NotifyContext \/ SelectSignal
             \/ BeginShutdown \/ EndShutdown \/ ServeEnds
    BY <2>1, RequestsNow, RequestsStay
       DEF Listen, NotifyReady, NotifyContext, SelectSignal, BeginShutdown,
           EndShutdown, ServeEnds
  <2>2. CASE SelectError \/ Cleanup
    BY <2>2, RequestsGone DEF SelectError, Cleanup, Exit
  <2>3. CASE Close
    BY <2>3, RequestsGone DEF Close
  <2>4. CASE Join
    <3>1. CASE served = "failed"
      BY <2>4, <3>1, RequestsGone DEF Join, Exit
    <3>2. CASE served # "failed"
      BY <2>4, <3>2, RequestsNow, RequestsStay DEF Join
    <3> QED
      BY <3>1, <3>2
  <2> QED
    BY <1>1, <2>1, <2>2, <2>3, <2>4 DEF Main
<1>2. CASE ServeFails \/ Start \/ StopWaiting \/ Restart
  BY <1>2, RequestsNow, RequestsStay DEF ServeFails, Start, StopWaiting, Restart
<1>3. CASE Crash
  BY <1>3, RequestsGone DEF Crash, Exit
<1>4. ASSUME NEW r \in Requests, Connect(r) \/ Handler(r)
      PROVE  RequestsKept'
  BY <1>4, ConnectKeeps, HandlerKeeps
<1>5. ASSUME NEW r \in Requests, OrphanEnds(r)
      PROVE  RequestsKept'
  BY <1>5, RequestsNow, RequestsStay DEF OrphanEnds
<1>6. CASE Stop
  BY <1>6, StopKeeps
<1>7. CASE Bury
  BY <1>7, RequestsStay DEF Bury, AfterKill
<1>8. CASE Tick
  BY <1>8, TickKeeps
<1>9. CASE UNCHANGED vars
  BY <1>9, RequestsNow, RequestsStay DEF vars
<1> QED
  BY <1>1, <1>2, <1>3, <1>4, <1>5, <1>6, <1>7, <1>8, <1>9 DEF Next, Systemd

-----------------------------------------------------------------------------
\* The commands of an agent that is gone and of one that is not are one at most.
LEMMA OneCommand ==
  ASSUME RequestsKept, Phases, NEW S \in SUBSET children
  PROVE  /\ \A r, s \in orphans \union S : r = s
         /\ orphans # {} => children = {}
<1>1. \A r, s \in children : r = s
  BY RequestsNow
<1>2. orphans # {} => children = {}
  BY RequestsNow DEF Phases, Pending, Alive
<1> QED
  BY <1>1, <1>2 DEF Phases

\* The process has ended.
LEMMA ExitKeeps ==
  ASSUME RequestsKept, ProcessKept, NEW S \in SUBSET children,
         NEW res \in {"clean", "failed"}, Exit(res, S),
         wish' \in {"run", "stop"}, socket' \in {"none", "stale"},
         sinceStop' \in 0..StopTimeout, failures' \in 0..MaxFailures,
         stops' \in 0..MaxStops
  PROVE  ProcessKept'
<1>1. /\ main' = "none" /\ termed' = FALSE /\ served' = "none"
      /\ unit' = "ended" /\ result' = res
      /\ req' = [r \in Requests |-> "none"] /\ orphans' = orphans \union S
  BY DEF Exit, Abandoned
<1>2. Pending' = {} /\ ~Alive' /\ \A r, s \in orphans' : r = s
  BY <1>1, OneCommand DEF Pending, Alive, ProcessKept
<1>3. ProcessTyped'
  BY <1>1, <1>2 DEF ProcessTyped
<1>4. Phases'
  BY <1>1, <1>2, Zenon DEF Phases, Stopping
<1> QED
  BY <1>3, <1>4 DEF ProcessKept

\* A step on the way of main() that leaves the requests.
LEMMA MainKeeps ==
  ASSUME RequestsKept, ProcessKept, Main
  PROVE  ProcessKept'
<1> USE DEF systemd, process, serving, ProcessKept, Alive, Stopping
<1>1. CASE Listen
  BY <1>1 DEF Listen, ProcessTyped, Phases, Pending
<1>2. CASE NotifyReady
  BY <1>2 DEF NotifyReady, ProcessTyped, Phases, Pending
<1>3. CASE NotifyContext
  BY <1>3 DEF NotifyContext, ProcessTyped, Phases, Pending
<1>4. CASE SelectSignal
  BY <1>4 DEF SelectSignal, ProcessTyped, Phases, Pending
<1>5. CASE SelectError
  BY <1>5, ExitKeeps DEF SelectError, ProcessTyped, Phases
<1>6. CASE BeginShutdown
  BY <1>6 DEF BeginShutdown, ProcessTyped, Phases, Pending
<1>7. CASE EndShutdown
  BY <1>7 DEF EndShutdown, ProcessTyped, Phases, Pending
<1>8. CASE Close
  <2>1. PICK S \in SUBSET children : Abandoned(S)
    BY <1>8 DEF Close
  <2>2. Pending' = {} /\ \A r, s \in orphans' : r = s
    BY <2>1, OneCommand DEF Abandoned, Pending
  <2> QED
    BY <1>8, <2>2 DEF Close, ProcessTyped, Phases
<1>9. CASE Join
  <2>1. CASE served = "failed"
    BY <1>9, <2>1, ExitKeeps DEF Join, ProcessTyped, Phases
  <2>2. CASE served # "failed"
    BY <1>9, <2>2 DEF Join, ProcessTyped, Phases, Pending
  <2> QED
    BY <2>1, <2>2
<1>10. CASE Cleanup
  BY <1>10, ExitKeeps DEF Cleanup, ProcessTyped
<1>11. CASE ServeEnds
  BY <1>11 DEF ServeEnds, ProcessTyped, Phases, Pending
<1> QED
  BY <1>1, <1>2, <1>3, <1>4, <1>5, <1>6, <1>7, <1>8, <1>9, <1>10, <1>11 DEF Main

\* Every step keeps the process, its unit and what is left of it in line.
LEMMA ProcessStep ==
  ASSUME RequestsKept, ProcessKept, Timely, [Next]_vars
  PROVE  ProcessKept'
<1> USE DEF systemd, process, serving, ProcessKept, Alive, Stopping
<1>1. CASE Main
  BY <1>1, MainKeeps
<1>2. CASE ServeFails
  BY <1>2, TimesTyped DEF ServeFails, Fails, ProcessTyped, Phases, Pending
<1>3. CASE Crash
  <2>1. failures' \in 0..MaxFailures
    BY <1>3, TimesTyped DEF Crash, Fails, ProcessTyped
  <2> QED
    BY <1>3, <2>1, ExitKeeps DEF Crash, FileOf, ProcessTyped
<1>4. ASSUME NEW r \in Requests, Connect(r)
      PROVE  ProcessKept'
  BY <1>4 DEF Connect, ProcessTyped, Phases, Pending
<1>5. ASSUME NEW r \in Requests, Handler(r)
      PROVE  ProcessKept'
  <2>1. req[r] # "none" /\ main # "none" /\ UNCHANGED <<systemd, process, orphans, failures>>
    BY <1>5, RequestsNow DEF Handler, Command, CommandEnds, Reply
  <2>2. Pending' \subseteq Pending /\ r \in Pending
    BY <1>5, <2>1, RequestsNow DEF Handler, Command, CommandEnds, Reply, Return, Pending
  <2> QED
    BY <2>1, <2>2 DEF ProcessTyped, Phases
<1>6. ASSUME NEW r \in Requests, OrphanEnds(r)
      PROVE  ProcessKept'
  BY <1>6 DEF OrphanEnds, ProcessTyped, Phases, Pending
<1>7. CASE Start
  BY <1>7, TimesTyped DEF Start, Launch, ProcessTyped, Phases, Pending
<1>8. CASE Restart
  BY <1>8, TimesTyped DEF Restart, Launch, ProcessTyped, Phases, Pending
<1>9. CASE Stop
  <2>1. stops' \in 0..MaxStops /\ sinceStop' \in 0..StopTimeout /\ wish' = "stop"
    BY <1>9, TimesTyped DEF Stop, ProcessTyped
  <2>2. CASE main = "select"
    BY <1>9, <2>1, <2>2 DEF Stop, ProcessTyped, Phases, Pending
  <2>3. CASE main # "select"
    BY <1>9, <2>1, <2>3, ExitKeeps DEF Stop, FileOf, ProcessTyped
  <2> QED
    BY <2>2, <2>3
<1>10. CASE StopWaiting
  BY <1>10, TimesTyped DEF StopWaiting, ProcessTyped, Phases, Pending
<1>11. CASE Bury
  BY <1>11 DEF Bury, AfterKill, ProcessTyped, Phases, Pending
<1>12. CASE Tick
  BY <1>12, TimesTyped DEF Tick, ProcessTyped, Phases, Pending
<1>13. CASE UNCHANGED vars
  BY <1>13 DEF vars, ProcessTyped, Phases, Pending
<1> QED
  BY <1>1, <1>2, <1>3, <1>4, <1>5, <1>6, <1>7, <1>8, <1>9, <1>10, <1>11, <1>12, <1>13
     DEF Next, Systemd

-----------------------------------------------------------------------------
\* In a stop time passes only while Shutdown waits: at every other step main()
\* has something to do.
LEMMA OnlyShutdownWaits ==
  ASSUME ProcessKept, Tick
  PROVE  /\ unit = "stopping" => main = "shutdown" /\ sinceStop < ShutdownTimeout
         /\ main = "shutdown" => unit = "stopping"
         /\ main # "close"
<1>1. ~MainDue /\ main # "none"
  BY DEF Tick, Alive
<1>2. unit = "stopping" => main = "shutdown"
  BY <1>1 DEF ProcessKept, ProcessTyped, Phases, MainDue, Stopping
<1>3. unit = "stopping" => sinceStop < ShutdownTimeout
  BY <1>1, <1>2, TimesTyped DEF MainDue, ShutdownReturns, ProcessKept, ProcessTyped
<1> QED
  BY <1>1, <1>2, <1>3 DEF ProcessKept, Phases, MainDue, Stopping

\* Every step keeps the time that a stop takes.
LEMMA TimelyStep ==
  ASSUME IInv, [Next]_vars
  PROVE  Timely'
<1> USE DEF systemd, process, serving, Stopping
<1>1. /\ RequestsKept /\ ProcessKept /\ Timely
      /\ sinceStop \in Nat
      /\ ShutdownTimeout \in Nat
      /\ age \in [Requests -> 0..Deadline]
      /\ socket # "live" \/ main \notin {"shutdown", "close"}
      /\ termed <=> unit = "stopping"
  BY TimesTyped, RequestsNow DEF IInv, ProcessKept, ProcessTyped, Phases
<1>2. CASE Listen \/ NotifyReady \/ NotifyContext \/ SelectSignal \/ ServeEnds
           \/ ServeFails \/ Start \/ Restart \/ StopWaiting \/ Bury
  BY <1>1, <1>2 DEF Listen, NotifyReady, NotifyContext, SelectSignal, ServeEnds, ServeFails,
     Start, Restart, Launch, StopWaiting, Bury, Timely, Pending, ProcessKept, Phases, Alive
<1>3. CASE BeginShutdown
  <2>1. sinceStop' = 0 /\ Pending' = Pending
    BY <1>1, <1>3 DEF BeginShutdown, Timely, Pending, ProcessKept, Phases
  <2> QED
    BY <1>1, <1>3, <2>1 DEF BeginShutdown, Timely, Pending
<1>4. CASE EndShutdown
  BY <1>1, <1>4 DEF EndShutdown, ShutdownReturns, Timely, Pending
<1>5. CASE Close
  BY <1>1, <1>5 DEF Close, Timely
<1>6. CASE SelectError \/ Join \/ Cleanup \/ Crash
  BY <1>1, <1>6 DEF SelectError, Join, Cleanup, Crash, Exit, Timely
<1>7. ASSUME NEW r \in Requests, Connect(r)
      PROVE  Timely'
  BY <1>1, <1>7 DEF Connect, Timely
<1>8. ASSUME NEW r \in Requests, Handler(r)
      PROVE  Timely'
  <2>1. UNCHANGED <<systemd, process>> /\ req[r] # "none"
    BY <1>1, <1>8, RequestsNow DEF Handler, Command, CommandEnds, Reply
  <2>2. \A x \in Pending' : x \in Pending /\ age'[x] = age[x]
    BY <1>1, <1>8, RequestsNow DEF Handler, Command, CommandEnds, Reply, Return, Pending
  <2> QED
    BY <1>1, <2>1, <2>2 DEF Timely
<1>9. ASSUME NEW r \in Requests, OrphanEnds(r)
      PROVE  Timely'
  BY <1>1, <1>9 DEF OrphanEnds, Timely, Pending
<1>10. CASE Stop
  BY <1>1, <1>10 DEF Stop, Exit, Timely
<1>11. CASE Tick
  <2>1. /\ Pending' = Pending
        /\ \A r \in Pending : age'[r] = age[r] + 1
        /\ UNCHANGED process
        /\ sinceStop' = IF unit = "stopping" THEN sinceStop + 1 ELSE sinceStop
    BY <1>1, <1>11, TickKeeps DEF Tick, Pending
  <2>2. CASE unit = "stopping"
    BY <1>1, <1>11, <2>1, <2>2, OnlyShutdownWaits DEF Timely, Pending
  <2>3. CASE unit # "stopping"
    BY <1>1, <1>11, <2>1, <2>3, OnlyShutdownWaits DEF Timely, Pending
  <2> QED
    BY <2>2, <2>3
<1>12. CASE UNCHANGED vars
  BY <1>1, <1>12 DEF vars, Timely, Pending
<1> QED
  BY <1>2, <1>3, <1>4, <1>5, <1>6, <1>7, <1>8, <1>9, <1>10, <1>11, <1>12
     DEF Next, Main, Systemd

LEMMA InitHolds == Init => IInv
<1> SUFFICES ASSUME Init PROVE IInv
  OBVIOUS
<1>1. queue \in Seq(Requests) /\ Distinct(queue) /\ Ordered(queue, age) /\ ToSet(queue) = {}
  BY DEF Init, Distinct, Ordered, ToSet
<1>2. Cardinality(ToSet(queue)) = Len(queue)
  BY <1>1, QueueLength
<1>3. RequestsKept
  BY <1>1, <1>2, TimesTyped DEF Init, RequestsKept, RequestsTyped, Queued, AnsweredInTime
<1>4. ProcessKept
  <2>1. ProcessTyped
    <3>1. 0 \in 0..StopTimeout /\ 0 \in 0..MaxFailures /\ 0 \in 0..MaxStops
      BY TimesTyped
    <3> QED
      BY <3>1 DEF Init, ProcessTyped, Alive
  <2>2. Pending = {} /\ ~Alive
    BY DEF Init, Pending, Alive
  <2>3. Phases
    BY <2>2 DEF Init, Phases, Stopping
  <2> QED
    BY <2>1, <2>3 DEF ProcessKept
<1>5. Timely
  BY TimesTyped DEF Init, Timely
<1> QED
  BY <1>3, <1>4, <1>5 DEF IInv

\* The invariant is kept, whatever the agent, its clients and systemd do.
THEOREM Invariance == Spec => []IInv
<1>1. ASSUME IInv, [Next]_vars
      PROVE  IInv'
  BY <1>1, RequestsStep, ProcessStep, TimelyStep DEF IInv
<1> QED
  BY <1>1, InitHolds, PTL DEF Spec

\* Every variable has its type; who waits for the mutex is in its queue, once.
THEOREM TypeCorrect == Spec => []TypeOK
<1>1. IInv => TypeOK
  BY DEF IInv, TypeOK, RequestsKept, ProcessKept
<1> QED
  BY <1>1, Invariance, PTL

\* No two commands of one service run at once, be they of one agent or of two
\* that follow each other (the mutexes of the services, KillMode=control-group).
THEOREM MutexHoldsAcrossRestarts == Spec => []MutexSpansRestarts
<1>1. ASSUME IInv
      PROVE  MutexSpansRestarts
  <2>1. /\ \A r, s \in children : r = s
        /\ \A r, s \in orphans : r = s
        /\ orphans # {} => children = {}
    BY <1>1, OneCommand, RequestsNow DEF IInv, ProcessKept
  <2>2. Cardinality({}) = 0 /\ \A x : Cardinality({x}) = 1
    BY FS_EmptySet, FS_Singleton
  <2>3. Cardinality(children) \in 0..1
    <3>1. CASE children = {}
      BY <2>2, <3>1
    <3>2. ASSUME NEW r \in children
          PROVE  Cardinality(children) = 1
      <4>1. children = {r}
        BY <2>1
      <4> QED
        BY <2>2, <4>1
    <3> QED
      BY <3>1, <3>2
  <2>4. Cardinality(orphans) \in 0..1
    <3>1. CASE orphans = {}
      BY <2>2, <3>1
    <3>2. ASSUME NEW r \in orphans
          PROVE  Cardinality(orphans) = 1
      <4>1. orphans = {r}
        BY <2>1
      <4> QED
        BY <2>2, <4>1
    <3> QED
      BY <3>1, <3>2
  <2>5. Cardinality(children) = 0 \/ Cardinality(orphans) = 0
    BY <2>1, <2>2
  <2> QED
    BY <2>3, <2>4, <2>5 DEF MutexSpansRestarts
<1> QED
  BY <1>1, Invariance, PTL

\* A request is through by its own deadline, however many wait before it.
THEOREM RequestsInTime == Spec => []AnsweredInTime
<1>1. IInv => AnsweredInTime
  BY DEF IInv, RequestsKept
<1> QED
  BY <1>1, Invariance, PTL

\* No stop takes systemd's patience, whatever main() was doing and its server had
\* come to.
THEOREM EveryStopInTime == Spec => []StopsInTime
<1>1. IInv => StopsInTime
  BY TimesTyped DEF IInv, ProcessKept, ProcessTyped, Timely, StopsInTime
<1> QED
  BY <1>1, Invariance, PTL

\* Only requests that had ShutdownTimeout since the stop are cut off by it.
THEOREM OnlyOldIsCut == Spec => CutIsOld
<1>1. ASSUME IInv, [Next]_vars
      PROVE  [main = "close" => \A r \in Requests :
                req[r] # "none" /\ req'[r] = "none" => age[r] >= ShutdownTimeout]_vars
  <2>1. age \in [Requests -> 0..Deadline] /\ sinceStop \in Nat
    BY <1>1, RequestsNow, TimesTyped DEF IInv, ProcessKept, ProcessTyped
  <2> QED
    BY <1>1, <2>1, TimesTyped DEF IInv, Timely, Pending
<1> QED
  BY <1>1, Invariance, PTL DEF Spec, CutIsOld
=============================================================================
