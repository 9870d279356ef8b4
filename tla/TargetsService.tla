--------------------------- MODULE TargetsService ---------------------------
(***************************************************************************)
(* The targets of the agent: the handlers of /api/v1/targets, the          *)
(* TargetsService they call and the targetcli commands it runs.            *)
(*                                                                         *)
(* Every request is served by a goroutine of its own.  A change holds the  *)
(* service's mutex from its look at the targets to the end of its command; *)
(* a plain listing takes no lock.  One run of targetcli is one step.  The  *)
(* mutex is released by a deferred call as the service returns, in the     *)
(* step that decides the answer.                                           *)
(***************************************************************************)
EXTENDS FiniteSets

CONSTANTS
  Clients,     \* requests that may be in progress at the same time
  IQN,         \* names a request may carry, trimmed of blanks
  NoIQN,       \* the name of a request that carries none
  NoClient,    \* the holder of a free mutex
  ValidIQN,    \* the names iscsi.ValidIQN accepts
  Initiators,  \* the initiators that the ACLs of the host name
  TPGsShown,   \* whether "ls /iscsi" marks target lines with [TPGs: n]
  Available,   \* whether a targetcli binary was found at start
  AdminIQN     \* the targets an operator may change with targetcli itself

ASSUME ConstantsOK ==
  /\ ValidIQN \subseteq IQN
  /\ Initiators \subseteq IQN
  /\ AdminIQN \subseteq ValidIQN
  /\ NoIQN \notin IQN
  /\ NoClient \notin Clients
  /\ TPGsShown \in BOOLEAN
  /\ Available \in BOOLEAN

VARIABLES
  targets,    \* the targets configured in the kernel
  mu,         \* who holds TargetsService.mu
  pc,         \* pc[c]: where the goroutine of request c is
  req,        \* req[c]: what request c asks for
  cut,        \* cut[c]: its context is done or the host fails its commands
  disturbed,  \* disturbed[c]: an operator touched its target after its look
  ans         \* ans[c]: the answer that awaits the end of the handler

vars == <<targets, mu, pc, req, cut, disturbed, ans>>

-----------------------------------------------------------------------------
Requests == [op : {"create", "delete"}, item : IQN]
              \union [op : {"list"}, item : {NoIQN}]
NoRequest == [op |-> "none", item |-> NoIQN]

Answers == [status : {"none", "ok", "error", "refused"},
            changed : BOOLEAN, items : SUBSET IQN]
Answer(status, changed, items) ==
  [status |-> status, changed |-> changed, items |-> items]

\* Wrong: every change asked for is reported as made.
DoneAlways(changed) == Answer("ok", TRUE, {})

Done(changed) == Answer("ok", changed, {})
Listed(S)     == Answer("ok", FALSE, S)
Failed        == Answer("error", FALSE, {})
Refused       == Answer("refused", FALSE, {})
NoAnswer      == Answer("none", FALSE, {})

\* Wrong: names are not checked.
AdmissibleUnchecked(r) == Available

\* The checks the service makes before it touches the host.
Admissible(r) == Available /\ (r.op = "list" \/ r.item \in ValidIQN)

\* The names that the driver may take for those of targets: where no line has
\* the marker of a target, every line that names an IQN is taken for one.
Mistaken == IF TPGsShown THEN {} ELSE Initiators

\* What it may read out of "targetcli ls /iscsi": the ACLs of targets come and
\* go, and without a target there is none.
Listings ==
  {targets \union S : S \in SUBSET (IF targets = {} THEN {} ELSE Mistaken)}

\* Wrong: a deletion does not look for its target.
MootIfPresent(r, S) == r.op = "create" /\ r.item \in S

\* Whether the service finds nothing to do for r when it sees the targets S.
Moot(r, S) == IF r.op = "create" THEN r.item \in S ELSE r.item \notin S

\* What targetcli makes of the targets S on behalf of the request r.
Applied(r, S) == IF r.op = "create" THEN S \union {r.item} ELSE S \ {r.item}

\* What targetcli refuses: to create what is there, to delete what is not.
Rejected(r, S) == Applied(r, S) = S

Init ==
  /\ targets \in SUBSET ValidIQN
  /\ mu = NoClient
  /\ pc = [c \in Clients |-> "idle"]
  /\ req = [c \in Clients |-> NoRequest]
  /\ cut = [c \in Clients |-> FALSE]
  /\ disturbed = [c \in Clients |-> FALSE]
  /\ ans = [c \in Clients |-> NoAnswer]

-----------------------------------------------------------------------------
\* Wrong: the way out that changes nothing forgets the mutex.
FinishLocked(c, a) ==
  /\ pc' = [pc EXCEPT ![c] = "reply"]
  /\ ans' = [ans EXCEPT ![c] = a]
  /\ mu' = IF mu = c /\ a # Done(FALSE) THEN NoClient ELSE mu

\* The service returns a: its deferred unlock runs, the answer is written.
Finish(c, a) ==
  /\ pc' = [pc EXCEPT ![c] = "reply"]
  /\ ans' = [ans EXCEPT ![c] = a]
  /\ mu' = IF mu = c THEN NoClient ELSE mu

Refuse(c, r) ==
  /\ pc[c] = "idle"
  /\ ~Admissible(r)
  /\ req' = [req EXCEPT ![c] = r]
  /\ Finish(c, Refused)
  /\ UNCHANGED <<targets, cut, disturbed>>

Accept(c, r) ==
  /\ pc[c] = "idle"
  /\ Admissible(r)
  /\ req' = [req EXCEPT ![c] = r]
  /\ pc' = [pc EXCEPT ![c] = IF r.op = "list" THEN "list" ELSE "lock"]
  /\ UNCHANGED <<targets, mu, cut, disturbed, ans>>

\* The deadline of the request passes (it runs while the request waits for
\* the mutex too), its client goes away, or targetcli starts to fail.
Expire(c) ==
  /\ pc[c] \in {"lock", "list", "write"}
  /\ ~cut[c]
  /\ cut' = [cut EXCEPT ![c] = TRUE]
  /\ UNCHANGED <<targets, mu, pc, req, disturbed, ans>>

\* Wrong: the mutex does not keep others out.
LockShared(c) ==
  /\ pc[c] = "lock"
  /\ mu' = c
  /\ pc' = [pc EXCEPT ![c] = "list"]
  /\ UNCHANGED <<targets, req, cut, disturbed, ans>>

\* Lock does not look at the context.
Lock(c) ==
  /\ pc[c] = "lock"
  /\ mu = NoClient
  /\ mu' = c
  /\ pc' = [pc EXCEPT ![c] = "list"]
  /\ UNCHANGED <<targets, req, cut, disturbed, ans>>

ListTargets(c) ==
  /\ pc[c] = "list"
  /\ \/ /\ cut[c]
        /\ Finish(c, Failed)
     \/ /\ ~cut[c]
        /\ req[c].op = "list"
        /\ \E S \in Listings : Finish(c, Listed(S))
     \/ /\ ~cut[c]
        /\ req[c].op # "list"
        /\ \E S \in Listings : Moot(req[c], S)
        /\ Finish(c, Done(FALSE))
     \/ /\ ~cut[c]
        /\ req[c].op # "list"
        /\ \E S \in Listings : ~Moot(req[c], S)
        /\ pc' = [pc EXCEPT ![c] = "write"]
        /\ UNCHANGED <<mu, ans>>
  /\ UNCHANGED <<targets, req, cut, disturbed>>

\* "targetcli /iscsi create|delete iqn": killed or failing, it may have made
\* the change or not.
WriteTarget(c) ==
  /\ pc[c] = "write"
  /\ \/ /\ cut[c]
        /\ targets' \in {targets, Applied(req[c], targets)}
        /\ Finish(c, Failed)
     \/ /\ ~cut[c]
        /\ ~Rejected(req[c], targets)
        /\ targets' = Applied(req[c], targets)
        /\ Finish(c, Done(TRUE))
     \/ /\ ~cut[c]
        /\ Rejected(req[c], targets)
        /\ targets' = targets
        /\ Finish(c, Failed)
  /\ UNCHANGED <<req, cut, disturbed>>

\* The handler ends and the answer goes out.
Reply(c) ==
  /\ pc[c] = "reply"
  /\ pc' = [pc EXCEPT ![c] = "idle"]
  /\ req' = [req EXCEPT ![c] = NoRequest]
  /\ cut' = [cut EXCEPT ![c] = FALSE]
  /\ disturbed' = [disturbed EXCEPT ![c] = FALSE]
  /\ ans' = [ans EXCEPT ![c] = NoAnswer]
  /\ UNCHANGED <<targets, mu>>

\* An operator creates or deletes t with targetcli, beside the agent.
Admin(t) ==
  /\ targets' = IF t \in targets THEN targets \ {t} ELSE targets \union {t}
  /\ disturbed' = [c \in Clients |->
       disturbed[c] \/ (pc[c] = "write" /\ req[c].item = t)]
  /\ UNCHANGED <<mu, pc, req, cut, ans>>

\* The agent dies with its goroutines and the targetcli it runs (they share
\* a control group) and systemd starts it again; the kernel keeps its state.
Crash ==
  /\ mu' = NoClient
  /\ pc' = [c \in Clients |-> "idle"]
  /\ req' = [c \in Clients |-> NoRequest]
  /\ cut' = [c \in Clients |-> FALSE]
  /\ disturbed' = [c \in Clients |-> FALSE]
  /\ ans' = [c \in Clients |-> NoAnswer]
  /\ UNCHANGED targets

Serve(c) ==
  \/ \E r \in Requests : Refuse(c, r) \/ Accept(c, r)
  \/ Expire(c) \/ Lock(c) \/ ListTargets(c) \/ WriteTarget(c) \/ Reply(c)

Next ==
  \/ \E c \in Clients : Serve(c)
  \/ \E t \in AdminIQN : Admin(t)
  \/ Crash

\* Go hands a contended mutex to its oldest waiter, and the deadline of a
\* request bounds each run of targetcli.
Fairness ==
  \A c \in Clients :
    /\ SF_vars(Lock(c))
    /\ WF_vars(ListTargets(c)) /\ WF_vars(WriteTarget(c)) /\ WF_vars(Reply(c))

Spec == Init /\ [][Next]_vars /\ Fairness

-----------------------------------------------------------------------------
Looking(c) == pc[c] = "list" /\ req[c].op # "list"

\* Every variable has its type; past the checks of the service are only
\* requests that passed them.
TypeOK ==
  /\ targets \subseteq ValidIQN
  /\ mu \in Clients \union {NoClient}
  /\ pc \in [Clients -> {"idle", "lock", "list", "write", "reply"}]
  /\ req \in [Clients -> Requests \union {NoRequest}]
  /\ cut \in [Clients -> BOOLEAN]
  /\ disturbed \in [Clients -> BOOLEAN]
  /\ ans \in [Clients -> Answers]
  /\ \A c \in Clients :
       /\ pc[c] \in {"lock", "write"} => req[c].op # "list"
       /\ pc[c] = "idle" <=> req[c] = NoRequest
       /\ pc[c] \in {"lock", "list", "write"} =>
            Available /\ (req[c].op # "list" => req[c].item \in ValidIQN)

\* The mutex belongs to exactly the request that looks before a change or
\* makes it: no way out of the service leaves it locked, none enters
\* without it (targets.go, Lock and the deferred Unlock).
MutexHeldToChange ==
  \A c \in Clients : mu = c <=> Looking(c) \/ pc[c] = "write"

\* A deletion by a name that the listing may have without its being a target.
OfMistaken(r) == r.op = "delete" /\ r.item \in Mistaken

\* What a request saw before its change still holds when it makes the
\* change, whatever the other requests did, unless an operator was there or
\* it took an initiator for the target that it is to delete.
SeenIsCurrent ==
  \A c \in Clients : pc[c] = "write" =>
    disturbed[c] \/ OfMistaken(req[c]) \/ ~Moot(req[c], targets)

\* A request that passed the checks fails only because its context was
\* done, targetcli was failing, an operator interfered or it is to delete
\* what is listed and is no target: requests never make each other fail
\* (handlers answer 500 for any error of the service).
FailureHasCause ==
  \A c \in Clients :
    ans[c].status = "error" => cut[c] \/ disturbed[c] \/ OfMistaken(req[c])

\* What the comment at targetcli.go:134 says of the listing ("Only pick top-level
\* target lines, avoid matching ACL initiator IQNs"): its answer has nothing but
\* targets. Not so without the markers.
ListsOnlyTargets ==
  [][\A c \in Clients : ans'[c] # ans[c] => ans'[c].items \subseteq targets]_vars

\* A request that passed the checks is answered, or its agent dies, however
\* many requests compete for the mutex.
EveryCallAnswered ==
  \A c \in Clients : pc[c] \in {"lock", "list", "write"} ~> pc[c] \in {"reply", "idle"}

\* The service is a set of targets on which every request takes effect at
\* one instant: the abstract call is open while the service works on it.
Promise == INSTANCE IdempotentSet WITH
  Items    <- IQN,
  NoItem   <- NoIQN,
  Allowed  <- {r \in Requests : Admissible(r)},
  Tampered <- AdminIQN,
  Mistaken <- Mistaken,
  members  <- targets,
  phase    <- [c \in Clients |-> CASE pc[c] = "idle" -> "idle"
                                   [] pc[c] = "reply" -> "closed"
                                   [] OTHER -> "open"],
  wish     <- req,
  excused  <- [c \in Clients |-> cut[c] \/ disturbed[c]],
  reply    <- ans

\* The requests behave as the promise says: each takes effect at one instant, and
\* "ok" says truthfully what it changed, but for a name of an initiator that is
\* taken for that of a target.
KeepsPromise == Promise!Spec
=============================================================================
