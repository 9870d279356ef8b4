--------------------------- MODULE HostResources ---------------------------
(***************************************************************************)
(* Backstores, mappings, ACLs and portals: the handlers of their four      *)
(* collections, the services behind them and the targetcli commands.       *)
(*                                                                         *)
(* The four services are alike.  A change is one command under the mutex   *)
(* of its service, tried without a look; whether a failure means "already  *)
(* so" is read off the words of the error, and each service looks for      *)
(* words of its own.  Backstores are listed by two commands, one for each  *)
(* type, and an untyped deletion lists them first to find the type.        *)
(* Listings take no lock.                                                  *)
(***************************************************************************)
EXTENDS LioHost

CONSTANTS
  Clients,     \* requests that may be in progress at the same time
  Requests,    \* what they may ask for
  NoClient,    \* the holder of a free mutex
  Valid,       \* the names and numbers the services' checks accept
  Says,        \* Says[k][f]: what targetcli may print of the reason f, as sets
               \* of the phrases that its words contain
  Spelling,    \* names that spell "exists" in a command line
  AdminItems   \* what an operator, or the targets service, may change

ASSUME ConstantsOK ==
  /\ NoClient \notin Clients
  /\ AdminItems \subseteq Items
  /\ NoRequest \notin Requests
  /\ \A r \in Requests : r.op \in {"list", "create", "delete"} /\ r.kind \in Kinds
  /\ \A r \in Requests : r.kind # "mapping" => r.store = <<>>
  /\ \A i \in Items :
       /\ i = Item(i.kind, i.slot, i.store)
       /\ i.kind = "store" => \E t \in Types : i.slot = <<t, i.slot[2]>>
       /\ i.kind \in Kinds => i.slot[2] # AnyLun
       /\ i.kind # "mapping" => i.store = <<>>
  /\ ReadAs \in [Items -> SUBSET Items]
  /\ \A i \in Items : \A j \in ReadAs[i] :
       j.kind = i.kind /\ (i.kind \in Kinds => j.slot[1] = i.slot[1])

VARIABLES
  host,    \* what is configured in the kernel
  mu,      \* mu[k]: who holds the mutex of the service of kind k
  pc,      \* pc[c]: the next command of request c
  req,     \* req[c]: what request c asks for
  seen,    \* seen[c]: the backstores its listing has shown so far
  cut,     \* cut[c]: its context is done or the host fails its commands
  always,  \* always[c]: what it asks about that was there all the time
  ever,    \* ever[c]: what it asks about that was there at some time
  ans      \* ans[c]: the answer that awaits the end of the handler

vars == <<host, mu, pc, req, seen, cut, always, ever, ans>>

-----------------------------------------------------------------------------
\* The names and numbers of a request.
Parts(r) == {r.slot[n] : n \in DOMAIN r.slot} \union {r.store[n] : n \in DOMAIN r.store}

\* Wrong: nothing is checked.
AdmissibleUnchecked(r) == r \in Requests

\* The checks a service makes before it takes its mutex.
Admissible(r) == Parts(r) \subseteq Valid \union Types \union {AnyLun, Untyped}

-----------------------------------------------------------------------------
\* The words that each service looks for in an error: those that tell it that
\* what it creates exists, and that what it deletes is gone.
BackstoreWords ==
  [exists |-> {"already exists", "exists:"},
   gone   |-> {"not found", "no storage object named", "does not exist"}]
MappingWords ==
  [exists |-> {"already exists", "already in use", "exists"},
   gone   |-> {"not found", "no lun", "does not exist", "invalid lun"}]
ACLWords ==
  [exists |-> {"already exists", "exists"},
   gone   |-> {"not found", "does not exist", "invalid acl", "no such nodeacl"}]
PortalWords ==
  [exists |-> {"already exists", "exists"},
   gone   |-> {"not found", "does not exist", "invalid portal"}]

WordsOf == [store |-> BackstoreWords, mapping |-> MappingWords,
            acl |-> ACLWords, portal |-> PortalWords]

\* Portals are the only ones to tell that the target is missing.
TargetWords == {"no such path /iscsi/", "invalid target"}

\* Why a command fails: for a fault of what it asks for, or killed.
Reasons == {"no path", "taken", "absent", "other", "killed"}

\* What the error of a command may say: the driver puts targetcli's words into
\* it, and the command line as well.
Messages(r, f) ==
  {m \union (IF Parts(r) \intersect Spelling # {} THEN {"exists"} ELSE {}) :
     m \in Says[r.kind][f]}

\* Wrong: "exist" is looked for, which "does not exist" contains too.
DoneLoosely(r, m) ==
  IF r.op = "create" THEN m \intersect ({"does not exist"} \union WordsOf[r.kind].exists) # {}
                     ELSE m \intersect WordsOf[r.kind].gone # {}

\* isBackstoreAlreadyExists, isBackstoreNotFound and their like.
AlreadyDone(r, m) ==
  IF r.op = "create" THEN m \intersect WordsOf[r.kind].exists # {}
                     ELSE m \intersect WordsOf[r.kind].gone # {}

\* isPortalTargetPathMissing.
TargetMissing(r, m) == r.kind = "portal" /\ m \intersect TargetWords # {}

\* What a service makes of the words of an error.
Judged(r, m) ==
  CASE AlreadyDone(r, m)                            -> Done(FALSE)
    [] ~AlreadyDone(r, m) /\ TargetMissing(r, m)    -> Missing
    [] OTHER                                        -> Failed

-----------------------------------------------------------------------------
Init ==
  /\ host \in SUBSET AdminItems
  /\ \A i \in host : i.kind # "target" => Founded(i, host)
  /\ mu = [k \in Kinds |-> NoClient]
  /\ pc = [c \in Clients |-> "idle"]
  /\ req = [c \in Clients |-> NoRequest]
  /\ seen = [c \in Clients |-> {}]
  /\ cut = [c \in Clients |-> FALSE]
  /\ always = [c \in Clients |-> Items]
  /\ ever = [c \in Clients |-> {}]
  /\ ans = [c \in Clients |-> NoAnswer]

\* Remembers what there was while a listing was served, or while a deletion had
\* its mutex; of one that waits nothing has been missing yet.
Watch ==
  LET about(c) == {i \in host' : Concerns(req'[c], i)}
  IN  /\ always' = [c \in Clients |->
            IF pc'[c] \in {"idle", "lock"} THEN Items
            ELSE IF pc[c] = "reply" THEN always[c]
            ELSE always[c] \intersect about(c)]
      /\ ever' = [c \in Clients |->
            IF pc'[c] \in {"idle", "lock"} THEN {}
            ELSE IF pc[c] = "reply" THEN ever[c]
            ELSE ever[c] \union about(c)]

\* Wrong: a request that fails forgets the mutex.
FinishLocked(c, a) ==
  /\ pc' = [pc EXCEPT ![c] = "reply"]
  /\ ans' = [ans EXCEPT ![c] = a]
  /\ mu' = [k \in Kinds |-> IF mu[k] = c /\ a.status = "ok" THEN NoClient ELSE mu[k]]
  /\ seen' = [seen EXCEPT ![c] = {}]
  /\ cut' = [cut EXCEPT ![c] = FALSE]

\* The service returns a: its deferred unlock runs, its locals are gone.
Finish(c, a) ==
  /\ pc' = [pc EXCEPT ![c] = "reply"]
  /\ ans' = [ans EXCEPT ![c] = a]
  /\ mu' = [k \in Kinds |-> IF mu[k] = c THEN NoClient ELSE mu[k]]
  /\ seen' = [seen EXCEPT ![c] = {}]
  /\ cut' = [cut EXCEPT ![c] = FALSE]

Refuse(c, r) ==
  /\ pc[c] = "idle"
  /\ ~Admissible(r)
  /\ req' = [req EXCEPT ![c] = r]
  /\ Finish(c, Refused)
  /\ UNCHANGED host
  /\ Watch

FirstStep(r) ==
  CASE r.op # "list"                      -> "lock"
    [] r.op = "list" /\ r.kind = "store"  -> "fileio"
    [] OTHER                              -> "ls"

Accept(c, r) ==
  /\ pc[c] = "idle"
  /\ Admissible(r)
  /\ req' = [req EXCEPT ![c] = r]
  /\ pc' = [pc EXCEPT ![c] = FirstStep(r)]
  /\ UNCHANGED <<host, mu, seen, cut, ans>>
  /\ Watch

Serving == {"lock", "ls", "fileio", "block", "command"}

\* The deadline of the request passes, its client goes away, or targetcli
\* starts to fail.
Expire(c) ==
  /\ pc[c] \in Serving
  /\ ~cut[c]
  /\ cut' = [cut EXCEPT ![c] = TRUE]
  /\ UNCHANGED <<host, mu, pc, req, seen, ans>>
  /\ Watch

\* Lock does not look at the context.
Lock(c) ==
  /\ pc[c] = "lock"
  /\ mu[req[c].kind] = NoClient
  /\ mu' = [mu EXCEPT ![req[c].kind] = c]
  /\ pc' = [pc EXCEPT ![c] = IF ResolvesType(req[c]) THEN "fileio" ELSE "command"]
  /\ UNCHANGED <<host, req, seen, cut, ans>>
  /\ Watch

\* The mappings, ACLs or portals of a target are listed by one command, and are
\* what the driver's pattern finds in its lines.
ListOfTarget(c) ==
  /\ pc[c] = "ls"
  /\ IF cut[c] \/ ~HasTarget(req[c], host)
     THEN Finish(c, Failed)
     ELSE Finish(c, Listed(Shown({i \in host : Concerns(req[c], i)})))
  /\ UNCHANGED <<host, req>>
  /\ Watch

\* Wrong: the listing of one type forgets that of the type before.
SeenLast(c, type) == Shown({i \in host : i.kind = "store" /\ i.slot[1] = type})

\* What a listing has shown after the command for one type.
SeenWith(c, type) ==
  seen[c] \union Shown({i \in host : i.kind = "store" /\ i.slot[1] = type})

ListFileio(c) ==
  /\ pc[c] = "fileio"
  /\ IF cut[c]
     THEN Finish(c, Failed)
     ELSE /\ seen' = [seen EXCEPT ![c] = SeenWith(c, "fileio")]
          /\ pc' = [pc EXCEPT ![c] = "block"]
          /\ UNCHANGED <<mu, cut, ans>>
  /\ UNCHANGED <<host, req>>
  /\ Watch

\* Wrong: a deletion without a type only finds backstores in files.
NamedFileio(c, all) ==
  {i \in all : i.slot[1] = "fileio" /\ i.slot[2] = req[c].slot[2]}

\* The backstores of the name that a deletion without a type gives.
Named(c, all) == {i \in all : i.slot[2] = req[c].slot[2]}

\* After the second command a listing is done; a deletion goes on with the
\* first backstore of its name, if there is one.
ListBlock(c) ==
  /\ pc[c] = "block"
  /\ LET all == SeenWith(c, "block")
         named == Named(c, all)
     IN  \/ /\ cut[c]
            /\ Finish(c, Failed)
         \/ /\ ~cut[c] /\ req[c].op = "list"
            /\ Finish(c, Listed(all))
         \/ /\ ~cut[c] /\ req[c].op = "delete" /\ named = {}
            /\ Finish(c, Done(FALSE))
         \/ /\ ~cut[c] /\ req[c].op = "delete" /\ named # {}
            /\ seen' = [seen EXCEPT ![c] = named]
            /\ pc' = [pc EXCEPT ![c] = "command"]
            /\ UNCHANGED <<mu, cut, ans>>
  /\ UNCHANGED <<host, req>>
  /\ Watch

\* What the changing command of request c is about: a deletion without a type
\* takes that of the first listing that showed its name.
Resolved(c) ==
  IF ResolvesType(req[c])
  THEN LET type == IF \E i \in seen[c] : i.slot[1] = "fileio" THEN "fileio" ELSE "block"
       IN  Request("delete", "store", <<type, req[c].slot[2]>>, <<>>)
  ELSE req[c]

\* A command that is killed may have done its work or not.
Command(c) ==
  /\ pc[c] = "command"
  /\ LET r == Resolved(c)
         faults == Faults(r, host)
     IN  \/ /\ ~cut[c] /\ faults = {}
            /\ host' \in Effects(r, host)
            /\ Finish(c, Done(TRUE))
         \/ /\ ~cut[c]
            /\ \E f \in faults : \E m \in Messages(r, f) : Finish(c, Judged(r, m))
            /\ UNCHANGED host
         \/ /\ cut[c]
            /\ host' \in {host} \union (IF faults = {} THEN Effects(r, host) ELSE {})
            /\ \E f \in faults \union {"killed"} :
                 \E m \in Messages(r, f) : Finish(c, Judged(r, m))
  /\ UNCHANGED req
  /\ Watch

\* The handler ends and the answer goes out.
Reply(c) ==
  /\ pc[c] = "reply"
  /\ pc' = [pc EXCEPT ![c] = "idle"]
  /\ req' = [req EXCEPT ![c] = NoRequest]
  /\ ans' = [ans EXCEPT ![c] = NoAnswer]
  /\ UNCHANGED <<host, mu, seen, cut>>
  /\ Watch

\* An operator with targetcli, or the targets service, creates or deletes.
Admin(i) ==
  /\ host' \in Operated(i, host)
  /\ UNCHANGED <<mu, pc, req, seen, cut, ans>>
  /\ Watch

\* The agent dies with what it runs and starts again; the kernel stays.
Crash ==
  /\ mu' = [k \in Kinds |-> NoClient]
  /\ pc' = [c \in Clients |-> "idle"]
  /\ req' = [c \in Clients |-> NoRequest]
  /\ seen' = [c \in Clients |-> {}]
  /\ cut' = [c \in Clients |-> FALSE]
  /\ ans' = [c \in Clients |-> NoAnswer]
  /\ UNCHANGED host
  /\ Watch

Step(c) == ListOfTarget(c) \/ ListFileio(c) \/ ListBlock(c) \/ Command(c)

Serve(c) ==
  \/ \E r \in Requests : Refuse(c, r) \/ Accept(c, r)
  \/ Expire(c) \/ Lock(c) \/ Step(c) \/ Reply(c)

Next ==
  \/ \E c \in Clients : Serve(c)
  \/ \E i \in AdminItems : Admin(i)
  \/ Crash

\* Go hands a contended mutex to its oldest waiter, and the deadline of a
\* request bounds each run of targetcli.
Fairness ==
  \A c \in Clients :
    SF_vars(Lock(c)) /\ WF_vars(Step(c)) /\ WF_vars(Reply(c))

Spec == Init /\ [][Next]_vars /\ Fairness

-----------------------------------------------------------------------------
\* Every variable has its type, and no request gets past the checks of its
\* service that does not pass them.
TypeOK ==
  /\ host \subseteq Items
  /\ mu \in [Kinds -> Clients \union {NoClient}]
  /\ pc \in [Clients -> {"idle", "reply"} \union Serving]
  /\ req \in [Clients -> Requests \union {NoRequest}]
  /\ seen \in [Clients -> SUBSET Items]
  /\ cut \in [Clients -> BOOLEAN]
  /\ always \in [Clients -> SUBSET Items]
  /\ ever \in [Clients -> SUBSET Items]
  /\ ans \in [Clients -> Answers]
  /\ \A c \in Clients :
       /\ pc[c] = "idle" <=> req[c] = NoRequest
       /\ pc[c] \in Serving => Parts(req[c]) \subseteq Valid \union Types \union {AnyLun, Untyped}

\* The mutex of a service belongs to exactly the request that works on its
\* kind, and a listing never has one.
MutexHeldToChange ==
  \A c \in Clients, k \in Kinds :
    mu[k] = c <=> /\ req[c].kind = k /\ req[c].op # "list"
                  /\ pc[c] \in Serving \ {"lock"}

\* A listing shows the line of everything that was there all the time and no line
\* of what was there at no time, although backstores are listed by two commands
\* without a lock beside the changes of others. What it shows is what the driver
\* reads out of those lines, be that the item or not.
ListingIsRegular ==
  \A c \in Clients :
    req[c].op = "list" /\ ans[c].status = "ok" =>
      /\ Shown(always[c]) \subseteq ans[c].items
      /\ ans[c].items \subseteq Shown(ever[c])

\* What the page says over its lists ("Portals for current target"): they show
\* what is there.
ListingIsTrue ==
  \A c \in Clients :
    req[c].op = "list" /\ ans[c].status = "ok" =>
      always[c] \subseteq ans[c].items /\ ans[c].items \subseteq ever[c]

\* A deletion without a type that says "not found" did not overlook a backstore
\* of that name, of whichever type: there was none all the time it had the mutex,
\* or an operator changed one meanwhile. It holds as long as the lines of
\* backstores are read as what they are and a killed command does not print the
\* words of one that found nothing.
NotFoundWasAbsent ==
  \A c \in Clients :
    ResolvesType(req[c]) /\ ans[c].status = "ok" /\ ~ans[c].changed =>
      always[c] = {} \/ always[c] # ever[c]

\* What the page says of a mapping answered "ok" ("Create Mapping succeeded",
\* "Quick setup completed"): the backstore it names is on that LUN.
OkMeansMapped ==
  [][\A c \in Clients :
       /\ req[c].op = "create" /\ req[c].kind = "mapping" /\ req[c].slot[2] # AnyLun
       /\ ans'[c] # ans[c] /\ ans'[c].status = "ok"
       => Item("mapping", req[c].slot, req[c].store) \in host']_vars

\* What the page says of an ACL or a portal answered "ok" ("Create ACL succeeded"):
\* it is there.
OkMeansThere ==
  [][\A c \in Clients :
       /\ req[c].op = "create" /\ req[c].kind \in {"acl", "portal"}
       /\ ans'[c] # ans[c] /\ ans'[c].status = "ok"
       => Item(req[c].kind, req[c].slot, <<>>) \in host']_vars

\* Where a request is, for somebody who does not see the commands.
Phase(p) ==
  CASE p = "idle"  -> "idle"
    [] p = "lock"  -> "open"
    [] p = "reply" -> "closed"
    [] OTHER       -> "served"

Promise == INSTANCE HostPromise WITH
  Wishes  <- Requests,
  Allowed <- {r \in Requests : Admissible(r)},
  Outside <- AdminItems,
  phase   <- [c \in Clients |-> Phase(pc[c])],
  wish    <- req,
  reply   <- ans

\* The four services behave as HostPromise says, each reading the words of errors
\* in its own way: each change is made once, wholly or not at all, by the request
\* that is told so; "ok" means that what was asked for is so, but for a mapping
\* whose LUN has another backstore (TakenByAnother); and a failure has a cause in
\* what is configured or in the deadline. It holds as long as no command line
\* spells "exists", targetcli's messages contain the words of their reason and of
\* no other, and the lines of backstores are read as what they are.
KeepsPromise == Promise!Spec
=============================================================================
