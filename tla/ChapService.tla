---------------------------- MODULE ChapService ----------------------------
(***************************************************************************)
(* The CHAP settings of one target: the handlers of /api/v1/auth/chap, the *)
(* CHAPService and the targetcli commands it runs, one step each.          *)
(*                                                                         *)
(* A GET reads the settings with three commands and takes no lock.  A PUT  *)
(* holds the service's mutex over its first reading, its one or three      *)
(* writing commands and its second reading.  The mutex is that of the CHAP *)
(* service only: the target may be deleted and created again in between,   *)
(* which the targets service does under a mutex of its own.                *)
(*                                                                         *)
(* Three more commands read hints about mutual authentication.  They are   *)
(* one step, which cannot fail: their errors are ignored.  What they read  *)
(* is left out, nothing here ever sets it.                                 *)
(***************************************************************************)
EXTENDS FiniteSets

CONSTANTS
  Clients,    \* requests that may be in progress at the same time
  Users,      \* userids a request may carry
  Passwords,  \* passwords a request may carry
  None,       \* what is stored where nothing was set, and a field left empty
  ReadBack,   \* ReadBack[v]: what parseTargetCLIValue makes of a stored v
  NoClient,   \* the holder of a free mutex
  Deletable   \* whether the target may be deleted beside the requests

Values == Users \union Passwords \union {None}

ASSUME ConstantsOK ==
  /\ None \notin Users \union Passwords
  /\ NoClient \notin Clients
  /\ ReadBack \in [Values -> Values]
  /\ ReadBack[None] = None
  /\ Deletable \in BOOLEAN

VARIABLES
  chap,     \* the settings in the kernel, of a target that exists or not
  mu,       \* who holds CHAPService.mu
  pc,       \* pc[c]: the next command of request c
  req,      \* req[c]: what request c asks for
  wrote,    \* wrote[c]: it has done its writing commands
  got,      \* got[c]: what its reading commands have told it
  cut,      \* cut[c]: its context is done or the host fails its commands
  reborn,   \* reborn[c]: the target was deleted while c was served
  witness,  \* witness[c]: the target was ready since c last read "auth"
  ans       \* ans[c]: the answer that awaits the end of the handler

vars == <<chap, mu, pc, req, wrote, got, cut, reborn, witness, ans>>

-----------------------------------------------------------------------------
Settings == [exists : BOOLEAN, auth : BOOLEAN, user : Users \union {None},
             pass : Passwords \union {None}]
Gone  == [exists |-> FALSE, auth |-> FALSE, user |-> None, pass |-> None]
Fresh == [exists |-> TRUE, auth |-> FALSE, user |-> None, pass |-> None]

Request(op, enabled, user, pass) ==
  [op |-> op, enabled |-> enabled, user |-> user, pass |-> pass]

Get == Request("get", FALSE, None, None)
\* The credentials of a request to disable CHAP are not looked at.
Disable == Request("set", FALSE, None, None)
Enables == [op : {"set"}, enabled : {TRUE}, user : Users \union {None},
            pass : Passwords \union {None}]
Requests == {Get, Disable} \union Enables
NoRequest == Request("none", FALSE, None, None)

Requested == Requests \union {NoRequest}

\* An answer with the settings it reports; "pass" is whether one is set.
States == [auth : BOOLEAN, user : Values, pass : BOOLEAN]
Answers == [status : {"none", "ok", "missing", "error", "refused"},
            changed : BOOLEAN, state : States]
Answer(status, changed, state) ==
  [status |-> status, changed |-> changed, state |-> state]
Unread == [auth |-> FALSE, user |-> None, pass |-> FALSE]

Done(changed, state) == Answer("ok", changed, state)
Missing  == Answer("missing", FALSE, Unread)
Failed   == Answer("error", FALSE, Unread)
Refused  == Answer("refused", FALSE, Unread)
NoAnswer == Answer("none", FALSE, Unread)

\* Wrong: any output but "(null)" is taken for a password.
AlwaysSet(v) == TRUE

\* Whether targetcli's output for the stored password v shows one.
PasswordSet(v) == ReadBack[v] # None

\* Wrong: the password is not checked.
AdmissibleUser(r) == r.op = "set" /\ r.enabled => r.user # None

\* Credentials are needed to enable CHAP.
Admissible(r) == r.op = "set" /\ r.enabled => r.user # None /\ r.pass # None

\* Wrong: the userid that is set is not compared.
AsItIsAnyUser(r, state) ==
  IF r.enabled THEN state.auth /\ state.pass ELSE ~state.auth

\* Whether the settings read, state, leave nothing to do for r.
AsItIs(r, state) ==
  IF r.enabled THEN state.auth /\ state.user = r.user /\ state.pass
               ELSE ~state.auth

\* An initiator can log in with CHAP.
Ready(k) == k.exists /\ k.auth /\ k.user # None /\ k.pass # None

Reading == {"auth", "user", "pass", "hints"}
Writing == {"setauth", "setuser", "setpass"}

Init ==
  /\ chap \in {Gone, Fresh}
  /\ mu = NoClient
  /\ pc = [c \in Clients |-> "idle"]
  /\ req = [c \in Clients |-> NoRequest]
  /\ wrote = [c \in Clients |-> FALSE]
  /\ got = [c \in Clients |-> Unread]
  /\ cut = [c \in Clients |-> FALSE]
  /\ reborn = [c \in Clients |-> FALSE]
  /\ witness = [c \in Clients |-> FALSE]
  /\ ans = [c \in Clients |-> NoAnswer]

\* Remembers of every request whether the target was ready at some moment
\* since it last read "auth".
Watch ==
  witness' = [c \in Clients |->
    /\ pc'[c] \in {"user", "pass", "hints", "reply"}
    /\ witness[c] \/ Ready(chap')]

-----------------------------------------------------------------------------
\* Wrong: a request that fails forgets the mutex.
FinishLocked(c, a) ==
  /\ pc' = [pc EXCEPT ![c] = "reply"]
  /\ ans' = [ans EXCEPT ![c] = a]
  /\ mu' = IF mu = c /\ a.status = "ok" THEN NoClient ELSE mu
  /\ wrote' = [wrote EXCEPT ![c] = FALSE]
  /\ got' = [got EXCEPT ![c] = Unread]
  /\ cut' = [cut EXCEPT ![c] = FALSE]

\* The service returns a: its deferred unlock runs, its locals are gone.
Finish(c, a) ==
  /\ pc' = [pc EXCEPT ![c] = "reply"]
  /\ ans' = [ans EXCEPT ![c] = a]
  /\ mu' = IF mu = c THEN NoClient ELSE mu
  /\ wrote' = [wrote EXCEPT ![c] = FALSE]
  /\ got' = [got EXCEPT ![c] = Unread]
  /\ cut' = [cut EXCEPT ![c] = FALSE]

\* The request goes on to its next command, with its lock as it is.
Goto(c, next) ==
  /\ pc' = [pc EXCEPT ![c] = next]
  /\ UNCHANGED <<mu, cut, ans>>

Refuse(c, r) ==
  /\ pc[c] = "idle"
  /\ ~Admissible(r)
  /\ req' = [req EXCEPT ![c] = r]
  /\ Finish(c, Refused)
  /\ UNCHANGED <<chap, reborn>>
  /\ Watch

Accept(c, r) ==
  /\ pc[c] = "idle"
  /\ Admissible(r)
  /\ req' = [req EXCEPT ![c] = r]
  /\ Goto(c, IF r.op = "get" THEN "auth" ELSE "lock")
  /\ UNCHANGED <<chap, wrote, got, reborn>>
  /\ Watch

\* The deadline of the request passes, its client goes away, or targetcli
\* starts to fail.
Expire(c) ==
  /\ pc[c] \in {"lock"} \union Reading \union Writing
  /\ ~cut[c]
  /\ cut' = [cut EXCEPT ![c] = TRUE]
  /\ UNCHANGED <<chap, mu, pc, req, wrote, got, reborn, ans>>
  /\ Watch

\* Wrong: the mutex does not keep others out.
LockShared(c) ==
  /\ pc[c] = "lock"
  /\ mu' = c
  /\ pc' = [pc EXCEPT ![c] = "auth"]
  /\ UNCHANGED <<chap, req, wrote, got, cut, reborn, ans>>
  /\ Watch

\* Lock does not look at the context.
Lock(c) ==
  /\ pc[c] = "lock"
  /\ mu = NoClient
  /\ mu' = c
  /\ pc' = [pc EXCEPT ![c] = "auth"]
  /\ UNCHANGED <<chap, req, wrote, got, cut, reborn, ans>>
  /\ Watch

\* A command runs as asked where its target exists and nothing cuts it.
Runs(c) == chap.exists /\ ~cut[c]

ReadAuth(c) ==
  /\ pc[c] = "auth"
  /\ Runs(c)
  /\ got' = [got EXCEPT ![c].auth = chap.auth]
  /\ Goto(c, "user")
  /\ UNCHANGED <<chap, req, wrote, reborn>>
  /\ Watch

ReadUser(c) ==
  /\ pc[c] = "user"
  /\ Runs(c)
  /\ got' = [got EXCEPT ![c].user = ReadBack[chap.user]]
  /\ Goto(c, "pass")
  /\ UNCHANGED <<chap, req, wrote, reborn>>
  /\ Watch

ReadPass(c) ==
  /\ pc[c] = "pass"
  /\ Runs(c)
  /\ got' = [got EXCEPT ![c].pass = PasswordSet(chap.pass)]
  /\ Goto(c, "hints")
  /\ UNCHANGED <<chap, req, wrote, reborn>>
  /\ Watch

\* The commands whose failure is ignored; then GetCHAP returns and the
\* service decides.
ReadHints(c) ==
  /\ pc[c] = "hints"
  /\ \/ /\ req[c].op = "get" \/ wrote[c]
        /\ Finish(c, Done(wrote[c], got[c]))
     \/ /\ req[c].op = "set" /\ ~wrote[c]
        /\ AsItIs(req[c], got[c])
        /\ Finish(c, Done(FALSE, got[c]))
     \/ /\ req[c].op = "set" /\ ~wrote[c]
        /\ ~AsItIs(req[c], got[c])
        /\ Goto(c, "setauth")
        /\ UNCHANGED <<wrote, got>>
  /\ UNCHANGED <<chap, req, reborn>>
  /\ Watch

\* What the writing command of request c makes of the settings.
Written(c) ==
  CASE pc[c] = "setauth" -> [chap EXCEPT !.auth = req[c].enabled]
    [] pc[c] = "setuser" -> [chap EXCEPT !.user = req[c].user]
    [] pc[c] = "setpass" -> [chap EXCEPT !.pass = req[c].pass]

\* The command after it: the credentials follow where CHAP is enabled, and
\* all is read again at the end.
AfterWrite(c) ==
  CASE pc[c] = "setauth" -> IF req[c].enabled THEN "setuser" ELSE "auth"
    [] pc[c] = "setuser" -> "setpass"
    [] pc[c] = "setpass" -> "auth"

Write(c) ==
  /\ pc[c] \in Writing
  /\ Runs(c)
  /\ chap' = Written(c)
  /\ Goto(c, AfterWrite(c))
  /\ wrote' = [wrote EXCEPT ![c] = AfterWrite(c) = "auth"]
  /\ got' = [got EXCEPT ![c] = Unread]
  /\ UNCHANGED <<req, reborn>>
  /\ Watch

\* A command that is killed or fails may have written or not; one that finds
\* no target is told so.
Fail(c) ==
  /\ pc[c] \in (Reading \ {"hints"}) \union Writing
  /\ ~Runs(c)
  /\ chap' \in IF chap.exists /\ pc[c] \in Writing THEN {chap, Written(c)} ELSE {chap}
  /\ Finish(c, IF cut[c] THEN Failed ELSE Missing)
  /\ UNCHANGED <<req, reborn>>
  /\ Watch

\* The handler ends and the answer goes out.
Reply(c) ==
  /\ pc[c] = "reply"
  /\ pc' = [pc EXCEPT ![c] = "idle"]
  /\ req' = [req EXCEPT ![c] = NoRequest]
  /\ reborn' = [reborn EXCEPT ![c] = FALSE]
  /\ ans' = [ans EXCEPT ![c] = NoAnswer]
  /\ UNCHANGED <<chap, mu, wrote, got, cut>>
  /\ Watch

\* The targets service, or an operator, deletes the target or creates it.
DeleteTarget ==
  /\ Deletable
  /\ chap.exists
  /\ chap' = Gone
  /\ reborn' = [c \in Clients |-> reborn[c] \/ pc[c] \notin {"idle", "reply"}]
  /\ UNCHANGED <<mu, pc, req, wrote, got, cut, ans>>
  /\ Watch

CreateTarget ==
  /\ ~chap.exists
  /\ chap' = Fresh
  /\ UNCHANGED <<mu, pc, req, wrote, got, cut, reborn, ans>>
  /\ Watch

\* The agent dies with what it runs and starts again; the kernel stays.
Crash ==
  /\ mu' = NoClient
  /\ pc' = [c \in Clients |-> "idle"]
  /\ req' = [c \in Clients |-> NoRequest]
  /\ wrote' = [c \in Clients |-> FALSE]
  /\ got' = [c \in Clients |-> Unread]
  /\ cut' = [c \in Clients |-> FALSE]
  /\ reborn' = [c \in Clients |-> FALSE]
  /\ ans' = [c \in Clients |-> NoAnswer]
  /\ UNCHANGED chap
  /\ Watch

Command(c) ==
  \/ ReadAuth(c) \/ ReadUser(c) \/ ReadPass(c) \/ ReadHints(c)
  \/ Write(c) \/ Fail(c)

Serve(c) ==
  \/ \E r \in Requests : Refuse(c, r) \/ Accept(c, r)
  \/ Expire(c) \/ Lock(c) \/ Command(c) \/ Reply(c)

Next == (\E c \in Clients : Serve(c)) \/ DeleteTarget \/ CreateTarget \/ Crash

\* Go hands a contended mutex to its oldest waiter, and the deadline of a
\* request bounds each run of targetcli.
Fairness ==
  \A c \in Clients :
    SF_vars(Lock(c)) /\ WF_vars(Command(c)) /\ WF_vars(Reply(c))

Spec == Init /\ [][Next]_vars /\ Fairness

-----------------------------------------------------------------------------
Typed ==
  /\ chap \in Settings
  /\ mu \in Clients \union {NoClient}
  /\ pc \in [Clients -> {"idle", "lock", "reply"} \union Reading \union Writing]
  /\ req \in [Clients -> Requested]
  /\ wrote \in [Clients -> BOOLEAN]
  /\ got \in [Clients -> States]
  /\ cut \in [Clients -> BOOLEAN]
  /\ reborn \in [Clients -> BOOLEAN]
  /\ witness \in [Clients -> BOOLEAN]
  /\ ans \in [Clients -> Answers]

PastChecks ==
  \A c \in Clients :
    /\ pc[c] = "idle" <=> req[c] = NoRequest
    /\ pc[c] \in {"lock"} \union Writing => req[c].op = "set"
    /\ pc[c] \notin {"idle", "reply"} /\ req[c].enabled =>
         req[c].user # None /\ req[c].pass # None

\* Every variable has its type, a target that is gone has no settings, and a
\* request that would enable CHAP without credentials does not get past the
\* checks of the service.
TypeOK == Typed /\ (~chap.exists => chap = Gone) /\ PastChecks

\* The mutex belongs to exactly the PUT that works on the settings.
MutexHeldToSet ==
  \A c \in Clients :
    mu = c <=> req[c].op = "set" /\ pc[c] \in Reading \union Writing

\* The credentials of a PUT are written onto what it wrote before: CHAP is on
\* before a userid, that userid is stored before its password, and all of it
\* still is while the PUT reads it again, unless the target was deleted
\* (SetCHAP in targetcli.go, under the mutex of chap.go).
WritesBuildUp ==
  \A c \in Clients : ~reborn[c] =>
    /\ pc[c] \in {"setuser", "setpass"} => chap.auth
    /\ pc[c] = "setpass" => chap.user = req[c].user
    /\ wrote[c] /\ pc[c] \in Reading =>
         /\ chap.auth = req[c].enabled
         /\ req[c].enabled => chap.user = req[c].user /\ chap.pass = req[c].pass

\* As a PUT succeeds, CHAP is on or off as it asked, the userid it asked for is
\* the one that is set, and the answer reports what is set as targetcli prints
\* it. The password it asked for is promised only where something was changed
\* (SavedPasswordIsStored), and the userid only as long as none that is set is
\* printed like another that is asked for (SavedUserIsStored).
SetAnswerHolds ==
  [][\A c \in Clients :
       /\ req[c].op = "set"
       /\ ans'[c] # ans[c] /\ ans'[c].status = "ok"
       /\ ~reborn[c]
       => /\ chap'.auth = req[c].enabled
          /\ ans'[c].state = [auth |-> chap'.auth, user |-> ReadBack[chap'.user],
                              pass |-> PasswordSet(chap'.pass)]
          /\ req[c].enabled => chap'.user = req[c].user
          /\ req[c].enabled /\ ans'[c].changed => chap'.pass = req[c].pass]_vars

\* A GET that reports CHAP on with a userid and a password reports what was so
\* at some moment of its reading, though it takes no lock against a PUT that
\* is half done: it holds by the order of the commands on both sides.
ReadyWasReady ==
  \A c \in Clients :
    LET s == ans[c].state
    IN  /\ req[c].op = "get" /\ ans[c].status = "ok" /\ ~reborn[c]
        /\ s.auth /\ s.user # None /\ s.pass
        => witness[c]

\* What the page says of a PUT that was answered "ok" (index.html:2127 and 961,
\* "Refresh CHAP Auth succeeded" after the button "Save CHAP"): the password that
\* was typed is the one in force.
SavedPasswordIsStored ==
  [][\A c \in Clients :
       /\ req[c].op = "set" /\ req[c].enabled
       /\ ans'[c] # ans[c] /\ ans'[c].status = "ok"
       /\ ~reborn[c]
       => chap'.pass = req[c].pass]_vars

\* What the page says of the same "ok": the userid that was typed is the one in
\* force. A stored userid is known by what follows its last "=" only
\* (targetcli.go:600), so that another may be taken for it.
SavedUserIsStored ==
  [][\A c \in Clients :
       /\ req[c].op = "set" /\ req[c].enabled
       /\ ans'[c] # ans[c] /\ ans'[c].status = "ok"
       /\ ~reborn[c]
       => chap'.user = req[c].user]_vars

\* A request that passed the checks is answered, or its agent dies.
EveryCallAnswered ==
  \A c \in Clients :
    pc[c] \in {"lock"} \union Reading \union Writing ~> pc[c] \in {"reply", "idle"}
=============================================================================
