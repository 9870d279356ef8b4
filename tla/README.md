# A formal model of iSCSI-GUI

TLA+ modules, TLC runs and TLAPS proofs about the agent and the page of
iSCSI-GUI, kept beside the code they are translated from. Paths below are
relative to `src/`; `targetcli.go` is `agent/internal/driver/targetcli.go`,
`index.html` is `packaging/raw/usr/share/casaos/www/modules/iscsi_gui/index.html`.

## The system

A browser page configures iSCSI targets of a CasaOS host. It calls an HTTP
gateway, the gateway passes each call to the agent over a Unix socket, and the
agent runs `targetcli`, which changes the LIO configuration in the kernel.

    page (index.html) --HTTP--> CasaOS or web gateway --unix socket--> agent
      agent: router -> service (a mutex each) -> driver -> targetcli -> kernel
                   \-> audit log (memory)

| part | state | operations | who calls it |
|---|---|---|---|
| page, `index.html` | the current target, the panels' lists | refresh a panel, submit a form, quick setup, `callAPI` with its fallback | the user; each handler is a callback that awaits calls |
| gateway, `web/gateway/main.go` | none | answer a preflight, forward a call, 502 where the agent is down | the page, as another origin |
| router, `agent/internal/api/router.go` | none | one handler per resource and method; a deadline of 8, 10 or 12 s per request; audit record; error to status | one goroutine per request |
| targets, `agent/internal/service/targets.go` | a mutex | list; create and delete: look, then command | router |
| backstores, mappings, ACLs, portals (`service/*.go`) | a mutex each | list; create and delete: command, then read the error's words | router |
| CHAP, `service/chap.go` | a mutex | get: six commands; set: get, up to three commands, get | router |
| sessions, `service/sessions.go` | none | list, by up to three kinds of command and the best of the readings | router |
| driver, `targetcli.go` | none (the kernel's configuration behind it) | run targetcli under a context, parse what it prints | services |
| audit log, `agent/internal/audit/logger.go` | a ring of 500 records, an RWMutex | add, list with filters | router |
| agent process, `agent/cmd/agent/main.go` | the socket, the server | start, tell systemd, serve, stop on a signal with a deadline | systemd |

Where the parts meet: the services share the kernel's configuration but no
lock; the driver is killed with the context of its request; the audit record
is written by the handler that answers; the page decides from one answer what
to ask next, and shows late answers in panels whose subject may have changed.

### What is hard

- *Interleaving.* Requests run at once. A service's mutex covers its look and
  its command; listings and `GET`s take no lock; two services, or an operator
  with targetcli, may work on the same target.
- *Deadlines.* A deadline runs while a request waits for a mutex, and kills
  targetcli at any moment: an error does not tell whether the change was made.
- *Partial failure.* Setting CHAP takes three commands, quick setup five
  requests; each may be the last one that succeeds.
- *Reading words.* Whether an error means "already done" is read off the words
  of targetcli; whether CHAP is as requested is read off what it prints.
- *Restart.* The agent keeps no state but the audit log, the kernel keeps all.
  It may die with a targetcli running, and a stop has to end although requests
  are under way that may take longer than it waits.
- *Delivery.* `callAPI` tries a call at two bases. What is sent again may have
  been done, or be done late, when the page has moved on.
- *Output of versions.* What targetcli prints of a session differs from version
  to version; three commands are read and the reading with most in it is taken.

### What makes each part correct

- targets: each request takes effect at one instant, truthfully answered, and
  fails only for a cause outside the other requests; the mutex is never left
  locked; a listing has only targets, and where targetcli prints no markers those
  and initiators.
- CHAP: after a successful `PUT` the settings are those asked for and reported
  (with the exceptions named under Findings);
  a `GET` never reports a readiness that never was, though it takes no lock.
- backstores, mappings, ACLs, portals: "ok" to a creation means the item is
  there, "ok" to a deletion means it is gone, a listing shows what is there
  (Findings says where this is not so).
- audit log: a bounded ring that keeps the newest records; a change that was
  answered is on record.
- page: a panel shows the target it is headed with; a quick setup that reports
  completion has done each of its steps, and one that failed can be repeated.
- sessions: a row is of one session, with each name where it belongs, and no
  session is left out.
- agent process: a stop ends in time and the agent comes back after a failure;
  no command of a dead agent runs beside one of the new.

## Modules

| module | models |
|---|---|
| `IdempotentSet` | the promise: a set on which every call takes effect at one instant |
| `TargetsService` | handlers, service and driver of targets; refines `IdempotentSet` |
| `TargetsService_proofs` | its theorems |
| `ChapService` | handlers, service and driver of CHAP, one step per command |
| `ChapService_proofs` | its theorems |
| `LioHost` | what is configured in the kernel, what may be asked about it, what targetcli makes of that |
| `HostPromise` | the promise of the other four: each change once, at one instant, truthfully answered; listings are regular |
| `HostResources` | backstores, mappings, ACLs and portals: four services with a mutex each over one `LioHost`; refines `HostPromise` |
| `HostResources_proofs` | its theorems |
| `AuditTrail` | the ring of records, the handlers that add to it, what a listing picks |
| `AuditTrail_proofs` | its theorems |
| `Console` | the page: current target, panels, readiness, and its handlers between their awaits |
| `Console_proofs` | its theorems |
| `QuickSetup` | several pages in a quick setup, `callAPI` attempt by attempt, the gateway, an agent that goes down and comes back |
| `QuickSetup_proofs` | its theorems |
| `Sessions` | a listing of sessions, command by command and line by line |
| `Sessions_proofs` | its theorems |
| `AgentLifecycle` | `main()` step by step, its requests and their commands, systemd, and time |
| `AgentLifecycle_proofs` | its theorems |
| `MC...` | the instances for TLC |

### How the modules stand for the code

**The agent** (`TargetsService`, `ChapService`, `HostResources`). A member of
`Clients` is a goroutine that serves one request after another. `pc[c]` is the
next thing it does that others can see: a `Lock`, or one run of targetcli; what
is between two of them is local and one step with the earlier. `mu` is the
mutex of the service, and `Finish` is the service's `return`, with its deferred
unlock. `Accept` and `Refuse` are the checks before the mutex. `Expire` is the
passing of the handler's `context.WithTimeout`, a client that goes away, or a
targetcli that starts to fail; from then on a command may have been killed
before or after it did its work. `Lock` does not look at `cut`, as `sync.Mutex`
does not look at a context. `Reply` is the handler's end. `Crash` is the death
of the agent and its restart by systemd: the kernel's part (`host`, `targets`,
`chap`) stays. The kernel changes in a single step of a command.

- `TargetsService`: `Lock`, then a look (`ListTargets`), then the command, all
  under the mutex; a listing is one command without it. What a request saw is
  where it goes from its look: to the command, or back with "already so". A look
  shows one of `Listings`: without the `[TPGs: n]` markers it may have initiators
  too (`Mistaken`), and `IdempotentSet` says what may then go wrong of their names:
  a listing has them, a creation is "already so" (`TakenForMember`), a deletion
  fails. An operator (`Admin`) changes `AdminIQN`.
- `ChapService`: `GET` is `ReadAuth`, `ReadUser`, `ReadPass`, `ReadHints`; `PUT`
  is these under the mutex, `Write` once or three times, and these again.
  `ReadBack` is `parseTargetCLIValue`: it takes what follows the last `=`, so a
  value with one in it is read back as another, and takes a userid that is the
  word "none" for one that is not set. The target may be deleted and created
  meanwhile: that is another service's mutex.
- `HostResources`: the command first, and then the words of its error. The
  phrases that each service looks for are its own (`BackstoreWords`,
  `MappingWords`, `ACLWords`, `PortalWords`, `TargetWords`); a message is the set
  of phrases that it contains, `Says` gives the messages that targetcli may print
  for a reason, and `Messages` adds what the command line spells. `AlreadyDone` is
  `isMappingAlreadyExists` and its like, `Judged` the answer it leads to. So a
  word that a service does not know, or one that means something else to it, is
  in the model. A listing shows what the driver's pattern finds in the lines of
  what is there (`ReadAs`, `Shown`): of a portal with an IPv6 address, which
  targetcli prints in brackets, a piece of the address; of a mapping without
  "/backstores/" in its line, no backstore; of a skipped name, nothing. What
  hangs on a target or a backstore goes with it (`Without`). An untyped deletion
  of a backstore lists both types first.
- `HostPromise` has no mutex, no commands and no words. `KeepsPromise` maps
  `lock` to `"open"`, every command to `"served"` and `reply` to `"closed"`; the
  last command of a request is the one step `Work`, `FindDone`, `Show`, `Fail` or
  `FailDone`, at which what it answers is true, and every earlier one a stutter.
  "ok" to a creation means that the very item is there, with its backstore; the one
  untrue "ok" is an action with a name, `TakenByAnother` (finding 2).
  A listing of backstores has no such instant, nor has the search for a type: of
  these only regularity is promised, the lines of what was there `always` and no
  more than those of what was `ever`. A failure needs a cause: the request
  was cut, or its target,
  its backstore or a free LUN is not there. That is where the words matter: a
  service that takes more, or less, for "already so" answers something for which
  `HostPromise` has no step.
- `disturbed`, `witness`, `reborn`, `always`, `ever` are history variables:
  no step of the code depends on them.

**The audit log** (`AuditTrail`). `Call` is the service, `AddAudit` the record,
`Reply` the answer; a request whose body cannot be decoded has no record. `log`,
`begun`, `current`, `asked`, `result`, `answered` and `prior` are the history.
`Added` is `Logger.Add`, `List` is `Logger.List`.

**The page** (`Console`). JavaScript runs a handler to its next `await` without
interruption. `running[h].calls` are the calls it awaits, `running[h].then` the
stages it has left, each the set of panels it then refreshes at once
(`Promise.all`) or one after the other. `NextStage` sends the calls of the next
stage, and reads the current target as it does; `Serve` is the agent's side;
`LandTargets`, `LandPanel` and `LandChange` are the continuations. `Quiet` says
that a continuation that is due runs before the next event, as microtasks do.
`sent`, `late` and `cause` remember why a panel may be out of place.

**Quick setup** (`QuickSetup`). `step[s]`, `base[s]` and `call[s]` are where the
handler of page `s` is: which of its calls, at which base, before or after the
preflight that a browser makes for the second base, another origin. `GoOn` and
`FallBack` are its two ways on: the next call, or the next base and then
`failStep`. `Serve` is the agent through the gateway: `Create` is what
`TargetsService` and `HostResources` show a creation to be, one step; it is
rejected for what it needs, or for what it is (`Refused`: a name or an address
that a service's checks refuse, a disk or an address that targetcli does not
have). `Lose` is
a call that ends without its answer, before the agent has it, after it was done,
or with the agent still at it (`late`, `ServeLate`). `leads` is the deployment:
behind the page's own address there may be the agent, or nothing (404).
`spoilt` and `removed` are history: what a failure has to be explained by.

**Sessions** (`Sessions`). `Printed` has what targetcli may print of a session,
by the patterns that the parser looks for: a line with the number and the state
only, lines that add to it, one line with both names in either order, or blocks
with no number and a blank line after each. Each of the three commands prints in
some format on a host; as a listing reads each once, the format is chosen as it
is read. A listing takes no lock: sessions and targets come and go between its
commands. `set` is what `listTargetsSet` returns, empty where that command fails
and with initiators in it where the markers are missing. `always`, `ever` and
`known` are history.

**The agent process** (`AgentLifecycle`). `main` is the next thing `main()`
does, `served` is `errCh`, `req[r]` and `queue` are the requests of one service
at its mutex, `children` their runs of targetcli; `orphans` are those of an
agent that is gone. `Tick` is two seconds, and is disabled while something is
due that waits for nothing; the unit's times are to scale (12 s, 10 s, 20 s).
The mutex is first in, first out: Go lets a newcomer in before a waiter of less
than a millisecond, which is nothing at this scale. `Stop`, `Bury` and `Restart`
are systemd's reading of the unit file. The other modules have all of this as
one action `Crash`, with nothing left over; `MutexSpansRestarts` is why they may.

## Runs

Each run is `tlc -config <cfg> <module>` in this directory.

| run | configuration | shows |
|---|---|---|
| `targets` | `MCTargetsService.cfg` | each request takes effect at one instant (`KeepsPromise`), a look is never stale (`SeenIsCurrent`), a failure has a cause outside the agent, every call is answered; all of it where targetcli prints no markers and an initiator may be taken for a target, and of its name no more is wrong than `IdempotentSet` says |
| `chap` | `MCChapService.cfg` | what a `PUT` wrote is still there when it reads it again; where no userid is printed like another, an "ok" leaves the userid asked for in force, the password too if it says that something changed, and reports what is set; a `GET` invents no readiness |
| `chap_password` | `MCChapService_password.cfg` | *violation* of `SavedPasswordIsStored`: finding 1 |
| `host` | `MCHostResources.cfg` | the four services implement `HostPromise` (`KeepsPromise`), whichever of the phrases they know targetcli uses: "ok" means so but for a LUN with another backstore, a failure has a cause; no mutex is leaked; listings by two commands are regular, an untyped deletion overlooks nothing |
| `host_mapped` | `MCHostResources_mapped.cfg` | *violation* of `OkMeansMapped`: finding 2 |
| `audit` | `MCAuditTrail.cfg` | the log keeps the newest in order, each answered change is on it once, a listing is right for every filter |
| `console` | `MCConsole.cfg` | a panel is out of place for two reasons only; readiness is never out of date with what is shown |
| `console_ready` | `MCConsole_ready.cfg` | *violation* of `ReadyIsTrue`: finding 3 |
| `console_deletes` | `MCConsole_deletes.cfg` | *violation* of `DeletesWhatIsShown`: finding 4: with nobody else about, an item that really is on the other target is deleted there |
| `quick` | `MCQuickSetup.cfg` | "Quick setup completed" means that all of it is there, a setup fails only where what it asks for is refused, where a fault was met at every base that leads to the agent, or after a deletion, and one that failed without being refused can be completed |
| `sessions` | `MCSessions.cfg` | rows are of one session in every format; with a good list of targets each name is where it belongs, and nothing that lasted is missing |
| `lifecycle` | `MCAgentLifecycle.cfg` | commands of one service never overlap, not across a restart either; requests and stops end in time; a request that a stop cuts off was given 10 s; the agent comes back |

### Bounds, and why they are enough

- Two requests at a time (`Clients`). A service has one mutex, so what a
  request can meet is the one that holds it, those without a lock, and the
  outside; each is among the two and the operator. The theorems below are for
  any number, as are those about pages, panels, handlers, records and names.
- `targets`: three well-formed names and one ill-formed. The operator changes one,
  another is that of an initiator, and no markers are printed: so failures of
  requests about the third must have another cause, and nothing may be wrong of
  it. What is read with markers is among what may be read without.
- `chap`: two userids, one of which is read back as if none was set, and two
  passwords: the least with which an old credential can be taken for a new one.
- `host`: one target, both types of one backstore name, which an operator or an
  untyped deletion may take away; creations, deletions and mappings of the one in
  a file, to a LUN or to the LUN targetcli chooses, and of the other type's to the
  same LUN; one initiator, one portal, of IPv6, which is listed as another, a name
  that is refused. One LUN is enough: taken or free. `MCSays` has a message for
  each phrase that a service looks for, and for what fails for another reason
  those that other phrases of the same lists would match; `DoneLoosely`, which
  looks for "exist", is told apart by them.
- `audit`: a log of three and a fourth request (`MaxRequests`, between two
  starts) are the least with which a record is dropped. A listing's limit runs
  from -1 past the cap.
- `console`: two targets, two handlers, one panel, one item. Panels do not
  touch each other but for `ready`, which `console_ready` has two for. The
  runs differ in `Clicks`, what the user does, to keep each in reach.
- `quick`: two pages that set up one target with two backstores, one of them
  with an initiator, the other with an address that is refused, so that they
  meet at the target and its LUN, and one may fail at its portal each time.
  One fault and one deletion: where both bases lead to the agent a single fault
  at one call may not make a setup fail, where only the gateway does it may, and
  so may an agent that is down at both; the fault may come at any call.
- `sessions`: three sessions, of which each two share a target, an initiator or
  nothing, and all formats of the three commands. One listing at a time: it
  shares nothing with another.
- `lifecycle`: three requests, so that two wait at the mutex for a third; two
  failures and two stops, so that one of each may come while the traces of the
  other are there.

### Fairness

- A lock is strongly fair (`SF_vars(Lock(c))`): a Go mutex is handed to its
  oldest waiter once that has waited a millisecond. The mutex is free again and
  again rather than for good, so weak fairness would not do.
- A command is weakly fair: each runs under its request's deadline, after which
  it is killed. `Reply` is weakly fair: a goroutine that can run does.
- The page: weak fairness of `Serve` (a call ends by the agent's deadline, or
  its connection breaks) and of `NextStage`; strong fairness of `Land`, which
  `Quiet` disables now and then, as the event loop takes what is due in turn.
- `QuickSetup`: weak fairness of `Answer` (an attempt ends) and `AgentUp`
  (`Restart=on-failure`). `FailedSetupCompletes` is about a user who submits
  again what failed, so that is assumed too; a user who gives up is not
  promised anything.
- `AgentLifecycle`: weak fairness of what the process, a handler and systemd can
  do, and of time. No fairness of failures, stops or new requests.
- Otherwise nothing is assumed of requests, the user, operators, deadlines,
  crashes.
- The runs that check liveness, `targets`, `quick` and `lifecycle`, have no
  symmetry. `ChapService` and `EveryCallAnswered` there, and the fairness of
  `HostResources` and `Console`, are stated for a reader; no run checks liveness
  of these, and what would stop them, a mutex that is not let go, is covered by
  `MutexHeldToSet` and `MutexHeldToChange`.

## Proofs

`tlapm <module>_proofs.tla` checks the proofs of each of eight modules. The
theorems are for any number of requests, handlers, pages, records and sessions, and
for any names and values; the runs show the same on small instances.

| theorem | says |
|---|---|
| `TargetsService_proofs!TypeCorrect` | types, and no request gets past the checks |
| `MutexAlwaysHeldToChange` | the mutex is neither leaked nor bypassed |
| `LookIsNeverStale` | what a request saw holds when it changes it |
| `FailuresHaveCauses` | requests never make each other fail |
| `ServiceKeepsPromise` | `TargetsService` implements `IdempotentSet` |
| `ChapService_proofs!TypeCorrect` | types, and no CHAP without credentials |
| `MutexAlwaysHeldToSet` | the mutex is neither leaked nor bypassed |
| `WritesAlwaysBuildUp` | each command of a `PUT` finds what those before wrote |
| `ReadyIsNeverInvented` | a `GET` without a lock reports no readiness that never was |
| `SetAnswersHold` | an "ok" to a `PUT` leaves the userid asked for in force, the password too if it says "changed", and reports what is set |
| `HostResources_proofs!TypeCorrect` | types, whatever targetcli makes of a change |
| `MutexAlwaysHeldToChange` | the same of the four mutexes over one host |
| `ListingsAreRegular` | a listing has the lines of what was there throughout, and none of what never was, whatever is read out of a line |
| `NothingIsOverlooked` | a deletion that says "not found" has overlooked no backstore |
| `ServicesKeepPromise` | `HostResources` implements `HostPromise`, the one untrue "ok" of which is `TakenByAnother` |
| `AuditTrail_proofs!TypeCorrect` | types, and a log within its capacity |
| `LogKeepsNewest` | the log is the end of the log of everything |
| `AnswersAreOnRecord` | an answered change is on record once, as what it came to |
| `RecordsInOrder` | answered before another came is recorded before it |
| `ListingsAreNewestFirst` | a listing is right for every log, filter and limit |
| `AgentLifecycle_proofs!TypeCorrect` | types, one command at a time |
| `MutexHoldsAcrossRestarts` | no command of a dead agent beside one of the new |
| `RequestsInTime` | no request outlives its deadline, however many wait |
| `EveryStopInTime` | a stop is over by `Shutdown`'s deadline |
| `OnlyOldIsCut` | a request that a stop cuts off was given all of it |
| `QuickSetup_proofs!TypeCorrect` | types on the host, the pages and between them |
| `WhatPassedIsThere` | "completed" means that all of it is there |
| `EveryFailureHasCause` | a setup fails at a call that is refused for what it asks for, that met a fault at every base that leads to the agent, or after a deletion |
| `Console_proofs!TypeCorrect` | types, and a current target that the list shows |
| `NothingElseMisplaces` | a panel out of place has one of two causes |
| `NoteIsCurrent` | the note on readiness agrees with what is shown |
| `Sessions_proofs!TypeCorrect` | types, and rows of no other target than was asked for |
| `RowsAreOfSessions` | a row is of one session that was there, in every format |
| `RolesAreAlwaysRight` | with a good list of targets each name is where it belongs |
| `NothingIsEverMissing` | with one, nothing that lasted is missing |

They rest on the `ConstantsOK` of their modules, which TLC evaluates in each
run, and on these, which the theorems that need them name:

- `UsersToldApart` in `SetAnswersHold`: no userid is printed so that it is read
  back as another; without it the theorem is false (Findings).
- `StoresReadBack` and `ClearMessages` in `NothingIsOverlooked` and
  `ServicesKeepPromise`: the line of a backstore is read as that backstore (not so
  for some names: Findings), and targetcli says why a command fails in words that
  the service knows and no other. `NothingSpelled` in `ServicesKeepPromise`: no
  name in a command line spells "exists" (Findings). Of what is read out of the
  lines of mappings, ACLs and portals nothing is assumed, and `ListingsAreRegular`
  needs none of these.
- `ShutdownTimeout < StopTimeout`, in `ConstantsOK` of `AgentLifecycle`: 10 s in
  `main.go`, 20 s in the unit file.

*Targets.* The inductive invariant `IInv` is `TypeOK`, `MutexHeldToChange`,
`SeenIsCurrent`, `FailureHasCause` and `Tidy`. `SeenIsCurrent` needs the mutex:
only its holder changes targets, and the holder is the request whose look it is
about. It needs the operator's steps to be remembered (`disturbed`), for these
take no mutex. With it, the command of a request does what the abstract set
says at that instant: `PromiseStep` maps every step to one of `IdempotentSet`
or to none, where the look that finds nothing to do, the command, or the end of
a cut request is the instant of effect. `ListingsTell` is what a look shows with and
without markers, so nothing is assumed of them.

*CHAP.* `Inductive` adds to the properties `Tidy`, `ReadsHold` (what a `PUT` has
read stays so while it holds the mutex) and `Witnessed`. `ReadyWasReady` is not
inductive, for a `GET` takes no lock and reads three things at three instants.
`Witnessed` follows it from command to command: having seen CHAP on, a writer
beside it writes credentials only where CHAP is on, and if both are there the
`GET` was witness of it. That holds by the order of the commands, `auth` first
in `GetCHAP` and in `SetCHAP`; the lemmas `WitnessWritten` and `NothingSeen` are
its two halves. `WritesBuildUp` follows from the mutex (`WriterAlone`).

*Backstores, mappings, ACLs, portals.* `IInv` is `TypeOK`, `MutexHeldToChange`
and what a request has seen: `InPlace` (where it is fits what it asks for),
`Watched` (`always` and `ever` have followed the host since it began),
`SeenHolds` (what its commands have shown it lies between the two), and from
these `ListingIsRegular` and `NotFoundWasAbsent`. The mutex of a kind is not what
makes a listing regular, which takes none, but the history is; it is what lets an
untyped deletion look for the type and then delete it. For the refinement the
last command of a request is taken apart by what targetcli said (`Judged`): with
`ClearMessages` and `NothingSpelled` its words tell the reason (`StoresReadBack`
that the search for a type saw the backstores themselves), and
at each outcome `HostPromise` has a step with that answer; a command killed
with its request is `Fail` or `FailDone`.

*Audit log.* `IInv` is `TypeOK`, `KeepsNewest`, `RecordsKeepOrder`, `Served` (one
handler per request), `Future` (nothing is known of what has not come),
`Placed` (how far its handler is tells whether a request is on record) and
`Recorded`. `AnsweredIsOnRecord` is not inductive: it says nothing of a request
until it is answered, and `Placed` does. `ListIsNewestFirst` is a fact about
`List`, which is a fold of the library: `ListUnfolds` has it record by record, and
`ListIsRight` is the induction over these. The library's theorems on induction
take an operator, which no prover here can instantiate, so the induction is had
from the least member of a set of numbers (`LeastOf`, `Inductive`), and that the
fold's recursion has a solution at all is a lemma too (`FoldDefined`).

*Agent process.* `IInv` is `RequestsKept` (`RequestsTyped`, `Queued`,
`AnsweredInTime`), `ProcessKept` (`ProcessTyped`, `Phases`) and `Timely`.
`AnsweredInTime` is inductive only with `Queued`: who waits for the mutex waits in
the order of deadlines, the holder first; time passes only while the holder's
command has not used up its deadline, so nobody's is. `Phases` tells by the phase
of `main()` what is left of an agent: the commands of one that is gone, or has cut
its requests off, run only where nothing can be accepted, until systemd has killed
them; that is `MutexSpansRestarts`. `Timely`: in a stop, time passes only while
`Shutdown` waits, and those it waits for age with it.

*Quick setup.* `IInv` is `TypeOK` and `PagesKept`: `Silent` (a page says nothing
before its setup ends), `PassedIsThere` and `Tried`. What a call needs was made by
the calls before it, so the agent rejects a call only for what it asks for itself,
or after a deletion (`Doomed`); otherwise, `Tried` has it, a base which `callAPI`
has gone past leads to no agent or met a fault. `FailureHasCause` is about the step
at which the last base is given up, and follows from `Tried` of the others and
from what that step is (`FailureStep`).
What another page or a late call has made already is no failure, by the agent's
promise.

*Page.* `IInv` is `TypeOK`, `CallsAreSound`, `SentIsDue`, `NoneIsCurrent`,
`NewestIsCurrent` and `ReadinessIsCurrent`. `MisplacedHasCause` is about a panel
that nothing will show again; for a step that makes it so, it has to be known
before that which list counts. It is the one asked for last: as long as nobody is
going to ask again, it was asked for the current target, or that was taken from
under it, or an older one has landed after it (`NewestIsCurrent`). `SentIsDue` has
it that a handler is among those that asked just while it awaits the answer.

*Sessions.* What one command comes to is shown without the state: `OutputRead` says
that `Parse` of the output has, in each format, a row of every session that was
printed and of no other (`Covers`, `RowOf`). `Output` folds over the sessions and
`Parse` over the lines, so it goes from session to session: `LinesOf` has where the
lines of one are, and `OneLineRead`, `DetailRead` and `BlocksRead` that these make one
row more of the rows before, the unfinished one included (`Found`). A row of a
session may still be unfinished when the next begins, and the next one's number is
what ends it; without numbers, in blocks, the blank line does, and there the lemma
needs, and keeps, that no row is begun between two. The invariant (`Sound`) follows
the sessions of one moment from a command to the answer: `pickBetterSessions` takes
one reading or the other and never parts of two, whatever their scores, and
`normalizeSessionRoles` and the filter keep what `RowOf` says (`NormalOf`,
`AnswerTells`).

Not proved, and why:

- Liveness (`EveryCallAnswered`, `FailedSetupCompletes`, `AgentComesBack`): out of
  the prover's reach, as is `ENABLED`. The runs check it.
- The properties that the code does not have (Findings).

## Findings

1. `chap_password`. A `PUT` with the userid in force and another password is
   answered "ok" ("chap unchanged") and stores nothing (`chap.go:99`). The page
   says "Refresh CHAP Auth succeeded" (`index.html:2127`) of a click on "Save
   CHAP". The retry of a `PUT` that failed after the userid was stored is answered
   in the same way.
2. `host_mapped`. A mapping to a LUN that has another backstore is answered
   "ok", "mapping already exists" (`mappings.go:118`), and is not made. In a
   quick setup that is "completed" with the backstore of another: `Taken` of
   `QuickSetup` says so.
3. `console_ready`. After the current target is deleted the page takes the next
   one and judges its readiness by the panels of the deleted (`index.html:1562`).
4. `console_deletes`. The lists of a deleted target stay on the page when the next
   is taken for the current one; a button in one of them deletes the same LUN,
   initiator or portal from that other target (`index.html:1644`).

More that no run of the table is spent on. The first four are stated as
properties, which TLC finds violated under the configuration given:

- `ListsOnlyTargets` of `TargetsService`, in `MCTargetsService.cfg` as it is. The
  comment at `targetcli.go:134` says that only top-level target lines are picked.
  Where no line has a `[TPGs: n]` marker every line with an IQN is, those of
  initiators too (`targetcli.go:153`). The creation of a target with such a name is
  answered "already exists", its deletion fails.
- `SavedUserIsStored` of `ChapService`, in `MCChapService_password.cfg` with
  `Users = {u1, u2}` and `ReadBack <- WithEquals`. `Set` compares the userid with
  what is read back of the stored one, the part after its last `=` (`chap.go:98`,
  `targetcli.go:600`): while "x=u1" is stored, a `PUT` of "u1" is answered "ok" and
  reports "u1", which is not in force.
- `ListingIsTrue` of `HostResources`, in `MCHostResources_mapped.cfg`. A portal
  with an IPv6 address can be made (`portal.go:8`), and targetcli prints it in
  brackets. The pattern of `ListPortals` (`targetcli.go:354`) reads
  "[fe80::1]:3260" as the address "fe80:" with port 1: the portal that is there is
  not listed, and one is that never was. A mapping whose line has no "/backstores/"
  in it is listed without its backstore (`targetcli.go:252`).
- `OkMeansThere` of `HostResources`, in `MCHostResources_mapped.cfg` with
  `Spelling = {peer}`. The error in which a service looks for "exists" contains the
  command line (`targetcli.go:747`): an ACL that could not be made, of a target
  that is not there, is answered "ok" where a name in it spells the word
  (`acls.go:103`).
- The listing of backstores skips some names that a backstore may have
  (`targetcli.go:689`): an untyped deletion of one says "not found". `ReadAs` may
  give such a one nothing; then `StoresReadBack` does not hold, and
  `NotFoundWasAbsent` is violated.
- `apiErrorMessage` (`index.html:1215`) tells the agent's errors apart, but
  `callAPI` (1182) gives it "all api candidates failed" whatever the agent said:
  every failure is shown as "API unreachable".
- `sessions.go:55` keeps rows whose target is not known "instead of
  hard-dropping". Where the list of targets cannot be read and the initiator is
  printed first, its name is taken for that of a target, and the row of a session
  of the target asked for is dropped: `NothingIsMissing` needs `Informed`.
- systemd sends a stop's SIGTERM to the runs of targetcli too
  (`KillMode=control-group`): the requests that the agent waits for 10 s for have
  lost their command, and are answered with its failure.

## Limits

- A run of targetcli changes the kernel at one instant. It is taken to say no
  when it did nothing, and why.
- What `Valid`, `ValidIQN` accept is a constant; the patterns are left out.
- A target is created and deleted beside other services by `Admin`,
  `DeleteTarget` and `CreateTarget`, not by the module of targets.
- `Console` has one page; a call is one step that may fail with or without an
  effect, and one that works is answered as `IdempotentSet` and `HostPromise` promise. The
  panels that do not depend on the current target (backstores, health, audit)
  are left out, and so are language and theme.
- `QuickSetup`: what the agent always refuses, or targetcli always rejects, is a
  constant (`Refused`), for instance an address that the portal which targetcli
  makes with every target excludes. What is rejected at one time and not at another
  is one of `Lose`.
- `Sessions` has no two sessions with one number, none without a number, an initiator
  or an address, and no output that none of its patterns match. A name that the service refuses is left out.
- `AgentLifecycle` has one service of the six: they share nothing in the
  process. It has no limit of systemd on restarts, no listening on TCP, and no
  process that targetcli itself leaves behind: `CombinedOutput` would wait for
  one beyond the deadline.
- Not modelled: health (it reads what no operation changes), the parsing of the
  two environment variables, masking of messages, language and theme, packaging.
  `PROJECT.json` says why of each.

## Plan

All components that keep or change state are modelled, and every safety property
that a passing run checks is proved. To follow:

- an output of targetcli that none of the parser's patterns match, and sessions
  without an address, in `Sessions`; what `NothingIsMissing` then still promises;
- `healthGood` in the page's note on readiness (`index.html:1376`, `1431`), which
  `Console` leaves out.
