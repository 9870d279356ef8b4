------------------------------ MODULE Console ------------------------------
(***************************************************************************)
(* The page: its current target, the panels of that target, and the        *)
(* handlers that ask the agent and show what it answers.                   *)
(*                                                                         *)
(* A handler runs to its next await without interruption.  It then waits   *)
(* for the calls it has made, one or several at once, while other handlers *)
(* run; their answers land in whichever order they come.  What is the      *)
(* current target is read when a call is made, and may be another when its *)
(* answer lands.                                                           *)
(***************************************************************************)
EXTENDS Naturals, FiniteSets, SequencesExt

CONSTANTS
  Targets,   \* the targets there may be
  NoTarget,  \* none is current
  Panels,    \* of the panels that show something of the current target
  Items,     \* what a panel may list
  NoItem,
  Handlers,  \* handlers that may be running at the same time
  Clicks,    \* what the user of the model does
  OthersAct  \* whether others change what targets there are

ASSUME ConstantsOK ==
  /\ NoTarget \notin Targets
  /\ NoItem \notin Items
  /\ Panels \subseteq {"mapping", "acl", "portal", "chap"}
  /\ OthersAct \in BOOLEAN

VARIABLES
  existing,  \* the targets there are
  content,   \* content[p][t]: what panel p should show of target t
  targets,   \* stateTargets: the list of targets as it is shown
  current,   \* stateCurrentTarget, and the value of its selection
  panel,     \* panel[p]: the target that its list was asked for, and the list
  ready,     \* the note says "ready for initiator login"
  running,   \* running[h]: the calls handler h awaits, and what it does then
  sent,      \* sent[p]: the handlers whose list of p is due, oldest first
  late,      \* late[p][h]: what has happened to p since h asked for its list
  cause      \* cause[p]: what may have put p out of place since it was shown

host    == <<existing, content>>
page    == <<targets, current, panel, ready>>
history == <<sent, late, cause>>
vars    == <<host, page, running, history>>

-----------------------------------------------------------------------------
Things == Panels \union {"target"}
Call(op, thing, target, item) ==
  [op |-> op, thing |-> thing, target |-> target, item |-> item,
   status |-> "due", got |-> {}]
Calls ==
  [op : {"list", "create", "delete"}, thing : Things,
   target : Targets \union {NoTarget}, item : Items \union {NoItem},
   status : {"due", "ok", "failed"}, got : SUBSET (Items \union Targets)]

Idle == [calls |-> {}, then |-> <<>>]
Ready(h) == running[h].calls = {} /\ running[h].then # <<>>

\* What was awaited has come: its handler goes on before the next event.
Quiet == \A h \in Handlers : ~Ready(h)

Empty == [of |-> NoTarget, items |-> {}]

\* Wrong: readiness does not ask whether a target is current.
ReadinessOfPanels(cur, list, shown) == \A p \in Panels : shown[p].items # {}

Readiness(cur, list, shown) ==
  /\ cur \in list
  /\ \A p \in Panels : shown[p].items # {}

-----------------------------------------------------------------------------
Init ==
  /\ existing \in SUBSET Targets
  /\ content \in [Panels -> [Targets -> SUBSET Items]]
  /\ \A p \in Panels, t \in Targets \ existing : content[p][t] = {}
  /\ targets = {}
  /\ current = NoTarget
  /\ panel = [p \in Panels |-> Empty]
  /\ ready = FALSE
  /\ running = [h \in Handlers |-> Idle]
  /\ sent = [p \in Panels |-> <<>>]
  /\ late = [p \in Panels |-> [h \in Handlers |-> {}]]
  /\ cause = [p \in Panels |-> {}]

\* Handler h starts with the calls it is given and goes on with stages.
Start(h, calls, stages) ==
  /\ running[h] = Idle
  /\ running' = [running EXCEPT ![h] = [calls |-> calls, then |-> stages]]

\* Everything the user starts waits until no handler has something to do.
Click(h, name) == Quiet /\ name \in Clicks /\ running[h] = Idle

\* The panels, one after the other; nothing is asked for those left out of Panels.
OneByOne ==
  LET only(p) == {p} \intersect Panels
  IN  <<only("mapping"), only("acl"), only("portal"), only("chap")>>

ChooseTarget(h, t) ==
  /\ Click(h, "choose")
  /\ t \in targets
  /\ current' = t
  /\ Start(h, {}, OneByOne)
  /\ UNCHANGED <<host, targets, panel, ready, history>>

\* Wrong: a new current target is shown with the panels of the old one.
SetCurrentBare(h, t) ==
  /\ Click(h, "set current")
  /\ t \in targets
  /\ current' = t
  /\ UNCHANGED <<host, targets, panel, ready, running, history>>

SetCurrent(h, t) ==
  /\ Click(h, "set current")
  /\ t \in targets
  /\ current' = t
  /\ Start(h, {}, <<Panels>>)
  /\ UNCHANGED <<host, targets, panel, ready, history>>

RefreshAll(h) ==
  /\ Click(h, "refresh all")
  /\ Start(h, {}, <<{"target"}, Panels>>)
  /\ UNCHANGED <<host, page, history>>

RefreshPanel(h, p) ==
  /\ Click(h, "refresh")
  /\ Start(h, {}, <<{p}>>)
  /\ UNCHANGED <<host, page, history>>

CreateTarget(h, t) ==
  /\ Click(h, "create target")
  /\ Start(h, {Call("create", "target", t, NoItem)}, <<{"target"}>>)
  /\ UNCHANGED <<host, page, history>>

DeleteTarget(h, t) ==
  /\ Click(h, "delete target")
  /\ t \in targets
  /\ Start(h, {Call("delete", "target", t, NoItem)}, <<{"target"}>>)
  /\ UNCHANGED <<host, page, history>>

CreateItem(h, p, i) ==
  /\ Click(h, "create")
  /\ current # NoTarget
  /\ Start(h, {Call("create", p, current, i)}, <<{p}>>)
  /\ UNCHANGED <<host, page, history>>

\* The button of an item knows the item, and reads the target when clicked.
DeleteItem(h, p, i) ==
  /\ Click(h, "delete")
  /\ p # "chap"
  /\ i \in panel[p].items
  /\ Start(h, {Call("delete", p, current, i)}, <<{p}>>)
  /\ UNCHANGED <<host, page, history>>

-----------------------------------------------------------------------------
\* The lists of the panels in S go out for target t, and none without a target.
Asked(S, t) ==
  {Call("list", x, IF x = "target" THEN NoTarget ELSE t, NoItem) :
     x \in {y \in S : y = "target" \/ t # NoTarget}}

\* Handler h starts what comes next. Without a current target a panel is
\* emptied and nothing is asked.
NextStage(h) ==
  /\ Ready(h)
  /\ LET S     == Head(running[h].then)
         asked == Asked(S, current)
         clear == {p \in Panels \intersect S : current = NoTarget}
     IN  /\ running' = [running EXCEPT ![h] = [calls |-> asked, then |-> Tail(@.then)]]
         /\ panel' = [p \in Panels |-> IF p \in clear THEN Empty ELSE panel[p]]
         /\ ready' = IF clear = {} THEN ready ELSE Readiness(current, targets, panel')
         /\ cause' = [p \in Panels |-> IF p \in clear THEN {} ELSE cause[p]]
         /\ sent' = [p \in Panels |-> IF p \in S \ clear THEN Append(sent[p], h) ELSE sent[p]]
  /\ UNCHANGED <<host, targets, current, late>>

\* Whether the agent can do what k asks for.
Possible(k) == k.thing = "target" \/ k.target \in existing

Effect(k) ==
  CASE k.op = "list" -> UNCHANGED host
    [] k.op = "create" /\ k.thing = "target" ->
         /\ existing' = existing \union {k.target}
         /\ UNCHANGED content
    [] k.op = "delete" /\ k.thing = "target" ->
         /\ existing' = existing \ {k.target}
         /\ content' = [p \in Panels |-> [content[p] EXCEPT ![k.target] = {}]]
    [] k.op = "create" /\ k.thing \in Panels ->
         /\ content' = [content EXCEPT ![k.thing][k.target] = @ \union {k.item}]
         /\ UNCHANGED existing
    [] k.op = "delete" /\ k.thing \in Panels ->
         /\ content' = [content EXCEPT ![k.thing][k.target] = @ \ {k.item}]
         /\ UNCHANGED existing

Got(k) ==
  CASE k.op # "list"                        -> {}
    [] k.op = "list" /\ k.thing = "target"  -> existing
    [] OTHER                                -> content[k.thing][k.target]

Answered(h, k, status, got) ==
  running' = [running EXCEPT ![h].calls =
                (@ \ {k}) \union {[k EXCEPT !.status = status, !.got = got]}]

\* The agent answers, or fails, or its answer is lost.
Serve(h, k) ==
  /\ k \in running[h].calls
  /\ k.status = "due"
  /\ \/ Possible(k) /\ Effect(k) /\ Answered(h, k, "ok", Got(k))
     \/ Possible(k) /\ Effect(k) /\ Answered(h, k, "failed", {})
     \/ UNCHANGED host /\ Answered(h, k, "failed", {})
  /\ UNCHANGED <<page, history>>

-----------------------------------------------------------------------------
\* Wrong: the current target stays although it is gone.
CurrentKept(list) ==
  IF current = NoTarget /\ list # {} THEN list ELSE {current}

\* The current target is kept where it can be, else the list's first is taken.
CurrentOf(list) ==
  IF list = {} THEN {NoTarget} ELSE IF current \in list THEN {current} ELSE list

Landed(h, k) == running' = [running EXCEPT ![h].calls = @ \ {k}]

\* refreshTargets shows what came; its refreshSelects may change the current
\* target.
LandTargets(h, k) ==
  /\ Quiet /\ k \in running[h].calls /\ k.status # "due"
  /\ k.op = "list" /\ k.thing = "target"
  /\ targets' = k.got
  /\ current' \in CurrentOf(k.got)
  /\ ready' = Readiness(current', targets', panel)
  /\ IF current' = current
     THEN UNCHANGED <<cause, late>>
     ELSE /\ cause' = [p \in Panels |-> cause[p] \union {"moved"}]
          /\ late' = [p \in Panels |-> [g \in Handlers |->
                        IF g \in ToSet(sent[p]) THEN late[p][g] \union {"moved"} ELSE {}]]
  /\ Landed(h, k)
  /\ UNCHANGED <<host, panel, sent>>

\* A list that fails is shown as empty.
Shown(k) == [of |-> k.target, items |-> k.got]

Position(h, p) == CHOOSE n \in DOMAIN sent[p] : sent[p][n] = h

\* refreshMappings and its like show what came, whatever the target is by now.
LandPanel(h, k) ==
  /\ Quiet /\ k \in running[h].calls /\ k.status # "due"
  /\ k.op = "list" /\ k.thing \in Panels
  /\ LET p == k.thing
         n == Position(h, p)
         passed == {sent[p][m] : m \in 1..(n - 1)}
     IN  /\ panel' = [panel EXCEPT ![p] = Shown(k)]
         /\ sent' = [sent EXCEPT ![p] = RemoveAt(@, n)]
         /\ late' = [late EXCEPT ![p] = [g \in Handlers |->
                       CASE g = h                   -> {}
                         [] g # h /\ g \in passed  -> @[g] \union {"overtaken"}
                         [] OTHER                   -> @[g]]]
         /\ cause' = [cause EXCEPT ![p] = late[p][h]]
  /\ ready' = Readiness(current, targets, panel')
  /\ Landed(h, k)
  /\ UNCHANGED <<host, targets, current>>

\* The answer to a change is only told.
LandChange(h, k) ==
  /\ Quiet /\ k \in running[h].calls /\ k.status # "due"
  /\ k.op # "list"
  /\ Landed(h, k)
  /\ UNCHANGED <<host, page, history>>

\* Others create or delete a target.
Outside(t) ==
  /\ OthersAct
  /\ existing' = IF t \in existing THEN existing \ {t} ELSE existing \union {t}
  /\ content' = [p \in Panels |-> [content[p] EXCEPT ![t] = {}]]
  /\ UNCHANGED <<page, running, history>>

User(h) ==
  \/ \E t \in Targets : \/ ChooseTarget(h, t) \/ SetCurrent(h, t)
                        \/ CreateTarget(h, t) \/ DeleteTarget(h, t)
  \/ RefreshAll(h)
  \/ \E p \in Panels : RefreshPanel(h, p)
  \/ \E p \in Panels, i \in Items : CreateItem(h, p, i) \/ DeleteItem(h, p, i)

Land(h) ==
  \E k \in running[h].calls : LandTargets(h, k) \/ LandPanel(h, k) \/ LandChange(h, k)

Next ==
  \/ \E h \in Handlers : User(h) \/ NextStage(h) \/ Land(h)
  \/ \E h \in Handlers : \E k \in running[h].calls : Serve(h, k)
  \/ \E t \in Targets : Outside(t)

\* Every call ends, for the agent's requests have deadlines and a connection
\* that breaks ends its call, and the browser runs what is due in turn.
Fairness ==
  \A h \in Handlers :
    /\ WF_vars(NextStage(h))
    /\ WF_vars(\E k \in running[h].calls : Serve(h, k))
    /\ SF_vars(Land(h))

Spec == Init /\ [][Next]_vars /\ Fairness

-----------------------------------------------------------------------------
\* Every variable has its type; the current target is one that the list shows;
\* a handler has one list of a panel due at most.
TypeOK ==
  /\ existing \subseteq Targets
  /\ content \in [Panels -> [Targets -> SUBSET Items]]
  /\ targets \subseteq Targets
  /\ current \in targets \union {NoTarget}
  /\ panel \in [Panels -> [of : Targets \union {NoTarget}, items : SUBSET Items]]
  /\ ready \in BOOLEAN
  /\ running \in [Handlers -> [calls : SUBSET Calls, then : Seq(SUBSET Things)]]
  /\ sent \in [Panels -> Seq(Handlers)]
  /\ \A p \in Panels : \A m, n \in DOMAIN sent[p] : sent[p][m] = sent[p][n] => m = n
  /\ late \in [Panels -> [Handlers -> SUBSET {"overtaken", "moved"}]]
  /\ cause \in [Panels -> SUBSET {"overtaken", "moved"}]

AllIdle == \A h \in Handlers : running[h] = Idle

\* Nothing that is under way will show panel p again.
Settled(p) ==
  \A h \in Handlers :
    /\ \A k \in running[h].calls : ~(k.op = "list" /\ k.thing = p)
    /\ \A n \in DOMAIN running[h].then : p \notin running[h].then[n]

\* A panel that is not waiting to be shown again is that of the current target,
\* whichever handlers run at once and whichever calls fail, unless an older list
\* of it landed after a newer one, or a new list of targets took the current
\* target from under it.
MisplacedHasCause ==
  \A p \in Panels : Settled(p) => panel[p].of = current \/ cause[p] # {}

\* What the note on readiness says is never out of date with the panels and the
\* list of targets that the page shows, in no order of answers.
ReadinessIsCurrent ==
  ready <=> current \in targets /\ \A p \in Panels : panel[p].items # {}

\* What the page says: "ready for initiator login" under "Login prerequisites
\* for current target". With nobody else about and no handler running, a target
\* said to be ready has what it needs.
ReadyIsTrue ==
  AllIdle /\ ready =>
    current \in existing /\ \A p \in Panels : content[p][current] # {}

\* What the page says: "Mappings for current target", with a button for each.
\* With no handler running, a click on it is not about what another target has.
\* (One without a current target is refused by the agent, router.go:616, and
\* does no harm.)
DeletesWhatIsShown ==
  [][AllIdle =>
       \A h \in Handlers : \A k \in running'[h].calls :
         /\ k.op = "delete" /\ k.thing \in Panels
         /\ k.target # NoTarget /\ k.item \in content[k.thing][k.target]
         => k.target = panel[k.thing].of]_vars
=============================================================================
