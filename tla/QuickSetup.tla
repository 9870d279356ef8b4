----------------------------- MODULE QuickSetup -----------------------------
(***************************************************************************)
(* Quick setup: the page makes a target, a backstore, their mapping, a     *)
(* portal and perhaps an ACL, one call after the other, and stops at the   *)
(* first that fails.  callAPI tries each call at one base after another:   *)
(* at the address of the page, and at the web gateway, which is another    *)
(* origin.  The user submits a setup that failed again, and several pages  *)
(* may be at it at once.                                                   *)
(*                                                                         *)
(* What the agent does with a creation is what its services promise: it is *)
(* done at one instant, or was already, or is rejected, for what it needs  *)
(* is missing or for what it is itself.                                    *)
(***************************************************************************)
EXTENDS Naturals, FiniteSets, Sequences

CONSTANTS
  Setups,      \* pages on which a quick setup may be under way
  Form,        \* Form[s]: what is filled in on page s
  NoName,      \* an initiator that is not filled in, a name that is not there
  Refused,     \* the items that the agent's checks refuse, or targetcli always:
               \* a malformed name or address, a disk that is not there
  MaxFaults,   \* how often a call, the network or the agent fails
  MaxRemovals  \* how often somebody deletes something

ASSUME ConstantsOK ==
  /\ \A s \in Setups : DOMAIN Form[s] = {"target", "store", "portal", "initiator"}
  /\ \A s \in Setups : NoName \notin {Form[s].target, Form[s].store, Form[s].portal}
  /\ {MaxFaults, MaxRemovals} \subseteq Nat

VARIABLES
  leads,     \* the bases with the agent behind them: the gateway, and perhaps both
  up,        \* the agent runs
  host,      \* the items there are
  step,      \* step[s]: which call of its setup page s is at, 0 for none
  base,      \* base[s]: the base it tries
  call,      \* call[s]: what has become of this attempt
  told,      \* told[s]: what the page says of the setup
  late,      \* attempts that the page has given up and the agent has not
  spoilt,    \* history: spoilt[s]: the bases at which its call met a fault
  removed,   \* history: removed[s]: something was deleted since s began
  faults, removals  \* how many there have been

agent   == <<leads, up, host>>
page    == <<step, base, call, told>>
history == <<spoilt, removed>>
vars    == <<agent, page, late, history, faults, removals>>

-----------------------------------------------------------------------------
Item(kind, target, name) == [kind |-> kind, target |-> target, name |-> name]

Bases == 1..2
Gateway == 2  \* the second base, of another origin

\* What a setup makes, in this order.
StepsOf(f) ==
  <<Item("target", f.target, NoName), Item("store", NoName, f.store),
    Item("mapping", f.target, f.store), Item("portal", f.target, f.portal)>>
  \o (IF f.initiator = NoName THEN <<>>
      ELSE <<Item("acl", f.target, f.initiator)>>)

Steps(s) == StepsOf(Form[s])
ItemsOf(s) == {Steps(s)[n] : n \in DOMAIN Steps(s)}
Items == UNION {ItemsOf(s) : s \in Setups}

\* What i cannot be without.
Needs(i) ==
  (IF i.kind \in {"mapping", "portal", "acl"} THEN {Item("target", i.target, NoName)} ELSE {})
  \union (IF i.kind = "mapping" THEN {Item("store", NoName, i.name)} ELSE {})

\* i is there, or, for mappings, another is on LUN 0 of its target.
Taken(i, h) ==
  \/ i \in h
  \/ i.kind = "mapping" /\ (\E j \in h : j.kind = i.kind /\ j.target = i.target)

Init ==
  /\ leads \in {{Gateway}, Bases}
  /\ up = TRUE
  /\ host = {}
  /\ step = [s \in Setups |-> 0]
  /\ base = [s \in Setups |-> 1]
  /\ call = [s \in Setups |-> "none"]
  /\ told = [s \in Setups |-> "nothing"]
  /\ late = {}
  /\ spoilt = [s \in Setups |-> {}]
  /\ removed = [s \in Setups |-> FALSE]
  /\ faults = 0 /\ removals = 0

Fault == faults < MaxFaults /\ faults' = faults + 1

-----------------------------------------------------------------------------
\* A request with a JSON body to another origin is asked for before it is sent.
FirstOf(b) == IF b = Gateway THEN "preflight" ELSE "sent"

Try(s, n, b) ==
  /\ step' = [step EXCEPT ![s] = n]
  /\ base' = [base EXCEPT ![s] = b]
  /\ call' = [call EXCEPT ![s] = FirstOf(b)]

Submit(s) ==
  /\ step[s] = 0
  /\ Try(s, 1, 1)
  /\ told' = [told EXCEPT ![s] = "nothing"]
  /\ spoilt' = [spoilt EXCEPT ![s] = {}]
  /\ removed' = [removed EXCEPT ![s] = FALSE]
  /\ UNCHANGED <<agent, late, faults, removals>>

\* The handler returns with what it tells.
End(s, text) ==
  /\ step' = [step EXCEPT ![s] = 0]
  /\ base' = [base EXCEPT ![s] = 1]
  /\ call' = [call EXCEPT ![s] = "none"]
  /\ told' = [told EXCEPT ![s] = text]

\* The answer is ok: the next call, or "completed".
GoOn(s) ==
  IF step[s] < Len(Steps(s))
  THEN Try(s, step[s] + 1, 1) /\ UNCHANGED told
  ELSE End(s, "completed")

\* Wrong: the handler tells of a failure and goes on.
TellAndGoOn(s) ==
  IF base[s] + 1 \in Bases THEN Try(s, step[s], base[s] + 1) /\ UNCHANGED told ELSE GoOn(s)

\* The answer is not ok, or there is none: callAPI tries the next base, and
\* failStep ends the setup after the last.
FallBack(s) ==
  IF base[s] + 1 \in Bases
  THEN Try(s, step[s], base[s] + 1) /\ UNCHANGED told
  ELSE End(s, "failed")

Spoil(s) == spoilt' = [spoilt EXCEPT ![s] = @ \union {base[s]}]

-----------------------------------------------------------------------------
\* Wrong: the gateway passes OPTIONS on to the agent, which has no such method.
PreflightPassedOn(s) ==
  /\ call[s] = "preflight"
  /\ FallBack(s)
  /\ UNCHANGED <<agent, late, history, faults, removals>>

\* withCORS allows every origin, and answers OPTIONS without the agent.
Preflight(s) ==
  /\ call[s] = "preflight"
  /\ call' = [call EXCEPT ![s] = "sent"]
  /\ UNCHANGED <<agent, step, base, told, late, history, faults, removals>>

\* Behind the page's own address there may be no agent: 404.
NoAgent(s) ==
  /\ call[s] = "sent" /\ base[s] \notin leads
  /\ FallBack(s)
  /\ UNCHANGED <<agent, late, history, faults, removals>>

\* newUnixProxy: an agent that cannot be reached is a 502.
BadGateway(s) ==
  /\ call[s] = "sent" /\ base[s] \in leads /\ ~up
  /\ FallBack(s)
  /\ Spoil(s)
  /\ UNCHANGED <<agent, late, removed, faults, removals>>

\* Wrong: an item that is there already is an error.
Strict(i) == i \notin Refused /\ ~Taken(i, host) /\ Needs(i) \subseteq host

\* "created" and "already exists" are both ok; what is refused is not, nor what
\* misses something it needs.
AnsweredOk(i) == i \notin Refused /\ (Taken(i, host) \/ Needs(i) \subseteq host)

\* Wrong: what it needs may be missing.
CreateBlindly(i) == host' = IF Taken(i, host) THEN host ELSE host \union {i}

Create(i) ==
  host' = IF AnsweredOk(i) /\ ~Taken(i, host) THEN host \union {i} ELSE host

Serve(s) ==
  /\ call[s] = "sent" /\ base[s] \in leads /\ up
  /\ LET i == Steps(s)[step[s]]
     IN  /\ Create(i)
         /\ IF AnsweredOk(i)
            THEN GoOn(s) /\ spoilt' = [spoilt EXCEPT ![s] = {}]
            ELSE FallBack(s) /\ UNCHANGED spoilt
  /\ UNCHANGED <<leads, up, late, removed, faults, removals>>

\* The deadline of the request passes before or after the command has worked,
\* targetcli fails this time, or the connection breaks: before the agent has the
\* request, after it has answered, or while it is at it.
Lose(s) ==
  /\ call[s] \in {"preflight", "sent"}
  /\ Fault
  /\ FallBack(s)
  /\ Spoil(s)
  /\ \/ UNCHANGED <<host, late>>
     \/ /\ call[s] = "sent" /\ base[s] \in leads /\ up
        /\ LET i == Steps(s)[step[s]]
           IN  \/ Create(i) /\ UNCHANGED late
               \/ late' = late \union {i} /\ UNCHANGED host
  /\ UNCHANGED <<leads, up, removed, removals>>

\* The agent comes to an attempt that the page has given up, or drops it.
ServeLate(i) ==
  /\ i \in late /\ up
  /\ Create(i) \/ UNCHANGED host
  /\ late' = late \ {i}
  /\ UNCHANGED <<leads, up, page, history, faults, removals>>

-----------------------------------------------------------------------------
\* Somebody deletes i, and with it what cannot be without it.
Remove(i) ==
  /\ i \in host
  /\ removals < MaxRemovals /\ removals' = removals + 1
  /\ host' = {j \in host : j # i /\ i \notin Needs(j)}
  /\ removed' = [s \in Setups |-> TRUE]
  /\ UNCHANGED <<leads, up, page, late, spoilt, faults>>

\* The agent stops or crashes with the attempts it had; systemd brings it back.
AgentDown ==
  /\ up /\ Fault
  /\ up' = FALSE /\ late' = {}
  /\ UNCHANGED <<leads, host, page, history, removals>>

AgentUp ==
  /\ ~up
  /\ up' = TRUE
  /\ UNCHANGED <<leads, host, page, late, history, faults, removals>>

Answer(s) == Preflight(s) \/ NoAgent(s) \/ BadGateway(s) \/ Serve(s)
Next ==
  \/ \E s \in Setups : Submit(s) \/ Answer(s) \/ Lose(s)
  \/ \E i \in late : ServeLate(i)
  \/ \E i \in Items : Remove(i)
  \/ AgentDown \/ AgentUp

\* Every attempt comes to an end, the agent is brought back, and the user does
\* not give up a setup that has failed.
Fairness ==
  /\ WF_vars(AgentUp)
  /\ \A s \in Setups :
       /\ WF_vars(Answer(s))
       /\ WF_vars(told[s] = "failed" /\ Submit(s))

Spec == Init /\ [][Next]_vars /\ Fairness

-----------------------------------------------------------------------------
HostTyped ==
  /\ host \subseteq Items
  /\ \A i \in host : Needs(i) \subseteq host /\ ~Taken(i, host \ {i})

PagesTyped ==
  /\ step \in [Setups -> Nat] /\ base \in [Setups -> Bases]
  /\ call \in [Setups -> {"none", "preflight", "sent"}]
  /\ told \in [Setups -> {"nothing", "completed", "failed"}]
  /\ spoilt \in [Setups -> SUBSET Bases] /\ removed \in [Setups -> BOOLEAN]
  /\ \A s \in Setups : step[s] <= Len(Steps(s)) /\ (step[s] = 0 <=> call[s] = "none")

\* Every variable has its type; nothing is on the host without what it needs,
\* and LUN 0 of a target has one backstore.
TypeOK ==
  /\ leads \subseteq Bases /\ up \in BOOLEAN
  /\ HostTyped /\ PagesTyped
  /\ late \subseteq Items
  /\ faults \in 0..MaxFaults /\ removals \in 0..MaxRemovals

\* Whether the call for the n-th item has been passed.
Passed(s, n) == told[s] = "completed" \/ n < step[s]

\* "Quick setup completed" is true: everything it was to make is there, or LUN 0
\* has another backstore, unless somebody deleted something since it began;
\* whichever attempts were lost, done twice or late, or met by another setup.
\* What it has passed is there at every step, as the next call needs it.
PassedIsThere ==
  \A s \in Setups : \A n \in DOMAIN Steps(s) :
    Passed(s, n) => removed[s] \/ Taken(Steps(s)[n], host)

\* The call at which a setup fails is one that is refused for what it asks for,
\* or it met a fault at every base that leads to the agent (one fault, where only
\* the gateway does, or where the agent is down all the while), or something was
\* deleted since the setup began. Nothing else makes it fail: not the 404 of the
\* page's own address, nothing that an earlier try has left, no other setup of the
\* same target.
FailureHasCause ==
  [][\A s \in Setups :
       told[s] # "failed" /\ told'[s] = "failed" =>
         \/ Steps(s)[step[s]] \in Refused
         \/ leads \subseteq spoilt'[s]
         \/ removed[s]]_vars

\* The setups of which nothing is refused.
WellFormed == {s \in Setups : ItemsOf(s) \intersect Refused = {}}

\* A setup that failed, though nothing of it is refused, is completed when it is
\* submitted again often enough: nothing that a try leaves behind, of it or of
\* one that can never be completed, stands in the way of the next.
FailedSetupCompletes ==
  \A s \in WellFormed : told[s] = "failed" ~> told[s] = "completed"
=============================================================================
