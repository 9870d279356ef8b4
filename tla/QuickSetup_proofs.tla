------------------------- MODULE QuickSetup_proofs -------------------------
(***************************************************************************)
(* What a quick setup keeps true for any number of pages, whatever is      *)
(* filled in on them, and however often a call, the network or the agent   *)
(* fails and somebody deletes something.                                   *)
(*                                                                         *)
(* What a call needs was made by the calls before it and is there unless   *)
(* somebody deleted something (PassedIsThere).  So the agent rejects a     *)
(* call only for what it asks for, and a base that callAPI has gone past   *)
(* with another leads to no agent or met a fault (Tried); when the last is *)
(* passed, that is the cause of the failure (FailureHasCause).             *)
(***************************************************************************)
EXTENDS QuickSetup, SequenceTheorems, TLAPS

\* While a setup is under way nothing is told of it.
Silent == \A s \in Setups : step[s] # 0 => told[s] = "nothing"

\* The call of s asks for what is refused, or something was deleted.
Doomed(s) == removed[s] \/ Steps(s)[step[s]] \in Refused

\* The bases that a call has been tried at in vain.
Tried ==
  \A s \in Setups : \A b \in Bases :
    b < base[s] => Doomed(s) \/ b \notin leads \/ b \in spoilt[s]

PagesKept == PagesTyped /\ Silent /\ PassedIsThere /\ Tried

IInv == TypeOK /\ PagesKept

-----------------------------------------------------------------------------
USE DEF agent, page, history

LEMMA BoundsTyped == MaxFaults \in Nat /\ MaxRemovals \in Nat
BY ConstantsOK

\* The items that a setup makes, one by one.
LEMMA StepsListed ==
  ASSUME NEW s \in Setups
  PROVE  /\ Len(Steps(s)) \in {4, 5} /\ DOMAIN Steps(s) = 1..Len(Steps(s))
         /\ Steps(s)[1] = Item("target", Form[s].target, NoName)
         /\ Steps(s)[2] = Item("store", NoName, Form[s].store)
         /\ Steps(s)[3] = Item("mapping", Form[s].target, Form[s].store)
         /\ Steps(s)[4] = Item("portal", Form[s].target, Form[s].portal)
         /\ Len(Steps(s)) = 5 => Steps(s)[5] = Item("acl", Form[s].target, Form[s].initiator)
<1>1. PICK a, b, c, d, e : /\ a = Item("target", Form[s].target, NoName)
                          /\ b = Item("store", NoName, Form[s].store)
                          /\ c = Item("mapping", Form[s].target, Form[s].store)
                          /\ d = Item("portal", Form[s].target, Form[s].portal)
                          /\ e = Item("acl", Form[s].target, Form[s].initiator)
  OBVIOUS
<1>2. PICK p \in Seq({a, b, c, d, e}) : p = <<a, b, c, d>>
  <2>1. <<a, b, c, d>> \in Seq({a, b, c, d, e})
    OBVIOUS
  <2> QED
    BY <2>1
<1>3. PICK q : q = IF Form[s].initiator = NoName THEN <<>> ELSE <<e>>
  OBVIOUS
<1>4. Steps(s) = p \o q
  BY <1>1, <1>2, <1>3 DEF Steps, StepsOf
<1>5. q \in Seq({a, b, c, d, e}) /\ Len(q) \in {0, 1} /\ (Len(q) = 1 => q[1] = e)
  <2>1. CASE q = <<>>
    BY <2>1
  <2>2. CASE q = <<e>>
    BY <2>2
  <2> QED
    BY <1>3, <2>1, <2>2
<1>6. /\ p \o q \in Seq({a, b, c, d, e}) /\ Len(p) = 4
      /\ Len(p \o q) = Len(p) + Len(q)
      /\ \A i \in 1..Len(p) : (p \o q)[i] = p[i]
      /\ \A i \in 1..Len(q) : (p \o q)[Len(p) + i] = q[i]
  BY <1>2, <1>5, ConcatProperties
<1>7. p[1] = a /\ p[2] = b /\ p[3] = c /\ p[4] = d
  BY <1>2
<1>8. Len(p \o q) \in {4, 5} /\ DOMAIN (p \o q) = 1..Len(p \o q)
  BY <1>5, <1>6
<1>9. Len(p \o q) = 5 => (p \o q)[5] = e
  BY <1>5, <1>6
<1> QED
  BY <1>1, <1>4, <1>6, <1>7, <1>8, <1>9

\* What each kind of item needs.
LEMMA NeedsListed ==
  ASSUME NEW t, NEW n
  PROVE  /\ Needs(Item("target", t, n)) = {}
         /\ Needs(Item("store", t, n)) = {}
         /\ Needs(Item("mapping", t, n)) = {Item("target", t, NoName), Item("store", NoName, n)}
         /\ Needs(Item("portal", t, n)) = {Item("target", t, NoName)}
         /\ Needs(Item("acl", t, n)) = {Item("target", t, NoName)}
         /\ Item("target", t, n).kind = "target" /\ Item("store", t, n).kind = "store"
BY DEF Needs, Item

\* What a call needs is what calls before it make, a target or a backstore.
LEMMA NeedsComeFirst ==
  ASSUME NEW s \in Setups, NEW n \in DOMAIN Steps(s), NEW j \in Needs(Steps(s)[n])
  PROVE  \E m \in DOMAIN Steps(s) : m < n /\ j = Steps(s)[m] /\ j.kind # "mapping"
<1> DEFINE f == Form[s]
<1>1. n \in {1, 2, 3, 4, 5} /\ 1 \in DOMAIN Steps(s) /\ 2 \in DOMAIN Steps(s)
  BY StepsListed
<1>2. /\ Steps(s)[1] = Item("target", f.target, NoName)
      /\ Steps(s)[2] = Item("store", NoName, f.store)
      /\ Steps(s)[3] = Item("mapping", f.target, f.store)
      /\ Steps(s)[4] = Item("portal", f.target, f.portal)
      /\ n = 5 => Steps(s)[5] = Item("acl", f.target, f.initiator)
  BY StepsListed
<1>3. /\ Needs(Steps(s)[1]) = {} /\ Needs(Steps(s)[2]) = {}
      /\ Needs(Steps(s)[3]) = {Steps(s)[1], Steps(s)[2]}
      /\ Needs(Steps(s)[4]) = {Steps(s)[1]}
      /\ n = 5 => Needs(Steps(s)[5]) = {Steps(s)[1]}
  BY <1>2, NeedsListed
<1>4. Steps(s)[1].kind # "mapping" /\ Steps(s)[2].kind # "mapping"
  BY <1>2, NeedsListed
<1>5. n \in {3, 4, 5} /\ (j = Steps(s)[1] \/ j = Steps(s)[2])
  BY <1>1, <1>3
<1> QED
  BY <1>1, <1>4, <1>5

\* What is needed needs nothing itself, and is taken only by being there.
LEMMA NeededItems ==
  /\ \A i, j : j \in Needs(i) => Needs(j) = {} /\ j.kind # "mapping"
  /\ \A i, h : i.kind # "mapping" => (Taken(i, h) <=> i \in h)
  /\ \A i, g, h : g \subseteq h /\ Taken(i, g) => Taken(i, h)
<1>1. \A i, j : j \in Needs(i) => Needs(j) = {} /\ j.kind # "mapping"
  BY DEF Needs, Item
<1>2. \A i, h : i.kind # "mapping" => (Taken(i, h) <=> i \in h)
  BY DEF Taken
<1>3. \A i, g, h : g \subseteq h /\ Taken(i, g) => Taken(i, h)
  BY DEF Taken
<1> QED
  BY <1>1, <1>2, <1>3

LEMMA StepsAreItems ==
  ASSUME NEW s \in Setups, NEW n \in DOMAIN Steps(s)
  PROVE  Steps(s)[n] \in Items
BY DEF Items, ItemsOf

\* A creation makes an item if that can be, and disturbs no other.
LEMMA CreateKeeps ==
  ASSUME HostTyped, NEW i \in Items, Create(i)
  PROVE  /\ HostTyped' /\ host \subseteq host'
         /\ AnsweredOk(i) => Taken(i, host')
<1>1. CASE AnsweredOk(i) /\ ~Taken(i, host)
  <2>1. host' = host \union {i} /\ Needs(i) \subseteq host
    BY <1>1 DEF Create, AnsweredOk
  <2>2. \A j \in host' : Needs(j) \subseteq host'
    BY <1>1, <2>1 DEF HostTyped
  <2>3. ASSUME NEW j \in host'
        PROVE  ~Taken(j, host' \ {j})
    <3>1. CASE j = i
      <4>1. host' \ {j} \subseteq host
        BY <2>1, <3>1
      <4> QED
        BY <1>1, <3>1, <4>1, NeededItems
    <3>2. CASE j # i
      <4>1. j \in host /\ ~Taken(j, host \ {j}) /\ host' \ {j} = (host \ {j}) \union {i}
        BY <2>1, <3>2 DEF HostTyped
      <4>2. ~(j.kind = "mapping" /\ i.kind = j.kind /\ i.target = j.target)
        BY <1>1, <4>1 DEF Taken
      <4> QED
        BY <3>2, <4>1, <4>2 DEF Taken
    <3> QED
      BY <3>1, <3>2
  <2>4. Taken(i, host')
    BY <2>1 DEF Taken
  <2> QED
    BY <2>1, <2>2, <2>3, <2>4 DEF HostTyped
<1>2. CASE ~(AnsweredOk(i) /\ ~Taken(i, host))
  BY <1>2 DEF Create, HostTyped
<1> QED
  BY <1>1, <1>2

\* A deletion takes along what cannot be without it.
LEMMA RemoveKeeps ==
  ASSUME HostTyped, NEW i \in Items, Remove(i)
  PROVE  HostTyped'
<1>1. host' = {j \in host : j # i /\ i \notin Needs(j)}
  BY DEF Remove
<1>2. ASSUME NEW j \in host'
      PROVE  Needs(j) \subseteq host' /\ ~Taken(j, host' \ {j})
  <2>1. j \in host /\ Needs(j) \subseteq host /\ ~Taken(j, host \ {j})
    BY <1>1 DEF HostTyped
  <2>2. Needs(j) \subseteq host'
    BY <1>1, <2>1, NeededItems
  <2>3. host' \ {j} \subseteq host \ {j}
    BY <1>1
  <2> QED
    BY <2>1, <2>2, <2>3, NeededItems
<1> QED
  BY <1>1, <1>2 DEF HostTyped

-----------------------------------------------------------------------------
\* A setup that is under way is at one of its calls.
LEMMA AtACall ==
  ASSUME PagesTyped, NEW s \in Setups, step[s] # 0
  PROVE  step[s] \in DOMAIN Steps(s) /\ 1 \in DOMAIN Steps(s) /\ Steps(s)[step[s]] \in Items
<1>1. step[s] \in Nat /\ step[s] <= Len(Steps(s))
  BY DEF PagesTyped
<1>2. step[s] \in DOMAIN Steps(s) /\ 1 \in DOMAIN Steps(s)
  BY <1>1, StepsListed
<1> QED
  BY <1>2, StepsAreItems

\* What the agent does for others leaves what a page has passed.
LEMMA PagesStay ==
  ASSUME PagesKept, UNCHANGED <<page, history, leads>>, host \subseteq host'
  PROVE  PagesKept'
<1>1. PagesTyped' /\ Silent' /\ Tried'
  BY DEF PagesKept, PagesTyped, Silent, Tried, Doomed
<1>2. PassedIsThere'
  BY NeededItems DEF PagesKept, PassedIsThere, Passed
<1> QED
  BY <1>1, <1>2 DEF PagesKept

\* An attempt is given up with a cause, for the next base or for good.
LEMMA FallBackKeeps ==
  ASSUME PagesKept, leads \subseteq Bases, NEW s \in Setups, step[s] # 0, FallBack(s),
         spoilt' = spoilt \/ Spoil(s),
         base[s] \in leads => Doomed(s) \/ base[s] \in spoilt'[s],
         UNCHANGED <<removed, leads>>, host \subseteq host'
  PROVE  PagesKept'
<1> USE DEF PagesKept
<1>1. /\ base[s] \in {1, 2} /\ step[s] \in Nat /\ told[s] = "nothing"
      /\ spoilt' \in [Setups -> SUBSET Bases]
      /\ \A t \in Setups : spoilt[t] \subseteq spoilt'[t] /\ (t # s => spoilt'[t] = spoilt[t])
  <2>1. base[s] \in {1, 2} /\ step[s] \in Nat /\ told[s] = "nothing"
    BY DEF PagesTyped, Silent, Bases
  <2>2. spoilt \in [Setups -> SUBSET Bases] /\ base[s] \in Bases
    BY DEF PagesTyped
  <2>3. CASE spoilt' = spoilt
    BY <2>1, <2>2, <2>3
  <2>4. CASE Spoil(s)
    BY <2>1, <2>2, <2>4 DEF Spoil
  <2> QED
    BY <2>3, <2>4
<1>2. CASE base[s] = 1
  <2>1. /\ step' = [step EXCEPT ![s] = step[s]] /\ base' = [base EXCEPT ![s] = 2]
        /\ call' = [call EXCEPT ![s] = FirstOf(2)] /\ told' = told
    BY <1>2 DEF FallBack, Try, Bases
  <2>2. step' = step
    BY <2>1 DEF PagesTyped
  <2>3. PagesTyped'
    BY <1>1, <2>1, <2>2 DEF PagesTyped, FirstOf, Bases
  <2>4. Silent'
    BY <2>1, <2>2 DEF Silent
  <2>5. PassedIsThere'
    BY <2>1, <2>2, NeededItems DEF PassedIsThere, Passed
  <2>6. Tried'
    <3> SUFFICES ASSUME NEW t \in Setups, NEW b \in Bases, b < base'[t]
                 PROVE  Doomed(t) \/ b \notin leads \/ b \in spoilt'[t]
      BY <2>2 DEF Tried, Doomed
    <3>1. CASE t = s
      BY <1>2, <2>1, <3>1 DEF PagesTyped, Bases
    <3>2. CASE t # s
      BY <1>1, <2>1, <3>2 DEF PagesTyped, Tried
    <3> QED
      BY <3>1, <3>2
  <2> QED
    BY <2>3, <2>4, <2>5, <2>6
<1>3. CASE base[s] = 2
  <2>1. /\ step' = [step EXCEPT ![s] = 0] /\ base' = [base EXCEPT ![s] = 1]
        /\ call' = [call EXCEPT ![s] = "none"] /\ told' = [told EXCEPT ![s] = "failed"]
    BY <1>3 DEF FallBack, End, Bases
  <2>2. PagesTyped'
    BY <1>1, <2>1, StepsListed DEF PagesTyped, Bases
  <2>3. Silent'
    BY <2>1 DEF Silent, PagesTyped
  <2>4. PassedIsThere'
    <3> SUFFICES ASSUME NEW t \in Setups, NEW n \in DOMAIN Steps(t), Passed(t, n)'
                 PROVE  removed[t] \/ Taken(Steps(t)[n], host')
      BY DEF PassedIsThere
    <3>1. t # s /\ Passed(t, n)
      BY <2>1, StepsListed DEF Passed, PagesTyped
    <3> QED
      BY <3>1, NeededItems DEF PassedIsThere
  <2>5. Tried'
    <3> SUFFICES ASSUME NEW t \in Setups, NEW b \in Bases, b < base'[t]
                 PROVE  Doomed(t)' \/ b \notin leads \/ b \in spoilt'[t]
      BY DEF Tried
    <3>1. t # s /\ base'[t] = base[t] /\ step'[t] = step[t]
      BY <2>1 DEF PagesTyped, Bases
    <3> QED
      BY <1>1, <3>1 DEF Tried, Doomed
  <2> QED
    BY <2>2, <2>3, <2>4, <2>5
<1> QED
  BY <1>1, <1>2, <1>3

\* A call is passed: what it was for is there.
LEMMA GoOnKeeps ==
  ASSUME PagesKept, NEW s \in Setups, step[s] # 0, GoOn(s),
         spoilt' = [spoilt EXCEPT ![s] = {}],
         Taken(Steps(s)[step[s]], host'),
         UNCHANGED <<removed, leads>>, host \subseteq host'
  PROVE  PagesKept'
<1> USE DEF PagesKept
<1>1. /\ step[s] \in Nat /\ step[s] <= Len(Steps(s)) /\ told[s] = "nothing"
      /\ Len(Steps(s)) \in Nat /\ DOMAIN Steps(s) = 1..Len(Steps(s))
      /\ spoilt' \in [Setups -> SUBSET Bases]
      /\ \A t \in Setups : t # s => spoilt'[t] = spoilt[t]
  BY StepsListed DEF PagesTyped, Silent
<1>2. \A n \in DOMAIN Steps(s) : n <= step[s] => removed[s] \/ Taken(Steps(s)[n], host')
  <2> SUFFICES ASSUME NEW n \in DOMAIN Steps(s), n <= step[s], ~removed[s]
               PROVE  Taken(Steps(s)[n], host')
    OBVIOUS
  <2>1. CASE n < step[s]
    BY <2>1, NeededItems DEF PassedIsThere, Passed
  <2>2. CASE n = step[s]
    BY <2>2
  <2> QED
    BY <1>1, <2>1, <2>2
<1>3. CASE step[s] < Len(Steps(s))
  <2>1. /\ step' = [step EXCEPT ![s] = step[s] + 1] /\ base' = [base EXCEPT ![s] = 1]
        /\ call' = [call EXCEPT ![s] = FirstOf(1)] /\ told' = told
    BY <1>3 DEF GoOn, Try
  <2>2. PagesTyped'
    BY <1>1, <1>3, <2>1 DEF PagesTyped, FirstOf, Bases
  <2>3. Silent'
    BY <1>1, <2>1 DEF Silent, PagesTyped
  <2>4. PassedIsThere'
    <3> SUFFICES ASSUME NEW t \in Setups, NEW n \in DOMAIN Steps(t), Passed(t, n)'
                 PROVE  removed[t] \/ Taken(Steps(t)[n], host')
      BY DEF PassedIsThere
    <3>1. CASE t = s
      BY <1>1, <1>2, <2>1, <3>1 DEF Passed, PagesTyped
    <3>2. CASE t # s
      BY <2>1, <3>2, NeededItems DEF PassedIsThere, Passed, PagesTyped
    <3> QED
      BY <3>1, <3>2
  <2>5. Tried'
    BY <1>1, <2>1 DEF Tried, Doomed, PagesTyped, Bases
  <2> QED
    BY <2>2, <2>3, <2>4, <2>5
<1>4. CASE ~(step[s] < Len(Steps(s)))
  <2>1. /\ step' = [step EXCEPT ![s] = 0] /\ base' = [base EXCEPT ![s] = 1]
        /\ call' = [call EXCEPT ![s] = "none"] /\ told' = [told EXCEPT ![s] = "completed"]
    BY <1>4 DEF GoOn, End
  <2>2. PagesTyped'
    BY <1>1, <2>1 DEF PagesTyped, Bases
  <2>3. Silent'
    BY <2>1 DEF Silent, PagesTyped
  <2>4. PassedIsThere'
    <3> SUFFICES ASSUME NEW t \in Setups, NEW n \in DOMAIN Steps(t), Passed(t, n)'
                 PROVE  removed[t] \/ Taken(Steps(t)[n], host')
      BY DEF PassedIsThere
    <3>1. CASE t = s
      BY <1>1, <1>2, <1>4, <3>1
    <3>2. CASE t # s
      BY <2>1, <3>2, NeededItems DEF PassedIsThere, Passed, PagesTyped
    <3> QED
      BY <3>1, <3>2
  <2>5. Tried'
    BY <1>1, <2>1 DEF Tried, Doomed, PagesTyped, Bases
  <2> QED
    BY <2>2, <2>3, <2>4, <2>5
<1> QED
  BY <1>3, <1>4

\* The agent rejects a call only for what it asks for, or after a deletion.
LEMMA RejectedWithCause ==
  ASSUME PagesKept, NEW s \in Setups, step[s] # 0, ~AnsweredOk(Steps(s)[step[s]])
  PROVE  Doomed(s)
<1> SUFFICES ASSUME Steps(s)[step[s]] \notin Refused
             PROVE  removed[s]
  BY DEF Doomed
<1>1. step[s] \in DOMAIN Steps(s)
  BY AtACall DEF PagesKept
<1>2. PICK j \in Needs(Steps(s)[step[s]]) : j \notin host
  BY DEF AnsweredOk
<1>3. PICK m \in DOMAIN Steps(s) : m < step[s] /\ j = Steps(s)[m] /\ j.kind # "mapping"
  BY <1>1, NeedsComeFirst
<1>4. ~Taken(j, host)
  BY <1>2, <1>3, NeededItems
<1> QED
  BY <1>3, <1>4 DEF PagesKept, PassedIsThere, Passed

\* Submit begins with nothing passed, tried or told.
LEMMA SubmitKeeps ==
  ASSUME PagesKept, NEW s \in Setups, Submit(s)
  PROVE  PagesKept'
<1> USE DEF PagesKept
<1>1. /\ step' = [step EXCEPT ![s] = 1] /\ base' = [base EXCEPT ![s] = 1]
      /\ call' = [call EXCEPT ![s] = FirstOf(1)] /\ told' = [told EXCEPT ![s] = "nothing"]
      /\ spoilt' = [spoilt EXCEPT ![s] = {}] /\ removed' = [removed EXCEPT ![s] = FALSE]
      /\ UNCHANGED <<host, leads>>
  BY DEF Submit, Try
<1>2. PagesTyped'
  <2>1. \A t \in Setups : Len(Steps(t)) \in Nat /\ Len(Steps(t)) >= 1
    BY StepsListed
  <2>2. /\ step' \in [Setups -> Nat] /\ base' \in [Setups -> Bases]
        /\ call' \in [Setups -> {"none", "preflight", "sent"}]
        /\ told' \in [Setups -> {"nothing", "completed", "failed"}]
        /\ spoilt' \in [Setups -> SUBSET Bases] /\ removed' \in [Setups -> BOOLEAN]
    BY <1>1 DEF PagesTyped, FirstOf, Bases
  <2> QED
    BY <1>1, <2>1, <2>2 DEF PagesTyped, FirstOf
<1>3. Silent'
  BY <1>1 DEF Silent, PagesTyped
<1>4. PassedIsThere'
  <2> SUFFICES ASSUME NEW t \in Setups, NEW n \in DOMAIN Steps(t), Passed(t, n)'
               PROVE  removed'[t] \/ Taken(Steps(t)[n], host')
    BY DEF PassedIsThere
  <2>1. t # s /\ Passed(t, n)
    BY <1>1, StepsListed DEF Passed, PagesTyped
  <2> QED
    BY <1>1, <2>1 DEF PassedIsThere, PagesTyped
<1>5. Tried'
  BY <1>1 DEF Tried, Doomed, PagesTyped, Bases
<1> QED
  BY <1>2, <1>3, <1>4, <1>5

\* A deletion is a cause for every setup that is under way or over.
LEMMA RemoveCauses ==
  ASSUME PagesKept, removed' = [s \in Setups |-> TRUE], UNCHANGED <<page, spoilt, leads>>
  PROVE  PagesKept'
BY DEF PagesKept, PagesTyped, Silent, PassedIsThere, Passed, Tried, Doomed

\* What becomes of an attempt.
LEMMA AttemptKeeps ==
  ASSUME IInv, NEW s \in Setups, Answer(s) \/ Lose(s)
  PROVE  IInv'
<1> USE DEF IInv, TypeOK
<1>1. step[s] # 0 /\ base[s] \in Bases
  BY DEF PagesKept, PagesTyped, Answer, Preflight, NoAgent, BadGateway, Serve, Lose
<1>2. PICK i \in Items : i = Steps(s)[step[s]]
  BY <1>1, AtACall
<1>3. CASE Preflight(s)
  <2>1. /\ call[s] = "preflight" /\ call' = [call EXCEPT ![s] = "sent"]
        /\ UNCHANGED <<agent, step, base, told, late, history, faults, removals>>
    BY <1>3 DEF Preflight
  <2>2. PagesTyped'
    BY <2>1 DEF PagesTyped
  <2>3. PagesKept'
    BY <2>1, <2>2 DEF PagesKept, Silent, PassedIsThere, Passed, Tried, Doomed
  <2> QED
    BY <2>1, <2>2, <2>3 DEF HostTyped
<1>4. CASE NoAgent(s)
  <2>1. /\ base[s] \notin leads /\ FallBack(s)
        /\ UNCHANGED <<agent, late, history, faults, removals>>
    BY <1>4 DEF NoAgent
  <2>2. PagesKept'
    BY <1>1, <2>1, FallBackKeeps
  <2> QED
    BY <2>1, <2>2 DEF HostTyped, PagesKept
<1>5. CASE BadGateway(s)
  <2>1. FallBack(s) /\ Spoil(s) /\ UNCHANGED <<agent, late, removed, faults, removals>>
    BY <1>5 DEF BadGateway
  <2>2. base[s] \in spoilt'[s]
    BY <2>1 DEF Spoil, PagesTyped
  <2>3. PagesKept'
    BY <1>1, <2>1, <2>2, FallBackKeeps
  <2> QED
    BY <2>1, <2>3 DEF HostTyped, PagesKept
<1>6. CASE Serve(s)
  <2>1. Create(i) /\ UNCHANGED <<leads, up, late, removed, faults, removals>>
    BY <1>2, <1>6 DEF Serve
  <2>2. HostTyped' /\ host \subseteq host' /\ (AnsweredOk(i) => Taken(i, host'))
    BY <2>1, CreateKeeps
  <2>3. CASE AnsweredOk(i)
    <3>1. GoOn(s) /\ spoilt' = [spoilt EXCEPT ![s] = {}]
      BY <1>2, <1>6, <2>3 DEF Serve
    <3>2. PagesKept'
      BY <1>1, <1>2, <2>1, <2>2, <2>3, <3>1, GoOnKeeps
    <3> QED
      BY <2>1, <2>2, <3>2 DEF PagesKept
  <2>4. CASE ~AnsweredOk(i)
    <3>1. FallBack(s) /\ UNCHANGED spoilt
      BY <1>2, <1>6, <2>4 DEF Serve
    <3>2. Doomed(s)
      BY <1>1, <1>2, <2>4, RejectedWithCause
    <3>3. PagesKept'
      BY <1>1, <2>1, <2>2, <3>1, <3>2, FallBackKeeps
    <3> QED
      BY <2>1, <2>2, <3>3 DEF PagesKept
  <2> QED
    BY <2>3, <2>4
<1>7. CASE Lose(s)
  <2>1. /\ FallBack(s) /\ Spoil(s) /\ faults < MaxFaults /\ faults' = faults + 1
        /\ UNCHANGED <<leads, up, removed, removals>>
    BY <1>7 DEF Lose, Fault
  <2>2. HostTyped' /\ host \subseteq host' /\ late' \subseteq Items
    <3>1. CASE UNCHANGED <<host, late>>
      BY <3>1 DEF HostTyped
    <3>2. CASE Create(i) /\ UNCHANGED late
      BY <3>2, CreateKeeps
    <3>3. CASE late' = late \union {i} /\ UNCHANGED host
      BY <3>3 DEF HostTyped
    <3> QED
      BY <1>2, <1>7, <3>1, <3>2, <3>3 DEF Lose
  <2>3. base[s] \in spoilt'[s]
    BY <2>1 DEF Spoil, PagesTyped
  <2>4. PagesKept'
    BY <1>1, <2>1, <2>2, <2>3, FallBackKeeps
  <2>5. faults' \in 0..MaxFaults
    BY <2>1, BoundsTyped
  <2> QED
    BY <2>1, <2>2, <2>4, <2>5 DEF PagesKept
<1> QED
  BY <1>3, <1>4, <1>5, <1>6, <1>7 DEF Answer

\* What the agent, its host and other users do meanwhile.
LEMMA OthersKeep ==
  ASSUME IInv,
         \/ \E i \in late : ServeLate(i)
         \/ \E i \in Items : Remove(i)
         \/ AgentDown \/ AgentUp
  PROVE  IInv'
<1> USE DEF IInv, TypeOK
<1>1. ASSUME NEW i \in late, ServeLate(i)
      PROVE  IInv'
  <2>1. i \in Items /\ late' = late \ {i}
        /\ UNCHANGED <<leads, up, page, history, faults, removals>>
    BY <1>1 DEF ServeLate
  <2>2. HostTyped' /\ host \subseteq host'
    <3>1. CASE Create(i)
      BY <2>1, <3>1, CreateKeeps
    <3>2. CASE UNCHANGED host
      BY <3>2 DEF HostTyped
    <3> QED
      BY <1>1, <3>1, <3>2 DEF ServeLate
  <2>3. PagesKept'
    BY <2>1, <2>2, PagesStay
  <2> QED
    BY <2>1, <2>2, <2>3 DEF PagesKept
<1>2. ASSUME NEW i \in Items, Remove(i)
      PROVE  IInv'
  <2>1. /\ removals < MaxRemovals /\ removals' = removals + 1
        /\ removed' = [s \in Setups |-> TRUE]
        /\ UNCHANGED <<leads, up, page, late, spoilt, faults>>
    BY <1>2 DEF Remove
  <2>2. HostTyped'
    BY <1>2, RemoveKeeps
  <2>3. PagesKept'
    BY <2>1, RemoveCauses
  <2>4. removals' \in 0..MaxRemovals
    BY <2>1, BoundsTyped
  <2> QED
    BY <2>1, <2>2, <2>3, <2>4 DEF PagesKept
<1>3. CASE AgentDown
  <2>1. /\ up' = FALSE /\ late' = {} /\ faults < MaxFaults /\ faults' = faults + 1
        /\ UNCHANGED <<leads, host, page, history, removals>>
    BY <1>3 DEF AgentDown, Fault
  <2>2. PagesKept'
    BY <2>1, PagesStay
  <2>3. faults' \in 0..MaxFaults
    BY <2>1, BoundsTyped
  <2> QED
    BY <2>1, <2>2, <2>3 DEF PagesKept, HostTyped
<1>4. CASE AgentUp
  <2>1. up' = TRUE /\ UNCHANGED <<leads, host, page, late, history, faults, removals>>
    BY <1>4 DEF AgentUp
  <2>2. PagesKept'
    BY <2>1, PagesStay
  <2> QED
    BY <2>1, <2>2 DEF PagesKept, HostTyped
<1> QED
  BY <1>1, <1>2, <1>3, <1>4

LEMMA InitHolds == Init => IInv
<1> SUFFICES ASSUME Init PROVE IInv
  OBVIOUS
<1>1. PagesTyped
  BY StepsListed DEF Init, PagesTyped, Bases
<1>2. TypeOK
  <2>1. 0 \in 0..MaxFaults /\ 0 \in 0..MaxRemovals
    BY ConstantsOK
  <2> QED
    BY <1>1, <2>1 DEF Init, TypeOK, HostTyped, Bases, Gateway
<1>3. Silent /\ PassedIsThere /\ Tried
  BY StepsListed DEF Init, Silent, PassedIsThere, Passed, Tried, Bases
<1> QED
  BY <1>1, <1>2, <1>3 DEF IInv, PagesKept

-----------------------------------------------------------------------------
\* The invariant is kept, whatever the pages, the network, the agent and other
\* users do.
THEOREM Invariance == Spec => []IInv
<1>1. ASSUME IInv, [Next]_vars
      PROVE  IInv'
  <2>1. ASSUME NEW s \in Setups, Submit(s)
        PROVE  IInv'
    <3>1. PagesKept' /\ UNCHANGED <<agent, late, faults, removals>>
      BY <1>1, <2>1, SubmitKeeps DEF IInv, Submit
    <3> QED
      BY <1>1, <3>1 DEF IInv, TypeOK, HostTyped, PagesKept
  <2>2. CASE UNCHANGED vars
    <3>1. PagesKept'
      BY <1>1, <2>2, PagesStay DEF IInv, vars
    <3> QED
      BY <1>1, <2>2, <3>1 DEF vars, IInv, TypeOK, HostTyped, PagesKept
  <2> QED
    BY <1>1, <2>1, <2>2, AttemptKeeps, OthersKeep DEF Next
<1> QED
  BY <1>1, InitHolds, PTL DEF Spec

\* Every variable has its type; nothing is on the host without what it needs.
THEOREM TypeCorrect == Spec => []TypeOK
<1>1. IInv => TypeOK
  BY DEF IInv
<1> QED
  BY <1>1, Invariance, PTL

\* What a setup has passed is there, and all of it once it tells "completed",
\* unless somebody deleted something since it began (bindForms, quick-setup-form).
THEOREM WhatPassedIsThere == Spec => []PassedIsThere
<1>1. IInv => PassedIsThere
  BY DEF IInv, PagesKept
<1> QED
  BY <1>1, Invariance, PTL

\* A setup fails as its last base is given up, after the others.
LEMMA FailureStep ==
  ASSUME IInv, [Next]_vars, NEW s \in Setups, told[s] # "failed", told'[s] = "failed"
  PROVE  \/ Steps(s)[step[s]] \in Refused
         \/ leads \subseteq spoilt'[s]
         \/ removed[s]
<1> USE DEF IInv, TypeOK
<1>1. PICK t \in Setups : Answer(t) \/ Lose(t)
  <2>1. \A t \in Setups : ~Submit(t)
    BY DEF Submit, PagesKept, PagesTyped
  <2> QED
    BY <2>1 DEF Next, vars, ServeLate, Remove, AgentDown, AgentUp
<1>2. step[t] # 0 /\ base[t] \in Bases /\ told \in [Setups -> {"nothing", "completed", "failed"}]
  BY <1>1 DEF PagesKept, PagesTyped, Answer, Preflight, NoAgent, BadGateway, Serve, Lose
<1>3. FallBack(t) /\ base[t] = 2 /\ t = s
  <2>1. ~GoOn(t)
    BY <1>2 DEF GoOn, Try, End
  <2>2. FallBack(t)
    BY <1>1, <2>1 DEF Answer, Preflight, NoAgent, BadGateway, Serve, Lose
  <2> QED
    BY <1>2, <2>2 DEF FallBack, Try, End, Bases
<1>4. base[t] \in leads => Doomed(t) \/ base[t] \in spoilt'[t]
  <2>1. CASE Spoil(t)
    BY <1>2, <2>1 DEF Spoil, PagesKept, PagesTyped
  <2>2. CASE Serve(t)
    <3>1. ~GoOn(t)
      BY <1>2 DEF GoOn, Try, End
    <3>2. ~AnsweredOk(Steps(t)[step[t]])
      BY <2>2, <3>1 DEF Serve
    <3> QED
      BY <1>2, <3>2, RejectedWithCause
  <2>3. CASE NoAgent(t)
    BY <2>3 DEF NoAgent
  <2> QED
    BY <1>1, <2>1, <2>2, <2>3 DEF Answer, Preflight, BadGateway, Lose
<1>5. spoilt[t] \subseteq spoilt'[t]
  <2>1. spoilt' = spoilt \/ Spoil(t)
    <3>1. ~GoOn(t)
      BY <1>2 DEF GoOn, Try, End
    <3> QED
      BY <1>1, <3>1 DEF Answer, Preflight, NoAgent, BadGateway, Serve, Lose
  <2> QED
    BY <2>1 DEF Spoil, PagesKept, PagesTyped
<1>6. 1 \in leads => Doomed(t) \/ 1 \in spoilt'[t]
  BY <1>3, <1>5 DEF PagesKept, Tried, Bases
<1> QED
  BY <1>3, <1>4, <1>6 DEF Doomed, Bases

\* A call at which a setup fails is one that is refused for what it asks for, or it
\* met a fault at every base that leads to the agent, or something was deleted
\* (callAPI tries the bases in turn, and creations may be repeated): whatever is
\* filled in, and however many pages, faults and deletions there are.
THEOREM EveryFailureHasCause == Spec => FailureHasCause
<1>1. IInv /\ [Next]_vars =>
        [\A s \in Setups :
           told[s] # "failed" /\ told'[s] = "failed" =>
             \/ Steps(s)[step[s]] \in Refused
             \/ leads \subseteq spoilt'[s]
             \/ removed[s]]_vars
  BY FailureStep
<1> QED
  BY <1>1, Invariance, PTL DEF Spec, FailureHasCause
=============================================================================
