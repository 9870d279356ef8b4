--------------------------- MODULE Console_proofs ---------------------------
(***************************************************************************)
(* What the page keeps true of its current target and the panels, for any  *)
(* number of handlers, targets and items.                                  *)
(*                                                                         *)
(* What counts for a panel is the list that was asked for last: as long as *)
(* nobody is going to ask again, it was asked for the current target, or   *)
(* the current target was taken from under it, or an older one has landed  *)
(* after it (NewestIsCurrent).  When it lands and nothing else is due, the *)
(* panel is in place or has a cause not to be (MisplacedHasCause).         *)
(***************************************************************************)
EXTENDS Console, SequenceTheorems, TLAPS

\* The lists of p that h awaits, and whether somebody is going to ask for p.
ListsOf(h, p) == {k \in running[h].calls : k.op = "list" /\ k.thing = p}
Wanted(p) ==
  \E h \in Handlers : \E n \in DOMAIN running[h].then : p \in running[h].then[n]

\* A call can have what it asks for, and has what it asked for.
Sound(k) ==
  /\ k.op = "create" /\ k.thing \in Panels => k.item \in Items
  /\ k.op # "list" /\ k.thing = "target" => k.target \in Targets
  /\ k.got \subseteq IF k.thing = "target" THEN Targets ELSE Items
CallsAreSound == \A h \in Handlers : \A k \in running[h].calls : Sound(k)

\* A handler is among the senders while it awaits its list, and awaits but one.
SentIsDue ==
  \A p \in Panels, h \in Handlers :
    /\ h \in ToSet(sent[p]) <=> ListsOf(h, p) # {}
    /\ \A j, k \in ListsOf(h, p) : j = k

\* No target is current only where there is none, and what was asked before that
\* is known to have been overcome.
NoneIsCurrent ==
  /\ current = NoTarget <=> targets = {}
  /\ current = NoTarget => \A p \in Panels : \A h \in ToSet(sent[p]) : late[p][h] # {}

NewestIsCurrent ==
  \A p \in Panels :
    \/ Wanted(p)
    \/ sent[p] = <<>> /\ (panel[p].of = current \/ cause[p] # {})
    \/ /\ sent[p] # <<>>
       /\ LET h == Last(sent[p])
          IN  late[p][h] # {} \/ \A k \in ListsOf(h, p) : k.target = current

IInv ==
  /\ TypeOK /\ CallsAreSound /\ SentIsDue /\ NoneIsCurrent /\ NewestIsCurrent
  /\ ReadinessIsCurrent

USE DEF host, page, history

-----------------------------------------------------------------------------
Distinct(q) == \A m, n \in DOMAIN q : q[m] = q[n] => m = n

\* One of a queue is taken out of it.
LEMMA OneLeaves ==
  ASSUME NEW q \in Seq(Handlers), Distinct(q), NEW n \in 1..Len(q)
  PROVE  /\ RemoveAt(q, n) \in Seq(Handlers) /\ Distinct(RemoveAt(q, n))
         /\ ToSet(RemoveAt(q, n)) = ToSet(q) \ {q[n]}
         /\ RemoveAt(q, n) # <<>> => Last(RemoveAt(q, n)) \in ToSet(q) \ {q[n]}
         /\ n < Len(q) => RemoveAt(q, n) # <<>> /\ Last(RemoveAt(q, n)) = Last(q)
<1>1. PICK l \in Nat : l = Len(q) /\ DOMAIN q = 1..l /\ n \in 1..l
  BY LenProperties
<1>2. PICK a : /\ a = SubSeq(q, 1, n - 1) /\ a \in Seq(Handlers) /\ Len(a) = n - 1
              /\ \A i \in 1..(n - 1) : a[i] = q[i]
  <2>1. \A i \in 1..(n - 1) : q[i] \in Handlers
    BY <1>1
  <2>2. /\ SubSeq(q, 1, n - 1) \in Seq(Handlers)
        /\ Len(SubSeq(q, 1, n - 1)) = IF 1 <= n - 1 THEN (n - 1) - 1 + 1 ELSE 0
        /\ \A i \in 1..((n - 1) - 1 + 1) : SubSeq(q, 1, n - 1)[i] = q[1 + i - 1]
    BY <1>1, <2>1, SubSeqProperties
  <2>3. ASSUME NEW i \in 1..(n - 1)
        PROVE  SubSeq(q, 1, n - 1)[i] = q[i]
    <3>1. i \in 1..((n - 1) - 1 + 1) /\ 1 + i - 1 = i
      BY <1>1
    <3> QED
      BY <2>2, <3>1, Zenon
  <2>4. Len(SubSeq(q, 1, n - 1)) = n - 1
    BY <1>1, <2>2
  <2> QED
    BY <2>2, <2>3, <2>4, Zenon
<1>3. PICK b : /\ b = SubSeq(q, n + 1, l) /\ b \in Seq(Handlers) /\ Len(b) = l - n
              /\ \A i \in 1..(l - n) : b[i] = q[n + i]
  <2>1. \A i \in (n + 1)..l : q[i] \in Handlers
    BY <1>1
  <2>2. /\ SubSeq(q, n + 1, l) \in Seq(Handlers)
        /\ Len(SubSeq(q, n + 1, l)) = IF n + 1 <= l THEN l - (n + 1) + 1 ELSE 0
        /\ \A i \in 1..(l - (n + 1) + 1) : SubSeq(q, n + 1, l)[i] = q[(n + 1) + i - 1]
    BY <1>1, <2>1, SubSeqProperties
  <2>3. ASSUME NEW i \in 1..(l - n)
        PROVE  SubSeq(q, n + 1, l)[i] = q[n + i]
    <3>1. i \in 1..(l - (n + 1) + 1) /\ (n + 1) + i - 1 = n + i
      BY <1>1
    <3> QED
      BY <2>2, <3>1, Zenon
  <2>4. Len(SubSeq(q, n + 1, l)) = l - n
    BY <1>1, <2>2
  <2> QED
    BY <2>2, <2>3, <2>4, Zenon
<1>4. PICK t : t = RemoveAt(q, n)
  OBVIOUS
<1>5. t = a \o b
  BY <1>1, <1>2, <1>3, <1>4 DEF RemoveAt
<1>6. /\ t \in Seq(Handlers) /\ Len(t) = l - 1 /\ DOMAIN t = 1..(l - 1)
      /\ \A i \in 1..(l - 1) : t[i] = IF i < n THEN q[i] ELSE q[i + 1]
  <2>1. /\ t \in Seq(Handlers) /\ Len(t) = (n - 1) + (l - n)
        /\ \A i \in 1..(n - 1) + (l - n) : t[i] = IF i <= n - 1 THEN a[i] ELSE b[i - (n - 1)]
    <3>1. /\ a \o b \in Seq(Handlers) /\ Len(a \o b) = Len(a) + Len(b)
          /\ \A i \in 1..Len(a) + Len(b) : (a \o b)[i] = IF i <= Len(a) THEN a[i] ELSE b[i - Len(a)]
      BY <1>2, <1>3, ConcatProperties
    <3> QED
      BY <1>2, <1>3, <1>5, <3>1, Zenon
  <2>2. Len(t) = l - 1 /\ DOMAIN t = 1..(l - 1)
    BY <1>1, <2>1, LenProperties
  <2>3. ASSUME NEW i \in 1..(l - 1)
        PROVE  t[i] = IF i < n THEN q[i] ELSE q[i + 1]
    <3>1. t[i] = IF i <= n - 1 THEN a[i] ELSE b[i - (n - 1)]
      BY <1>1, <2>1
    <3>2. CASE i < n
      BY <1>1, <1>2, <3>1, <3>2
    <3>3. CASE ~(i < n)
      <4>1. i - (n - 1) \in 1..(l - n) /\ n + (i - (n - 1)) = i + 1
        BY <1>1, <3>3
      <4> QED
        BY <1>1, <1>3, <3>1, <3>3, <4>1
    <3> QED
      BY <3>2, <3>3
  <2> QED
    BY <2>1, <2>2, <2>3
<1>7. Distinct(t)
  <2> SUFFICES ASSUME NEW i \in 1..(l - 1), NEW j \in 1..(l - 1), t[i] = t[j]
               PROVE  i = j
    BY <1>6 DEF Distinct
  <2>1. PICK x, y \in 1..l : /\ x = IF i < n THEN i ELSE i + 1
                             /\ y = IF j < n THEN j ELSE j + 1
    BY <1>1
  <2>2. q[x] = q[y]
    BY <1>6, <2>1
  <2>3. x = y
    BY <1>1, <2>2 DEF Distinct
  <2> QED
    BY <1>1, <2>1, <2>3
<1>8. ASSUME NEW x
      PROVE  x \in ToSet(t) <=> x \in ToSet(q) \ {q[n]}
  <2>1. ASSUME x \in ToSet(t)
        PROVE  x \in ToSet(q) \ {q[n]}
    <3>1. PICK i \in 1..(l - 1) : x = t[i]
      BY <1>6, <2>1 DEF ToSet
    <3>2. PICK j \in 1..l : j # n /\ x = q[j]
      BY <1>1, <1>6, <3>1
    <3> QED
      BY <1>1, <3>2 DEF ToSet, Distinct
  <2>2. ASSUME x \in ToSet(q) \ {q[n]}
        PROVE  x \in ToSet(t)
    <3>1. PICK j \in 1..l : j # n /\ x = q[j]
      BY <1>1, <2>2 DEF ToSet
    <3>2. CASE j < n
      <4>1. j \in 1..(l - 1) /\ t[j] = q[j]
        BY <1>1, <1>6, <3>2
      <4> QED
        BY <1>6, <3>1, <4>1 DEF ToSet
    <3>3. CASE j > n
      <4>1. j - 1 \in 1..(l - 1) /\ t[j - 1] = q[j]
        BY <1>1, <1>6, <3>1, <3>3
      <4> QED
        BY <1>6, <3>1, <4>1 DEF ToSet
    <3> QED
      BY <1>1, <3>1, <3>2, <3>3
  <2> QED
    BY <2>1, <2>2
<1>9. t # <<>> => Last(t) \in ToSet(t)
  BY <1>1, <1>6, EmptySeq DEF Last, ToSet
<1>10. n < l => t # <<>> /\ Last(t) = Last(q)
  BY <1>1, <1>6, EmptySeq DEF Last
<1> QED
  BY <1>1, <1>4, <1>6, <1>7, <1>8, <1>9, <1>10

\* One more joins a queue.
LEMMA OneJoins ==
  ASSUME NEW q \in Seq(Handlers), Distinct(q), NEW h \in Handlers, h \notin ToSet(q)
  PROVE  /\ Append(q, h) \in Seq(Handlers) /\ Distinct(Append(q, h))
         /\ ToSet(Append(q, h)) = ToSet(q) \union {h}
         /\ Append(q, h) # <<>> /\ Last(Append(q, h)) = h
<1>1. PICK l \in Nat : l = Len(q) /\ DOMAIN q = 1..l
  BY LenProperties
<1>2. PICK t \in Seq(Handlers) : /\ t = Append(q, h) /\ Len(t) = l + 1
                                /\ DOMAIN t = 1..(l + 1)
                                /\ \A i \in 1..l : t[i] = q[i]
                                /\ t[l + 1] = h
  <2>1. /\ Append(q, h) \in Seq(Handlers) /\ Len(Append(q, h)) = Len(q) + 1
        /\ \A i \in 1..Len(q) : Append(q, h)[i] = q[i]
        /\ Append(q, h)[Len(q) + 1] = h
    OBVIOUS
  <2>2. DOMAIN Append(q, h) = 1..Len(Append(q, h))
    BY <2>1, LenProperties
  <2> QED
    BY <1>1, <2>1, <2>2
<1>3. \A i \in 1..l : q[i] # h
  BY <1>1 DEF ToSet
<1>4. Distinct(t)
  BY <1>1, <1>2, <1>3 DEF Distinct
<1>5. ToSet(t) = ToSet(q) \union {h}
  BY <1>1, <1>2 DEF ToSet
<1>6. t # <<>> /\ Last(t) = h
  BY <1>1, <1>2, EmptySeq DEF Last
<1> QED
  BY <1>2, <1>4, <1>5, <1>6

-----------------------------------------------------------------------------
Typed == running \in [Handlers -> [calls : SUBSET Calls, then : Seq(SUBSET Things)]]

\* The lists of p that h awaits may have been answered, and are the same ones.
ListsStay(h, p) ==
  /\ ListsOf(h, p)' # {} <=> ListsOf(h, p) # {}
  /\ \A j, k \in ListsOf(h, p)' : j = k
  /\ \A k \in ListsOf(h, p)' : \E j \in ListsOf(h, p) : j.target = k.target

\* What awaits no list before and after a change of its calls keeps its lists.
LEMMA SameLists ==
  ASSUME SentIsDue, NEW h \in Handlers, NEW p \in Panels, ListsOf(h, p)' = ListsOf(h, p)
  PROVE  ListsStay(h, p)
BY DEF SentIsDue, ListsStay

\* A call is what its fields say.
LEMMA CallIsTyped ==
  ASSUME NEW op \in {"list", "create", "delete"}, NEW x \in Things,
         NEW t \in Targets \union {NoTarget}, NEW i \in Items \union {NoItem}
  PROVE  /\ Call(op, x, t, i) \in Calls
         /\ Call(op, x, t, i).op = op /\ Call(op, x, t, i).thing = x
         /\ Call(op, x, t, i).target = t /\ Call(op, x, t, i).item = i
         /\ Call(op, x, t, i).got = {}
BY DEF Call, Calls

\* The panels are not the list of targets.
LEMMA PanelsAreOthers == "target" \notin Panels /\ Panels \subseteq Things
BY ConstantsOK DEF Things

\* What changes with the calls of a handler, and what does not.
LEMMA CallsChange ==
  ASSUME Typed, NEW h \in Handlers, NEW C \in SUBSET Calls,
         running' = [running EXCEPT ![h].calls = C]
  PROVE  /\ Typed'
         /\ running'[h].calls = C
         /\ \A g \in Handlers : running'[g].then = running[g].then
         /\ \A g \in Handlers \ {h} : running'[g] = running[g]
         /\ \A p \in Panels : Wanted(p) <=> Wanted(p)'
<1>1. running' = [running EXCEPT ![h] = [running[h] EXCEPT !.calls = C]]
  BY DEF Typed
<1>2. /\ running'[h] = [running[h] EXCEPT !.calls = C]
      /\ \A g \in Handlers \ {h} : running'[g] = running[g]
  BY <1>1 DEF Typed
<1>3. running'[h].calls = C /\ running'[h].then = running[h].then
  BY <1>2 DEF Typed
<1>4. Typed'
  BY <1>1 DEF Typed
<1>5. \A g \in Handlers : running'[g].then = running[g].then
  BY <1>2, <1>3
<1>6. ASSUME NEW p \in Panels
      PROVE  Wanted(p) <=> Wanted(p)'
  BY <1>5, Zenon DEF Wanted
<1> QED
  BY <1>2, <1>3, <1>4, <1>5, <1>6

\* A handler that starts with changes and stages awaits no list yet.
LEMMA StartKeeps ==
  ASSUME Typed, CallsAreSound, NEW h \in Handlers,
         NEW C \in SUBSET Calls, \A k \in C : k.op # "list" /\ Sound(k),
         NEW s \in Seq(SUBSET Things), Start(h, C, s)
  PROVE  /\ Typed' /\ CallsAreSound'
         /\ \A g \in Handlers, p \in Panels : ListsOf(g, p)' = ListsOf(g, p)
         /\ \A p \in Panels : Wanted(p) => Wanted(p)'
         /\ \A p \in Panels, n \in DOMAIN s : p \in s[n] => Wanted(p)'
<1>1. /\ running'[h] = [calls |-> C, then |-> s]
      /\ \A g \in Handlers \ {h} : running'[g] = running[g]
      /\ Typed'
  BY DEF Start, Typed
<1>2. running[h].calls = {} /\ running[h].then = <<>>
  BY DEF Start, Idle
<1>3. running'[h].calls = C /\ running'[h].then = s
  BY <1>1
<1>4. CallsAreSound'
  <2> SUFFICES ASSUME NEW g \in Handlers, NEW k \in running'[g].calls
               PROVE  Sound(k)
    BY DEF CallsAreSound, Sound
  <2> QED
    BY <1>1, <1>3 DEF CallsAreSound
<1>5. ASSUME NEW g \in Handlers, NEW p \in Panels
      PROVE  ListsOf(g, p)' = ListsOf(g, p)
  <2>1. CASE g = h
    BY <1>2, <1>3, <2>1 DEF ListsOf
  <2>2. CASE g # h
    BY <1>1, <2>2 DEF ListsOf
  <2> QED
    BY <2>1, <2>2
<1>6. ASSUME NEW p \in Panels, Wanted(p)
      PROVE  Wanted(p)'
  <2>1. PICK g \in Handlers : \E n \in DOMAIN running[g].then : p \in running[g].then[n]
    BY <1>6 DEF Wanted
  <2>2. g # h
    BY <1>2, <2>1
  <2> QED
    BY <1>1, <2>1, <2>2 DEF Wanted
<1>7. ASSUME NEW p \in Panels, NEW n \in DOMAIN s, p \in s[n]
      PROVE  Wanted(p)'
  BY <1>3, <1>7 DEF Wanted
<1> QED
  BY <1>1, <1>4, <1>5, <1>6, <1>7

\* A step that shows nothing, asks for nothing and lands no list of a panel; with
\* a new current target every panel is going to be asked for.
LEMMA PanelsStay ==
  ASSUME IInv, Typed', CallsAreSound',
         existing' \subseteq Targets, content' \in [Panels -> [Targets -> SUBSET Items]],
         \A h \in Handlers, p \in Panels : ListsStay(h, p),
         \A p \in Panels : Wanted(p) => Wanted(p)',
         \/ current' = current
         \/ current' \in targets /\ \A p \in Panels : Wanted(p)',
         UNCHANGED <<targets, panel, ready, history>>
  PROVE  IInv'
<1>1. TypeOK'
  BY DEF IInv, TypeOK, Typed
<1>2. SentIsDue'
  <2> SUFFICES ASSUME NEW p \in Panels, NEW h \in Handlers
               PROVE  /\ h \in ToSet(sent'[p]) <=> ListsOf(h, p)' # {}
                      /\ \A j, k \in ListsOf(h, p)' : j = k
    BY DEF SentIsDue, ToSet
  <2>1. h \in ToSet(sent[p]) <=> ListsOf(h, p) # {}
    BY DEF IInv, SentIsDue
  <2>2. ListsStay(h, p)
    OBVIOUS
  <2>3. sent' = sent
    OBVIOUS
  <2> QED
    BY <2>1, <2>2, <2>3, Zenon DEF ListsStay
<1>3. NoneIsCurrent'
  <2>1. NoTarget \notin targets
    BY ConstantsOK DEF IInv, TypeOK
  <2>2. current' = NoTarget <=> targets = {}
    BY <2>1 DEF IInv, NoneIsCurrent
  <2>3. current' = NoTarget => current = NoTarget
    BY <2>1
  <2> QED
    BY <2>2, <2>3 DEF IInv, NoneIsCurrent, ToSet
<1>4. NewestIsCurrent'
  <2> SUFFICES ASSUME NEW p \in Panels, ~Wanted(p)'
               PROVE  \/ sent[p] = <<>> /\ (panel[p].of = current \/ cause[p] # {})
                      \/ /\ sent[p] # <<>>
                         /\ \/ late[p][Last(sent[p])] # {}
                            \/ \A k \in ListsOf(Last(sent[p]), p)' : k.target = current
    BY DEF NewestIsCurrent, Last
  <2>1. current' = current /\ ~Wanted(p)
    OBVIOUS
  <2>2. CASE sent[p] = <<>>
    BY <2>1, <2>2 DEF IInv, NewestIsCurrent
  <2>3. CASE sent[p] # <<>>
    <3>1. Last(sent[p]) \in Handlers
      BY <2>3, EmptySeq DEF IInv, TypeOK, Last
    <3>2. \/ late[p][Last(sent[p])] # {}
          \/ \A k \in ListsOf(Last(sent[p]), p) : k.target = current
      BY <2>1, <2>3 DEF IInv, NewestIsCurrent
    <3>3. ListsStay(Last(sent[p]), p)
      BY <3>1
    <3> QED
      BY <2>3, <3>2, <3>3 DEF ListsStay
  <2> QED
    BY <2>2, <2>3
<1>5. ReadinessIsCurrent'
  <2>1. CASE current' = current
    BY <2>1 DEF IInv, ReadinessIsCurrent
  <2>2. CASE current' \in targets
    <3>1. current \in targets
      BY <2>2 DEF IInv, NoneIsCurrent, TypeOK
    <3> QED
      BY <2>2, <3>1 DEF IInv, ReadinessIsCurrent
  <2> QED
    BY <2>1, <2>2
<1> QED
  BY <1>1, <1>2, <1>3, <1>4, <1>5 DEF IInv
-----------------------------------------------------------------------------
\* What a user starts: changes first, and then stages.
LEMMA UserKeeps ==
  ASSUME IInv, NEW h \in Handlers,
         NEW C \in SUBSET Calls, \A k \in C : k.op # "list" /\ Sound(k),
         NEW s \in Seq(SUBSET Things), Start(h, C, s),
         \/ current' = current
         \/ /\ current' \in targets
            /\ \A p \in Panels : \E n \in DOMAIN s : p \in s[n],
         UNCHANGED <<host, targets, panel, ready, history>>
  PROVE  IInv'
<1>1. Typed /\ CallsAreSound /\ SentIsDue /\ TypeOK
  BY DEF IInv, TypeOK, Typed
<1>2. /\ Typed' /\ CallsAreSound'
      /\ \A g \in Handlers, p \in Panels : ListsOf(g, p)' = ListsOf(g, p)
      /\ \A p \in Panels : Wanted(p) => Wanted(p)'
      /\ \A p \in Panels, n \in DOMAIN s : p \in s[n] => Wanted(p)'
  BY <1>1, StartKeeps
<1>3. \A g \in Handlers, p \in Panels : ListsStay(g, p)
  BY <1>1, <1>2, SameLists
<1>4. \/ current' = current
      \/ current' \in targets /\ \A p \in Panels : Wanted(p)'
  BY <1>2, Zenon
<1>5. /\ existing' \subseteq Targets
      /\ content' \in [Panels -> [Targets -> SUBSET Items]]
  BY <1>1 DEF TypeOK
<1> QED
  BY <1>2, <1>3, <1>4, <1>5, PanelsStay

LEMMA ChooseTargetKeeps ==
  ASSUME IInv, NEW h \in Handlers, NEW t \in Targets, ChooseTarget(h, t)
  PROVE  IInv'
<1>1. PICK a, b, c, d : /\ a = {"mapping"} \intersect Panels /\ b = {"acl"} \intersect Panels
                       /\ c = {"portal"} \intersect Panels /\ d = {"chap"} \intersect Panels
  OBVIOUS
<1>2. OneByOne = <<a, b, c, d>>
  BY <1>1 DEF OneByOne
<1>3. PICK s : s = <<a, b, c, d>>
  OBVIOUS
<1>4. s \in Seq(SUBSET Things)
  BY <1>1, <1>3, PanelsAreOthers
<1>5. \A p \in Panels : \E n \in DOMAIN s : p \in s[n]
  <2>1. DOMAIN s = 1..4 /\ s[1] = a /\ s[2] = b /\ s[3] = c /\ s[4] = d
    BY <1>3
  <2>2. ASSUME NEW p \in Panels
        PROVE  p \in a \/ p \in b \/ p \in c \/ p \in d
    BY <1>1, ConstantsOK
  <2> QED
    BY <2>1, <2>2
<1>6. Start(h, {}, s) /\ current' \in targets
  BY <1>2, <1>3 DEF ChooseTarget
<1> QED
  BY <1>4, <1>5, <1>6, UserKeeps DEF ChooseTarget

\* One stage is a sequence of it.
LEMMA OneStage ==
  ASSUME NEW S \in SUBSET Things
  PROVE  <<S>> \in Seq(SUBSET Things) /\ DOMAIN <<S>> = {1} /\ <<S>>[1] = S
OBVIOUS

LEMMA SetCurrentKeeps ==
  ASSUME IInv, NEW h \in Handlers, NEW t \in Targets, SetCurrent(h, t)
  PROVE  IInv'
<1>1. Panels \in SUBSET Things
  BY PanelsAreOthers
<1>2. \A p \in Panels : \E n \in DOMAIN <<Panels>> : p \in <<Panels>>[n]
  BY <1>1, OneStage
<1> QED
  BY <1>1, <1>2, OneStage, UserKeeps DEF SetCurrent

LEMMA RefreshKeeps ==
  ASSUME IInv, NEW h \in Handlers,
         RefreshAll(h) \/ \E p \in Panels : RefreshPanel(h, p)
  PROVE  IInv'
<1>1. PICK s \in Seq(SUBSET Things) : Start(h, {}, s) /\ UNCHANGED <<host, page, history>>
  <2>1. CASE RefreshAll(h)
    <3>1. <<{"target"}, Panels>> \in Seq(SUBSET Things)
      BY PanelsAreOthers DEF Things
    <3> QED
      BY <2>1, <3>1 DEF RefreshAll
  <2>2. ASSUME NEW p \in Panels, RefreshPanel(h, p)
        PROVE  \E q \in Seq(SUBSET Things) : Start(h, {}, q) /\ UNCHANGED <<host, page, history>>
    <3>1. <<{p}>> \in Seq(SUBSET Things)
      BY PanelsAreOthers, OneStage
    <3> QED
      BY <2>2, <3>1 DEF RefreshPanel
  <2> QED
    BY <2>1, <2>2
<1> QED
  BY <1>1, UserKeeps

LEMMA ChangeKeeps ==
  ASSUME IInv, NEW h \in Handlers, NEW x \in Things, NEW op \in {"create", "delete"},
         NEW t \in Targets \union {NoTarget}, NEW i \in Items \union {NoItem},
         x = "target" => t \in Targets,
         x # "target" => i \in Items,
         Start(h, {Call(op, x, t, i)}, <<{x}>>), UNCHANGED <<host, page, history>>
  PROVE  IInv'
<1>1. PICK k : k = Call(op, x, t, i)
  OBVIOUS
<1>2. k \in Calls /\ k.op = op /\ k.thing = x /\ k.target = t /\ k.item = i /\ k.got = {}
  BY <1>1, CallIsTyped
<1>3. Sound(k) /\ k.op # "list"
  BY <1>2, PanelsAreOthers DEF Sound
<1>4. <<{x}>> \in Seq(SUBSET Things)
  BY OneStage
<1>5. {k} \in SUBSET Calls /\ \A j \in {k} : j.op # "list" /\ Sound(j)
  BY <1>2, <1>3
<1>6. Start(h, {k}, <<{x}>>)
  BY <1>1
<1> QED
  BY <1>4, <1>5, <1>6, UserKeeps

LEMMA UserActionsKeep ==
  ASSUME IInv, NEW h \in Handlers, User(h)
  PROVE  IInv'
<1>1. TypeOK
  BY DEF IInv
<1>2. ASSUME NEW t \in Targets, CreateTarget(h, t) \/ DeleteTarget(h, t)
      PROVE  IInv'
  <2>1. PICK op \in {"create", "delete"} :
          Start(h, {Call(op, "target", t, NoItem)}, <<{"target"}>>)
    BY <1>2 DEF CreateTarget, DeleteTarget
  <2>2. UNCHANGED <<host, page, history>>
    BY <1>2 DEF CreateTarget, DeleteTarget
  <2>3. "target" \in Things
    BY DEF Things
  <2> QED
    BY <2>1, <2>2, <2>3, ChangeKeeps
<1>3. ASSUME NEW p \in Panels, NEW i \in Items, CreateItem(h, p, i) \/ DeleteItem(h, p, i)
      PROVE  IInv'
  <2>1. PICK op \in {"create", "delete"} : Start(h, {Call(op, p, current, i)}, <<{p}>>)
    BY <1>3 DEF CreateItem, DeleteItem
  <2>2. UNCHANGED <<host, page, history>>
    BY <1>3 DEF CreateItem, DeleteItem
  <2>3. p \in Things /\ p # "target" /\ current \in Targets \union {NoTarget}
    BY <1>1, PanelsAreOthers DEF TypeOK
  <2> QED
    BY <2>1, <2>2, <2>3, ChangeKeeps
<1> QED
  BY <1>2, <1>3, ChooseTargetKeeps, SetCurrentKeeps, RefreshKeeps DEF User
-----------------------------------------------------------------------------
\* What the agent does for a call is something a host can be in, and so is what
\* it answers.
LEMMA EffectIsTyped ==
  ASSUME TypeOK, NEW k \in Calls, Sound(k), Possible(k), Effect(k)
  PROVE  /\ existing' \subseteq Targets
         /\ content' \in [Panels -> [Targets -> SUBSET Items]]
         /\ Got(k) \subseteq IF k.thing = "target" THEN Targets ELSE Items
<1>1. /\ k.op \in {"list", "create", "delete"} /\ k.thing \in Things
      /\ k.thing # "target" => k.thing \in Panels
      /\ existing \subseteq Targets /\ content \in [Panels -> [Targets -> SUBSET Items]]
  <2>1. k.op \in {"list", "create", "delete"} /\ k.thing \in Things
    BY DEF Calls
  <2>2. existing \subseteq Targets /\ content \in [Panels -> [Targets -> SUBSET Items]]
    BY DEF TypeOK
  <2>3. k.thing # "target" => k.thing \in Panels
    BY <2>1, PanelsAreOthers DEF Things
  <2> QED
    BY <2>1, <2>2, <2>3
<1>2. k.thing # "target" => k.target \in Targets
  BY <1>1 DEF Possible
<1>3. CASE k.op = "list"
  <2>1. UNCHANGED <<existing, content>>
    BY <1>3 DEF Effect
  <2>2. CASE k.thing = "target"
    BY <1>1, <1>3, <2>1, <2>2 DEF Got
  <2>3. CASE k.thing # "target"
    BY <1>1, <1>2, <1>3, <2>1, <2>3 DEF Got
  <2> QED
    BY <2>2, <2>3
<1>4. CASE k.op # "list"
  <2>1. Got(k) = {}
    BY <1>4 DEF Got
  <2>2. CASE k.thing = "target" /\ k.op = "create"
    <3>1. existing' = existing \union {k.target} /\ content' = content
      BY <1>4, <2>2, PanelsAreOthers DEF Effect
    <3>2. k.target \in Targets
      BY <1>4, <2>2 DEF Sound
    <3> QED
      BY <1>1, <2>1, <3>1, <3>2
  <2>3. CASE k.thing = "target" /\ k.op = "delete"
    <3>1. /\ existing' = existing \ {k.target}
          /\ content' = [p \in Panels |-> [content[p] EXCEPT ![k.target] = {}]]
      BY <1>4, <2>3, PanelsAreOthers DEF Effect
    <3> QED
      BY <1>1, <2>1, <3>1
  <2>4. CASE k.thing # "target" /\ k.op = "create"
    <3>1. /\ content' = [content EXCEPT ![k.thing][k.target] = @ \union {k.item}]
          /\ existing' = existing /\ k.item \in Items
      BY <1>1, <1>4, <2>4 DEF Effect, Sound
    <3> QED
      BY <1>1, <1>2, <2>1, <2>4, <3>1
  <2>5. CASE k.thing # "target" /\ k.op = "delete"
    <3>1. /\ content' = [content EXCEPT ![k.thing][k.target] = @ \ {k.item}]
          /\ existing' = existing
      BY <1>1, <1>4, <2>5 DEF Effect
    <3> QED
      BY <1>1, <1>2, <2>1, <2>5, <3>1
  <2> QED
    BY <1>1, <1>4, <2>2, <2>3, <2>4, <2>5
<1> QED
  BY <1>3, <1>4

\* An answered call is the call it was.
LEMMA AnswerKeeps ==
  ASSUME IInv, NEW h \in Handlers, NEW k \in running[h].calls,
         NEW status \in {"ok", "failed"}, NEW got,
         got \subseteq IF k.thing = "target" THEN Targets ELSE Items,
         Answered(h, k, status, got),
         existing' \subseteq Targets, content' \in [Panels -> [Targets -> SUBSET Items]],
         UNCHANGED <<page, history>>
  PROVE  IInv'
<1>1. Typed /\ CallsAreSound /\ SentIsDue
  BY DEF IInv, TypeOK, Typed
<1>2. k \in Calls /\ running[h].calls \subseteq Calls /\ Sound(k)
  BY <1>1 DEF Typed, CallsAreSound
<1>3. PICK a : a = [k EXCEPT !.status = status, !.got = got]
  OBVIOUS
<1>4. /\ a \in Calls /\ a.op = k.op /\ a.thing = k.thing /\ a.target = k.target
      /\ a.item = k.item /\ a.got = got
  BY <1>2, <1>3 DEF Calls
<1>5. Sound(a)
  BY <1>2, <1>4 DEF Sound
<1>6. PICK C : C = (running[h].calls \ {k}) \union {a}
  OBVIOUS
<1>7. C \in SUBSET Calls
  BY <1>2, <1>4, <1>6
<1>8. running' = [running EXCEPT ![h].calls = C]
  BY <1>3, <1>6 DEF Answered
<1>9. /\ Typed'
      /\ running'[h].calls = C
      /\ \A g \in Handlers \ {h} : running'[g] = running[g]
      /\ \A p \in Panels : Wanted(p) <=> Wanted(p)'
  BY <1>1, <1>7, <1>8, CallsChange
<1>10. CallsAreSound'
  <2> SUFFICES ASSUME NEW g \in Handlers, NEW j \in running'[g].calls
               PROVE  Sound(j)
    BY DEF CallsAreSound, Sound
  <2> QED
    BY <1>1, <1>5, <1>6, <1>9 DEF CallsAreSound
<1>11. ASSUME NEW g \in Handlers, NEW p \in Panels
       PROVE  ListsStay(g, p)
  <2>1. CASE g # h
    <3>1. ListsOf(g, p)' = ListsOf(g, p)
      BY <1>9, <2>1 DEF ListsOf
    <3> QED
      BY <1>1, <3>1, SameLists
  <2>2. CASE g = h /\ ~(k.op = "list" /\ k.thing = p)
    <3>1. ListsOf(g, p)' = ListsOf(g, p)
      BY <1>4, <1>6, <1>9, <2>2 DEF ListsOf
    <3> QED
      BY <1>1, <3>1, SameLists
  <2>3. CASE g = h /\ k.op = "list" /\ k.thing = p
    <3>1. k \in ListsOf(g, p) /\ \A j \in ListsOf(g, p) : j = k
      BY <1>1, <2>3 DEF ListsOf, SentIsDue
    <3>2. ListsOf(g, p)' = {a}
      BY <1>4, <1>6, <1>9, <2>3, <3>1 DEF ListsOf
    <3> QED
      BY <1>4, <3>1, <3>2 DEF ListsStay
  <2> QED
    BY <2>1, <2>2, <2>3
<1> QED
  BY <1>9, <1>10, <1>11, PanelsStay

LEMMA ServeKeeps ==
  ASSUME IInv, NEW h \in Handlers, NEW k \in running[h].calls, Serve(h, k)
  PROVE  IInv'
<1>1. TypeOK /\ k \in Calls /\ Sound(k)
  BY DEF IInv, TypeOK, CallsAreSound
<1>2. {} \subseteq IF k.thing = "target" THEN Targets ELSE Items
  OBVIOUS
<1>3. CASE /\ Possible(k) /\ Effect(k)
           /\ Answered(h, k, "ok", Got(k)) \/ Answered(h, k, "failed", {})
  <2>1. /\ existing' \subseteq Targets
        /\ content' \in [Panels -> [Targets -> SUBSET Items]]
        /\ Got(k) \subseteq IF k.thing = "target" THEN Targets ELSE Items
    BY <1>1, <1>3, EffectIsTyped
  <2>2. CASE Answered(h, k, "ok", Got(k))
    <3>1. PICK got : got = Got(k)
      OBVIOUS
    <3>2. Answered(h, k, "ok", got) /\ got \subseteq IF k.thing = "target" THEN Targets ELSE Items
      BY <2>1, <2>2, <3>1
    <3> QED
      BY <2>1, <3>2, AnswerKeeps DEF Serve
  <2>3. CASE Answered(h, k, "failed", {})
    BY <1>2, <2>1, <2>3, AnswerKeeps DEF Serve
  <2> QED
    BY <1>3, <2>2, <2>3
<1>4. CASE UNCHANGED host /\ Answered(h, k, "failed", {})
  <2>1. /\ existing' \subseteq Targets
        /\ content' \in [Panels -> [Targets -> SUBSET Items]]
    BY <1>1, <1>4 DEF TypeOK
  <2> QED
    BY <1>2, <1>4, <2>1, AnswerKeeps DEF Serve
<1> QED
  BY <1>3, <1>4 DEF Serve
-----------------------------------------------------------------------------
\* What is asked for in a stage: one list for a panel of it, of the current
\* target, where there is one.
LEMMA AskedIsSound ==
  ASSUME TypeOK, NEW S \in SUBSET Things
  PROVE  /\ Asked(S, current) \in SUBSET Calls
         /\ \A k \in Asked(S, current) : Sound(k)
         /\ \A p \in Panels :
              {k \in Asked(S, current) : k.op = "list" /\ k.thing = p} =
                IF p \in S /\ current # NoTarget
                THEN {Call("list", p, current, NoItem)} ELSE {}
<1>1. current \in Targets \union {NoTarget}
  BY DEF TypeOK
<1>2. ASSUME NEW k \in Asked(S, current)
      PROVE  \E x \in S : /\ x = "target" \/ current # NoTarget
                          /\ \E t \in Targets \union {NoTarget} :
                               /\ k = Call("list", x, t, NoItem)
                               /\ x # "target" => t = current
  BY <1>1 DEF Asked
<1>3. ASSUME NEW k \in Asked(S, current)
      PROVE  /\ k \in Calls /\ k.op = "list" /\ k.thing \in S /\ k.got = {}
             /\ k.thing = "target" \/ current # NoTarget
             /\ k.thing # "target" => k = Call("list", k.thing, current, NoItem)
  <2>1. PICK x \in S, t \in Targets \union {NoTarget} :
          /\ x = "target" \/ current # NoTarget
          /\ k = Call("list", x, t, NoItem)
          /\ x # "target" => t = current
    BY <1>2
  <2>2. k \in Calls /\ k.op = "list" /\ k.thing = x /\ k.got = {}
    BY <2>1, CallIsTyped
  <2> QED
    BY <2>1, <2>2
<1>4. ASSUME NEW p \in Panels, p \in S, current # NoTarget
      PROVE  /\ Call("list", p, current, NoItem) \in Asked(S, current)
             /\ Call("list", p, current, NoItem).op = "list"
             /\ Call("list", p, current, NoItem).thing = p
  <2>1. p # "target" /\ p \in Things
    BY PanelsAreOthers
  <2>2. Call("list", p, current, NoItem) \in Asked(S, current)
    BY <1>4, <2>1 DEF Asked
  <2> QED
    BY <1>1, <2>1, <2>2, CallIsTyped
<1>5. \A k \in Asked(S, current) : Sound(k)
  BY <1>3 DEF Sound
<1>6. ASSUME NEW p \in Panels
      PROVE  {k \in Asked(S, current) : k.op = "list" /\ k.thing = p} =
                IF p \in S /\ current # NoTarget
                THEN {Call("list", p, current, NoItem)} ELSE {}
  <2>1. p # "target"
    BY PanelsAreOthers
  <2> QED
    BY <1>3, <1>4, <2>1
<1> QED
  BY <1>3, <1>5, <1>6

LEMMA NextStageKeeps ==
  ASSUME IInv, NEW h \in Handlers, NextStage(h)
  PROVE  IInv'
<1>1. TypeOK /\ Typed /\ CallsAreSound /\ SentIsDue /\ NoneIsCurrent /\ NewestIsCurrent
  BY DEF IInv, TypeOK, Typed
<1>2. PICK S, r : S = Head(running[h].then) /\ r = Tail(running[h].then)
  OBVIOUS
<1>3. /\ running[h].then \in Seq(SUBSET Things) /\ running[h].then # <<>>
      /\ running[h].calls = {}
  BY <1>1 DEF NextStage, Ready, Typed
<1>4. /\ S \in SUBSET Things /\ r \in Seq(SUBSET Things)
      /\ \A n \in DOMAIN running[h].then :
           running[h].then[n] = S \/ \E m \in DOMAIN r : r[m] = running[h].then[n]
  <2>1. PICK q \in Seq(SUBSET Things) : q = running[h].then /\ q # <<>>
    BY <1>3
  <2>2. /\ Head(q) \in SUBSET Things /\ Tail(q) \in Seq(SUBSET Things)
        /\ Len(Tail(q)) = Len(q) - 1 /\ Len(q) \in Nat /\ Head(q) = q[1]
        /\ \A i \in 1..Len(Tail(q)) : Tail(q)[i] = q[i + 1]
    BY <2>1, HeadTailProperties
  <2>3. ASSUME NEW n \in DOMAIN q, n # 1
        PROVE  \E m \in DOMAIN Tail(q) : Tail(q)[m] = q[n]
    <3>1. n - 1 \in 1..Len(Tail(q)) /\ (n - 1) + 1 = n
      BY <2>2, <2>3, LenProperties
    <3>2. Tail(q)[n - 1] = q[n]
      BY <2>2, <3>1
    <3>3. DOMAIN Tail(q) = 1..Len(Tail(q))
      BY <2>2, LenProperties
    <3> QED
      BY <3>1, <3>2, <3>3
  <2> QED
    BY <1>2, <2>1, <2>2, <2>3
<1>5. PICK A : A = Asked(S, current)
  OBVIOUS
<1>6. /\ A \in SUBSET Calls /\ \A k \in A : Sound(k)
      /\ \A p \in Panels :
           {k \in A : k.op = "list" /\ k.thing = p} =
             IF p \in S /\ current # NoTarget
             THEN {Call("list", p, current, NoItem)} ELSE {}
  BY <1>1, <1>4, <1>5, AskedIsSound
<1>7. running' = [running EXCEPT ![h] = [calls |-> A, then |-> r]]
  BY <1>2, <1>5 DEF NextStage
<1>8. /\ running'[h] = [calls |-> A, then |-> r]
      /\ running'[h].calls = A /\ running'[h].then = r
      /\ \A g \in Handlers \ {h} : running'[g] = running[g]
      /\ Typed'
  BY <1>1, <1>4, <1>6, <1>7 DEF Typed
<1>9. PICK clear : clear = {p \in Panels \intersect S : current = NoTarget}
  OBVIOUS
<1>10. /\ panel' = [p \in Panels |-> IF p \in clear THEN Empty ELSE panel[p]]
       /\ ready' = IF clear = {} THEN ready ELSE Readiness(current, targets, panel')
       /\ cause' = [p \in Panels |-> IF p \in clear THEN {} ELSE cause[p]]
       /\ sent' = [p \in Panels |-> IF p \in S \ clear THEN Append(sent[p], h) ELSE sent[p]]
       /\ UNCHANGED <<host, targets, current, late>>
  BY <1>2, <1>9 DEF NextStage
<1>11. CallsAreSound'
  <2> SUFFICES ASSUME NEW g \in Handlers, NEW j \in running'[g].calls
               PROVE  Sound(j)
    BY DEF CallsAreSound, Sound
  <2> QED
    BY <1>1, <1>6, <1>8 DEF CallsAreSound
<1>12. \A g \in Handlers \ {h}, p \in Panels : ListsOf(g, p)' = ListsOf(g, p)
  BY <1>8 DEF ListsOf
<1>13. \A p \in Panels : ListsOf(h, p)' = IF p \in S /\ current # NoTarget
                                        THEN {Call("list", p, current, NoItem)} ELSE {}
  BY <1>6, <1>8 DEF ListsOf
<1>14. \A p \in Panels : ListsOf(h, p) = {} /\ h \notin ToSet(sent[p])
  BY <1>1, <1>3 DEF ListsOf, SentIsDue
<1>15. \A p \in Panels : sent[p] \in Seq(Handlers) /\ Distinct(sent[p])
  BY <1>1 DEF TypeOK, Distinct
\* A panel is asked for now, or there is no target to ask for, or it was not its turn.
<1>16. ASSUME NEW p \in Panels, p \in S, current # NoTarget
       PROVE  /\ sent'[p] \in Seq(Handlers) /\ Distinct(sent'[p])
              /\ ToSet(sent'[p]) = ToSet(sent[p]) \union {h}
              /\ sent'[p] # <<>> /\ Last(sent'[p]) = h
              /\ panel'[p] = panel[p] /\ cause'[p] = cause[p]
  <2>1. /\ sent'[p] = Append(sent[p], h)
        /\ panel'[p] = panel[p] /\ cause'[p] = cause[p]
    BY <1>9, <1>10, <1>16
  <2> QED
    BY <1>14, <1>15, <2>1, OneJoins
<1>17. ASSUME NEW p \in Panels, p \in S, current = NoTarget
       PROVE  sent'[p] = sent[p] /\ panel'[p] = Empty /\ cause'[p] = {}
  BY <1>9, <1>10, <1>17
<1>18. ASSUME NEW p \in Panels, p \notin S
       PROVE  sent'[p] = sent[p] /\ panel'[p] = panel[p] /\ cause'[p] = cause[p]
  BY <1>9, <1>10, <1>18
<1>19. ASSUME NEW p \in Panels, p \notin S, Wanted(p)
       PROVE  Wanted(p)'
  <2>1. PICK g \in Handlers : \E n \in DOMAIN running[g].then : p \in running[g].then[n]
    BY <1>19 DEF Wanted
  <2>2. CASE g = h
    <3>1. \E m \in DOMAIN r : p \in r[m]
      BY <1>4, <1>19, <2>1, <2>2
    <3> QED
      BY <1>8, <3>1 DEF Wanted
  <2>3. CASE g # h
    BY <1>8, <2>1, <2>3 DEF Wanted
  <2> QED
    BY <2>2, <2>3
<1>20. TypeOK'
  <2>1. Empty \in [of : Targets \union {NoTarget}, items : SUBSET Items]
    BY DEF Empty
  <2>2. panel' \in [Panels -> [of : Targets \union {NoTarget}, items : SUBSET Items]]
    BY <1>1, <1>10, <2>1 DEF TypeOK
  <2>3. cause' \in [Panels -> SUBSET {"overtaken", "moved"}]
    BY <1>1, <1>10 DEF TypeOK
  <2>4. \A p \in Panels : sent'[p] \in Seq(Handlers) /\ Distinct(sent'[p])
    BY <1>15, <1>16, <1>17, <1>18
  <2>5. sent' \in [Panels -> Seq(Handlers)]
    BY <1>10, <2>4
  <2>6. \A p \in Panels : \A m, n \in DOMAIN sent'[p] : sent'[p][m] = sent'[p][n] => m = n
    BY <2>4 DEF Distinct
  <2>7. ready' \in BOOLEAN
    BY <1>1, <1>10 DEF TypeOK, Readiness
  <2> QED
    BY <1>1, <1>8, <1>10, <2>2, <2>3, <2>5, <2>6, <2>7 DEF TypeOK, Typed
<1>21. SentIsDue'
  <2> SUFFICES ASSUME NEW p \in Panels, NEW g \in Handlers
               PROVE  /\ g \in ToSet(sent'[p]) <=> ListsOf(g, p)' # {}
                      /\ \A j, k \in ListsOf(g, p)' : j = k
    BY DEF SentIsDue, ToSet
  <2>1. /\ g \in ToSet(sent[p]) <=> ListsOf(g, p) # {}
        /\ \A j, k \in ListsOf(g, p) : j = k
    BY <1>1 DEF SentIsDue
  <2>2. CASE g = h
    BY <1>13, <1>14, <1>16, <1>17, <1>18, <2>2
  <2>3. CASE g # h
    BY <1>12, <1>16, <1>17, <1>18, <2>1, <2>3
  <2> QED
    BY <2>2, <2>3
<1>22. NoneIsCurrent'
  <2>1. current = NoTarget => \A p \in Panels : sent'[p] = sent[p]
    BY <1>17, <1>18
  <2>2. current = NoTarget => \A p \in Panels : \A g \in ToSet(sent'[p]) : late[p][g] # {}
    BY <1>1, <2>1 DEF NoneIsCurrent
  <2>3. current' = current /\ targets' = targets /\ late' = late
    BY <1>10
  <2> QED
    BY <1>1, <2>2, <2>3 DEF NoneIsCurrent, ToSet
<1>23. NewestIsCurrent'
  <2> SUFFICES ASSUME NEW p \in Panels, ~Wanted(p)'
               PROVE  \/ sent'[p] = <<>> /\ (panel'[p].of = current' \/ cause'[p] # {})
                      \/ /\ sent'[p] # <<>>
                         /\ \A g : g = Last(sent'[p]) =>
                              \/ late'[p][g] # {}
                              \/ \A k \in ListsOf(g, p)' : k.target = current'
    BY DEF NewestIsCurrent, Last
  <2>1. CASE p \in S /\ current # NoTarget
    <3>1. ListsOf(h, p)' = {Call("list", p, current, NoItem)}
      BY <1>13, <2>1
    <3>2. Call("list", p, current, NoItem).target = current
      BY <1>1, PanelsAreOthers, CallIsTyped DEF TypeOK
    <3> QED
      BY <1>10, <1>16, <2>1, <3>1, <3>2
  <2>2. CASE p \in S /\ current = NoTarget
    <3>1. sent'[p] = sent[p] /\ panel'[p].of = NoTarget
      BY <1>17, <2>2 DEF Empty
    <3>2. current' = NoTarget /\ late' = late
      BY <1>10, <2>2
    <3>3. CASE sent[p] # <<>>
      <4>1. PICK g \in Handlers : g = Last(sent[p]) /\ g \in ToSet(sent[p])
        BY <1>15, <3>3, EmptySeq, LenProperties DEF Last, ToSet
      <4>2. late[p][g] # {}
        BY <1>1, <2>2, <4>1 DEF NoneIsCurrent
      <4> QED
        BY <3>1, <3>2, <3>3, <4>1, <4>2
    <3> QED
      BY <3>1, <3>2, <3>3
  <2>3. CASE p \notin S
    <3>1. ~Wanted(p)
      BY <1>19, <2>3
    <3>2. /\ sent'[p] = sent[p] /\ panel'[p] = panel[p] /\ cause'[p] = cause[p]
          /\ late' = late /\ current' = current
      BY <1>10, <1>18, <2>3
    <3>3. CASE sent[p] = <<>>
      BY <1>1, <3>1, <3>2, <3>3 DEF NewestIsCurrent
    <3>4. CASE sent[p] # <<>>
      <4>1. PICK g \in Handlers : g = Last(sent[p]) /\ g \in ToSet(sent[p])
        BY <1>15, <3>4, EmptySeq, LenProperties DEF Last, ToSet
      <4>2. g # h
        BY <1>14, <4>1
      <4>3. ListsOf(g, p)' = ListsOf(g, p)
        BY <1>12, <4>2
      <4>4. \/ late[p][g] # {}
            \/ \A k \in ListsOf(g, p) : k.target = current
        BY <1>1, <3>1, <3>4, <4>1 DEF NewestIsCurrent
      <4> QED
        BY <3>2, <3>4, <4>1, <4>3, <4>4
    <3> QED
      BY <3>3, <3>4
  <2> QED
    BY <2>1, <2>2, <2>3
<1>24. ReadinessIsCurrent'
  <2>1. CASE clear = {}
    <3>1. panel' = panel
      BY <1>1, <1>10, <2>1 DEF TypeOK
    <3> QED
      BY <1>10, <2>1, <3>1 DEF IInv, ReadinessIsCurrent
  <2>2. CASE clear # {}
    BY <1>10, <2>2 DEF ReadinessIsCurrent, Readiness
  <2> QED
    BY <2>1, <2>2
<1> QED
  BY <1>11, <1>20, <1>21, <1>22, <1>23, <1>24 DEF IInv
-----------------------------------------------------------------------------
\* What a landing leaves of the calls of a handler.
LEMMA LandedKeeps ==
  ASSUME Typed, CallsAreSound, NEW h \in Handlers, NEW k \in running[h].calls, Landed(h, k)
  PROVE  /\ Typed' /\ CallsAreSound'
         /\ k \in Calls /\ Sound(k)
         /\ \A g \in Handlers, p \in Panels :
              ListsOf(g, p)' = IF g = h THEN ListsOf(g, p) \ {k} ELSE ListsOf(g, p)
         /\ \A p \in Panels : Wanted(p) <=> Wanted(p)'
<1>1. k \in Calls /\ running[h].calls \subseteq Calls /\ Sound(k)
  BY DEF Typed, CallsAreSound
<1>2. PICK C : C = running[h].calls \ {k}
  OBVIOUS
<1>3. C \in SUBSET Calls
  BY <1>1, <1>2
<1>4. running' = [running EXCEPT ![h].calls = C]
  BY <1>2 DEF Landed
<1>5. /\ Typed'
      /\ running'[h].calls = C
      /\ \A g \in Handlers \ {h} : running'[g] = running[g]
      /\ \A p \in Panels : Wanted(p) <=> Wanted(p)'
  BY <1>3, <1>4, CallsChange
<1>6. CallsAreSound'
  <2> SUFFICES ASSUME NEW g \in Handlers, NEW j \in running'[g].calls
               PROVE  Sound(j)
    BY DEF CallsAreSound, Sound
  <2> QED
    BY <1>2, <1>5 DEF CallsAreSound
<1>7. ASSUME NEW g \in Handlers, NEW p \in Panels
      PROVE  ListsOf(g, p)' = IF g = h THEN ListsOf(g, p) \ {k} ELSE ListsOf(g, p)
  BY <1>2, <1>5 DEF ListsOf
<1> QED
  BY <1>1, <1>5, <1>6, <1>7

LEMMA LandChangeKeeps ==
  ASSUME IInv, NEW h \in Handlers, NEW k \in running[h].calls, LandChange(h, k)
  PROVE  IInv'
<1>1. Typed /\ CallsAreSound /\ SentIsDue /\ TypeOK
  BY DEF IInv, TypeOK, Typed
<1>2. Landed(h, k) /\ k.op # "list" /\ UNCHANGED <<host, page, history>>
  BY DEF LandChange
<1>3. /\ Typed' /\ CallsAreSound'
      /\ \A g \in Handlers, p \in Panels :
           ListsOf(g, p)' = IF g = h THEN ListsOf(g, p) \ {k} ELSE ListsOf(g, p)
      /\ \A p \in Panels : Wanted(p) <=> Wanted(p)'
  BY <1>1, <1>2, LandedKeeps
<1>4. \A g \in Handlers, p \in Panels : ListsOf(g, p)' = ListsOf(g, p)
  BY <1>2, <1>3 DEF ListsOf
<1>5. \A g \in Handlers, p \in Panels : ListsStay(g, p)
  BY <1>1, <1>4, SameLists
<1> QED
  BY <1>1, <1>2, <1>3, <1>5, PanelsStay DEF TypeOK

LEMMA OutsideKeeps ==
  ASSUME IInv, NEW t \in Targets, Outside(t)
  PROVE  IInv'
<1>1. Typed /\ CallsAreSound /\ SentIsDue /\ TypeOK
  BY DEF IInv, TypeOK, Typed
<1>2. running' = running /\ UNCHANGED <<page, history>>
  BY DEF Outside
<1>3. Typed' /\ CallsAreSound'
  BY <1>1, <1>2 DEF Typed, CallsAreSound
<1>4. \A g \in Handlers, p \in Panels : ListsOf(g, p)' = ListsOf(g, p)
  BY <1>2 DEF ListsOf
<1>5. \A p \in Panels : Wanted(p) => Wanted(p)'
  BY <1>2 DEF Wanted
<1>6. /\ existing' \subseteq Targets
      /\ content' \in [Panels -> [Targets -> SUBSET Items]]
  BY <1>1 DEF TypeOK, Outside
<1>7. \A g \in Handlers, p \in Panels : ListsStay(g, p)
  BY <1>1, <1>4, SameLists
<1> QED
  BY <1>2, <1>3, <1>5, <1>6, <1>7, PanelsStay
\* The new list of targets may take the current target from under every list that
\* is due and every panel that is shown.
LEMMA LandTargetsKeeps ==
  ASSUME IInv, NEW h \in Handlers, NEW k \in running[h].calls, LandTargets(h, k)
  PROVE  IInv'
<1>1. /\ Typed /\ CallsAreSound /\ SentIsDue /\ TypeOK
      /\ NoneIsCurrent /\ NewestIsCurrent /\ ReadinessIsCurrent
  BY DEF IInv, TypeOK, Typed
<1>2. /\ k.thing = "target" /\ Landed(h, k)
      /\ targets' = k.got /\ current' \in CurrentOf(k.got)
      /\ ready' = Readiness(current', targets', panel)
      /\ panel' = panel /\ sent' = sent /\ existing' = existing /\ content' = content
  BY DEF LandTargets
<1>3. /\ Typed' /\ CallsAreSound'
      /\ k \in Calls /\ Sound(k)
      /\ \A g \in Handlers, p \in Panels :
           ListsOf(g, p)' = IF g = h THEN ListsOf(g, p) \ {k} ELSE ListsOf(g, p)
      /\ \A p \in Panels : Wanted(p) <=> Wanted(p)'
  BY <1>1, <1>2, LandedKeeps
<1>4. k.got \subseteq Targets
  BY <1>2, <1>3 DEF Sound
<1>5. /\ current' \in targets' \union {NoTarget}
      /\ current' = NoTarget <=> targets' = {}
  BY <1>2, <1>4, ConstantsOK DEF CurrentOf
<1>6. \A g \in Handlers, p \in Panels : ListsOf(g, p)' = ListsOf(g, p)
  BY <1>2, <1>3, PanelsAreOthers DEF ListsOf
<1>7. \/ current' = current /\ cause' = cause /\ late' = late
      \/ /\ cause' = [p \in Panels |-> cause[p] \union {"moved"}]
         /\ late' = [p \in Panels |-> [g \in Handlers |->
                       IF g \in ToSet(sent[p]) THEN late[p][g] \union {"moved"} ELSE {}]]
  BY DEF LandTargets
<1>8. \/ current' = current /\ cause' = cause /\ late' = late
      \/ /\ \A p \in Panels : cause'[p] # {}
         /\ \A p \in Panels : \A g \in Handlers : g \in ToSet(sent[p]) => late'[p][g] # {}
  <2>1. CASE /\ cause' = [p \in Panels |-> cause[p] \union {"moved"}]
             /\ late' = [p \in Panels |-> [g \in Handlers |->
                           IF g \in ToSet(sent[p]) THEN late[p][g] \union {"moved"} ELSE {}]]
    <3>1. \A p \in Panels : cause'[p] = cause[p] \union {"moved"}
      BY <2>1
    <3>2. \A p \in Panels, g \in Handlers :
            g \in ToSet(sent[p]) => late'[p][g] = late[p][g] \union {"moved"}
      BY <2>1
    <3> QED
      BY <3>1, <3>2
  <2> QED
    BY <1>7, <2>1, Zenon
<1>9. \A p \in Panels : \A g \in ToSet(sent[p]) : g \in Handlers
  BY <1>1 DEF TypeOK, ToSet
<1>10. TypeOK'
  <2>1. /\ cause' \in [Panels -> SUBSET {"overtaken", "moved"}]
        /\ late' \in [Panels -> [Handlers -> SUBSET {"overtaken", "moved"}]]
    <3>1. /\ cause \in [Panels -> SUBSET {"overtaken", "moved"}]
          /\ late \in [Panels -> [Handlers -> SUBSET {"overtaken", "moved"}]]
      BY <1>1 DEF TypeOK
    <3>2. \A p \in Panels, g \in Handlers :
            /\ late[p][g] \union {"moved"} \in SUBSET {"overtaken", "moved"}
            /\ {} \in SUBSET {"overtaken", "moved"}
      BY <3>1
    <3> QED
      BY <1>7, <3>1, <3>2
  <2>2. ready' \in BOOLEAN
    BY <1>2 DEF Readiness
  <2> QED
    BY <1>1, <1>2, <1>3, <1>4, <1>5, <2>1, <2>2 DEF TypeOK, Typed
<1>11. SentIsDue'
  <2> SUFFICES ASSUME NEW p \in Panels, NEW g \in Handlers
               PROVE  /\ g \in ToSet(sent'[p]) <=> ListsOf(g, p)' # {}
                      /\ \A i, j \in ListsOf(g, p)' : i = j
    BY DEF SentIsDue, ToSet
  <2> QED
    BY <1>1, <1>2, <1>6 DEF SentIsDue
<1>12. NoneIsCurrent'
  <2>1. current' = NoTarget => \A p \in Panels : \A g \in ToSet(sent[p]) : late'[p][g] # {}
    BY <1>1, <1>8, <1>9 DEF NoneIsCurrent
  <2> QED
    BY <1>2, <1>5, <2>1 DEF NoneIsCurrent, ToSet
<1>13. NewestIsCurrent'
  <2> SUFFICES ASSUME NEW p \in Panels, ~Wanted(p)'
               PROVE  \/ sent[p] = <<>> /\ (panel[p].of = current' \/ cause'[p] # {})
                      \/ /\ sent[p] # <<>>
                         /\ \A g : g = Last(sent[p]) =>
                              \/ late'[p][g] # {}
                              \/ \A j \in ListsOf(g, p)' : j.target = current'
    BY <1>2 DEF NewestIsCurrent, Last
  <2>1. ~Wanted(p)
    BY <1>3
  <2>2. CASE sent[p] = <<>>
    BY <1>1, <1>8, <2>1, <2>2 DEF NewestIsCurrent
  <2>3. CASE sent[p] # <<>>
    <3>1. PICK g \in Handlers : g = Last(sent[p]) /\ g \in ToSet(sent[p])
      BY <1>1, <2>3, EmptySeq, LenProperties DEF Last, ToSet, TypeOK
    <3>2. \/ late[p][g] # {}
          \/ \A j \in ListsOf(g, p) : j.target = current
      BY <1>1, <2>1, <2>3, <3>1 DEF NewestIsCurrent
    <3> QED
      BY <1>6, <1>8, <2>3, <3>1, <3>2
  <2> QED
    BY <2>2, <2>3
<1>14. ReadinessIsCurrent'
  BY <1>2 DEF ReadinessIsCurrent, Readiness
<1> QED
  BY <1>3, <1>10, <1>11, <1>12, <1>13, <1>14 DEF IInv

\* A list that lands is the newest, and shows the current target or has a cause
\* not to; or a newer one is due; or an older one is, and is overtaken by it.
LEMMA LandPanelKeeps ==
  ASSUME IInv, NEW h \in Handlers, NEW k \in running[h].calls, LandPanel(h, k)
  PROVE  IInv'
<1>1. /\ Typed /\ CallsAreSound /\ SentIsDue /\ TypeOK
      /\ NoneIsCurrent /\ NewestIsCurrent /\ ReadinessIsCurrent
  BY DEF IInv, TypeOK, Typed
<1>2. PICK p \in Panels : p = k.thing /\ p # "target"
  BY PanelsAreOthers DEF LandPanel
<1>3. PICK n : n = Position(h, p)
  OBVIOUS
<1>4. PICK passed : passed = {sent[p][m] : m \in 1..(n - 1)}
  OBVIOUS
<1>5. /\ k.op = "list" /\ Landed(h, k)
      /\ panel' = [panel EXCEPT ![p] = Shown(k)]
      /\ sent' = [sent EXCEPT ![p] = RemoveAt(@, n)]
      /\ late' = [late EXCEPT ![p] = [g \in Handlers |->
                    CASE g = h                   -> {}
                      [] g # h /\ g \in passed  -> @[g] \union {"overtaken"}
                      [] OTHER                   -> @[g]]]
      /\ cause' = [cause EXCEPT ![p] = late[p][h]]
      /\ ready' = Readiness(current, targets, panel')
      /\ UNCHANGED <<host, targets, current>>
  BY <1>2, <1>3, <1>4 DEF LandPanel
<1>6. /\ Typed' /\ CallsAreSound'
      /\ k \in Calls /\ Sound(k)
      /\ \A g \in Handlers, q \in Panels :
           ListsOf(g, q)' = IF g = h THEN ListsOf(g, q) \ {k} ELSE ListsOf(g, q)
      /\ \A q \in Panels : Wanted(q) <=> Wanted(q)'
  BY <1>1, <1>5, LandedKeeps
<1>7. PICK q \in Seq(Handlers) : q = sent[p] /\ Distinct(q)
  BY <1>1 DEF TypeOK, Distinct
<1>8. PICK l \in Nat : l = Len(q) /\ DOMAIN q = 1..l
  BY LenProperties
\* It is due, so it has a place.
<1>9. k \in ListsOf(h, p) /\ \A j \in ListsOf(h, p) : j = k
  BY <1>1, <1>2, <1>5 DEF ListsOf, SentIsDue
<1>10. n \in 1..l /\ q[n] = h
  <2>1. \E m \in DOMAIN q : q[m] = h
    BY <1>1, <1>7, <1>9 DEF SentIsDue, ToSet
  <2> QED
    BY <1>3, <1>7, <1>8, <2>1 DEF Position
<1>11. PICK t : t = RemoveAt(q, n)
  OBVIOUS
<1>12. /\ t \in Seq(Handlers) /\ Distinct(t) /\ ToSet(t) = ToSet(q) \ {h}
       /\ t # <<>> => Last(t) \in ToSet(q) \ {h}
       /\ n < l => t # <<>> /\ Last(t) = Last(q)
  BY <1>7, <1>8, <1>10, <1>11, OneLeaves
<1>13. /\ sent'[p] = t /\ \A r \in Panels \ {p} : sent'[r] = sent[r]
       /\ sent' \in [Panels -> Seq(Handlers)]
  BY <1>1, <1>5, <1>7, <1>11, <1>12 DEF TypeOK
<1>14. /\ panel'[p] = Shown(k) /\ \A r \in Panels \ {p} : panel'[r] = panel[r]
       /\ cause'[p] = late[p][h] /\ \A r \in Panels \ {p} : cause'[r] = cause[r]
  BY <1>1, <1>5 DEF TypeOK
<1>15. PICK f : f = [g \in Handlers |->
                      CASE g = h                   -> {}
                        [] g # h /\ g \in passed  -> late[p][g] \union {"overtaken"}
                        [] OTHER                   -> late[p][g]]
  OBVIOUS
<1>16. /\ f \in [Handlers -> SUBSET {"overtaken", "moved"}]
       /\ \A g \in Handlers \ {h} : late[p][g] \subseteq f[g]
       /\ \A g \in Handlers \ {h} : g \in passed => f[g] # {}
  <2>1. \A g \in Handlers : late[p][g] \in SUBSET {"overtaken", "moved"}
    BY <1>1 DEF TypeOK
  <2> QED
    BY <1>15, <2>1
<1>17. late' = [late EXCEPT ![p] = f]
  BY <1>5, <1>15
<1>18. /\ late'[p] = f /\ \A r \in Panels \ {p} : late'[r] = late[r]
       /\ late' \in [Panels -> [Handlers -> SUBSET {"overtaken", "moved"}]]
  BY <1>1, <1>16, <1>17 DEF TypeOK
<1>19. \A r \in Panels \ {p}, g \in Handlers : ListsOf(g, r)' = ListsOf(g, r)
  BY <1>2, <1>6 DEF ListsOf
<1>20. ListsOf(h, p)' = {} /\ \A g \in Handlers \ {h} : ListsOf(g, p)' = ListsOf(g, p)
  BY <1>6, <1>9
<1>21. TypeOK'
  <2>1. Shown(k) \in [of : Targets \union {NoTarget}, items : SUBSET Items]
    BY <1>2, <1>6 DEF Shown, Sound, Calls
  <2>2. panel' \in [Panels -> [of : Targets \union {NoTarget}, items : SUBSET Items]]
    BY <1>1, <1>5, <2>1 DEF TypeOK
  <2>3. cause' \in [Panels -> SUBSET {"overtaken", "moved"}]
    BY <1>1, <1>5 DEF TypeOK
  <2>4. \A r \in Panels : \A i, j \in DOMAIN sent'[r] : sent'[r][i] = sent'[r][j] => i = j
    BY <1>1, <1>12, <1>13 DEF TypeOK, Distinct
  <2>5. ready' \in BOOLEAN
    BY <1>5 DEF Readiness
  <2> QED
    BY <1>1, <1>5, <1>6, <1>13, <1>18, <2>2, <2>3, <2>4, <2>5 DEF TypeOK, Typed
<1>22. SentIsDue'
  <2> SUFFICES ASSUME NEW r \in Panels, NEW g \in Handlers
               PROVE  /\ g \in ToSet(sent'[r]) <=> ListsOf(g, r)' # {}
                      /\ \A i, j \in ListsOf(g, r)' : i = j
    BY DEF SentIsDue, ToSet
  <2>1. /\ g \in ToSet(sent[r]) <=> ListsOf(g, r) # {}
        /\ \A i, j \in ListsOf(g, r) : i = j
    BY <1>1 DEF SentIsDue
  <2> QED
    BY <1>7, <1>12, <1>13, <1>19, <1>20, <2>1
<1>23. NoneIsCurrent'
  <2>1. ASSUME current = NoTarget, NEW r \in Panels, NEW g \in ToSet(sent'[r])
        PROVE  late'[r][g] # {}
    <3>1. CASE r = p
      <4>1. g \in ToSet(q) /\ g # h
        BY <1>12, <1>13, <2>1, <3>1
      <4>3. g \in Handlers
        BY <1>7, <4>1 DEF ToSet
      <4>2. late[p][g] # {}
        BY <1>1, <1>7, <2>1, <4>1 DEF NoneIsCurrent
      <4> QED
        BY <1>16, <1>18, <3>1, <4>1, <4>2, <4>3
    <3>2. CASE r # p
      BY <1>1, <1>13, <1>18, <2>1, <3>2 DEF NoneIsCurrent
    <3> QED
      BY <3>1, <3>2
  <2>2. current' = current /\ targets' = targets
    BY <1>5
  <2> QED
    BY <1>1, <2>1, <2>2 DEF NoneIsCurrent, ToSet
<1>24. NewestIsCurrent'
  <2> SUFFICES ASSUME NEW r \in Panels, ~Wanted(r)'
               PROVE  \/ sent'[r] = <<>> /\ (panel'[r].of = current \/ cause'[r] # {})
                      \/ /\ sent'[r] # <<>>
                         /\ \A g : g = Last(sent'[r]) =>
                              \/ late'[r][g] # {}
                              \/ \A j \in ListsOf(g, r)' : j.target = current
    BY <1>5 DEF NewestIsCurrent, Last
  <2>1. ~Wanted(r)
    BY <1>6
  <2>2. CASE r # p
    <3>1. /\ sent'[r] = sent[r] /\ panel'[r] = panel[r] /\ cause'[r] = cause[r]
          /\ late'[r] = late[r]
      BY <1>13, <1>14, <1>18, <2>2
    <3>2. CASE sent[r] = <<>>
      BY <1>1, <2>1, <3>1, <3>2 DEF NewestIsCurrent
    <3>3. CASE sent[r] # <<>>
      <4>1. PICK g \in Handlers : g = Last(sent[r])
        BY <1>1, <3>3, EmptySeq DEF Last, TypeOK
      <4>2. \/ late[r][g] # {}
            \/ \A j \in ListsOf(g, r) : j.target = current
        BY <1>1, <2>1, <3>3, <4>1 DEF NewestIsCurrent
      <4>3. ListsOf(g, r)' = ListsOf(g, r)
        BY <1>19, <2>2
      <4> QED
        BY <3>1, <3>3, <4>1, <4>2, <4>3
    <3> QED
      BY <3>2, <3>3
  <2>3. CASE r = p
    <3>1. q # <<>> /\ Last(q) = q[l] /\ l \in 1..l /\ q[l] \in Handlers
      BY <1>8, <1>10, EmptySeq DEF Last
    <3>2. \/ late[p][q[l]] # {}
          \/ \A j \in ListsOf(q[l], p) : j.target = current
      BY <1>1, <1>7, <2>1, <2>3, <3>1 DEF NewestIsCurrent
    \* A newer one is due.
    <3>3. CASE n < l
      <4>1. t # <<>> /\ Last(t) = q[l] /\ q[l] # h
        BY <1>8, <1>10, <1>12, <3>1, <3>3 DEF Distinct
      <4>2. late[p][q[l]] \subseteq late'[p][q[l]] /\ ListsOf(q[l], p)' = ListsOf(q[l], p)
        BY <1>16, <1>18, <1>20, <3>1, <4>1
      <4>3. sent'[r] = t
        BY <1>13, <2>3
      <4> QED
        BY <2>3, <3>2, <4>1, <4>2, <4>3
    \* It is the newest, and an older one is due or none.
    <3>4. CASE n = l /\ t # <<>>
      <4>1. PICK g \in Handlers : g = Last(t) /\ g \in ToSet(q) /\ g # h
        BY <1>7, <1>12, <3>4 DEF ToSet
      <4>2. PICK m \in 1..l : g = q[m]
        BY <1>8, <4>1 DEF ToSet
      <4>3. m \in 1..(n - 1)
        BY <1>8, <1>10, <3>4, <4>1, <4>2
      <4>4. g \in passed
        BY <1>4, <1>7, <4>2, <4>3
      <4>5. late'[p][g] # {}
        BY <1>16, <1>18, <4>1, <4>4
      <4> QED
        BY <1>13, <2>3, <3>4, <4>1, <4>5
    <3>5. CASE n = l /\ t = <<>>
      <4>1. panel'[p].of = k.target /\ cause'[p] = late[p][h]
        BY <1>14 DEF Shown
      <4> QED
        BY <1>9, <1>10, <1>13, <2>3, <3>2, <3>5, <4>1
    <3> QED
      BY <1>8, <1>10, <3>3, <3>4, <3>5
  <2> QED
    BY <2>2, <2>3
<1>25. ReadinessIsCurrent'
  BY <1>5 DEF ReadinessIsCurrent, Readiness
<1> QED
  BY <1>6, <1>21, <1>22, <1>23, <1>24, <1>25 DEF IInv
-----------------------------------------------------------------------------
LEMMA InitHolds == Init => IInv
<1> SUFFICES ASSUME Init
             PROVE  IInv
  OBVIOUS
<1>1. \A h \in Handlers : running[h].calls = {} /\ running[h].then = <<>>
  BY DEF Init, Idle
<1>2. \A p \in Panels : sent[p] = <<>> /\ DOMAIN sent[p] = {} /\ ToSet(sent[p]) = {}
  BY DEF Init, ToSet
<1>3. \A h \in Handlers, p \in Panels : ListsOf(h, p) = {}
  BY <1>1 DEF ListsOf
<1>4. TypeOK
  <2>1. Idle \in [calls : SUBSET Calls, then : Seq(SUBSET Things)]
    BY DEF Idle
  <2>2. Empty \in [of : Targets \union {NoTarget}, items : SUBSET Items]
    BY DEF Empty
  <2>3. /\ existing \subseteq Targets
        /\ content \in [Panels -> [Targets -> SUBSET Items]]
        /\ targets = {} /\ current = NoTarget /\ ready = FALSE
    BY DEF Init
  <2>4. /\ panel \in [Panels -> [of : Targets \union {NoTarget}, items : SUBSET Items]]
        /\ running \in [Handlers -> [calls : SUBSET Calls, then : Seq(SUBSET Things)]]
    BY <2>1, <2>2 DEF Init
  <2>5. /\ sent \in [Panels -> Seq(Handlers)]
        /\ late \in [Panels -> [Handlers -> SUBSET {"overtaken", "moved"}]]
        /\ cause \in [Panels -> SUBSET {"overtaken", "moved"}]
    BY DEF Init
  <2>6. \A p \in Panels : \A m, n \in DOMAIN sent[p] : sent[p][m] = sent[p][n] => m = n
    BY <1>2
  <2> QED
    BY <2>3, <2>4, <2>5, <2>6 DEF TypeOK
<1>5. CallsAreSound
  BY <1>1 DEF CallsAreSound
<1>6. SentIsDue
  BY <1>2, <1>3 DEF SentIsDue
<1>7. NoneIsCurrent
  BY <1>2 DEF NoneIsCurrent, Init
<1>8. NewestIsCurrent
  BY <1>2 DEF NewestIsCurrent, Init, Empty
<1>9. ReadinessIsCurrent
  BY DEF Init, ReadinessIsCurrent
<1> QED
  BY <1>4, <1>5, <1>6, <1>7, <1>8, <1>9 DEF IInv

LEMMA StepKeeps ==
  ASSUME IInv, [Next]_vars
  PROVE  IInv'
<1>1. CASE UNCHANGED vars
  <2>1. Typed' /\ CallsAreSound'
    BY <1>1 DEF vars, IInv, TypeOK, Typed, CallsAreSound
  <2>2. \A h \in Handlers, p \in Panels : ListsOf(h, p)' = ListsOf(h, p)
    BY <1>1 DEF vars, ListsOf
  <2>3. \A h \in Handlers, p \in Panels : ListsStay(h, p)
    BY <2>2, SameLists DEF IInv
  <2>4. \A p \in Panels : Wanted(p) => Wanted(p)'
    BY <1>1 DEF vars, Wanted
  <2>5. /\ existing' \subseteq Targets
        /\ content' \in [Panels -> [Targets -> SUBSET Items]]
    BY <1>1 DEF vars, IInv, TypeOK
  <2> QED
    BY <1>1, <2>1, <2>3, <2>4, <2>5, PanelsStay DEF vars
<1>2. ASSUME NEW h \in Handlers, Land(h)
      PROVE  IInv'
  BY <1>2, LandTargetsKeeps, LandPanelKeeps, LandChangeKeeps DEF Land
<1>3. CASE Next
  BY <1>2, <1>3, UserActionsKeep, NextStageKeeps, ServeKeeps, OutsideKeeps DEF Next
<1> QED
  BY <1>1, <1>3

\* The inductive invariant holds of every behaviour of the page.
THEOREM Invariance == Spec => []IInv
<1>1. Init => IInv
  BY InitHolds
<1>2. IInv /\ [Next]_vars => IInv'
  BY StepKeeps
<1> QED
  BY <1>1, <1>2, PTL DEF Spec

\* Every variable of the page has its type, whatever handlers run at once: the
\* current target is one of the list, and a handler has one list of a panel due
\* at most (refreshSelects; the await of each refresh).
THEOREM TypeCorrect == Spec => []TypeOK
<1>1. IInv => TypeOK
  BY DEF IInv
<1> QED
  BY <1>1, Invariance, PTL

\* A panel that nothing is going to show again is that of the current target, or
\* an older list of it landed after a newer one, or a new list of targets took
\* the current target from under it (refreshMappings, refreshSelects).
THEOREM NothingElseMisplaces == Spec => []MisplacedHasCause
<1>1. IInv => MisplacedHasCause
  <2> SUFFICES ASSUME IInv, NEW p \in Panels, Settled(p)
               PROVE  panel[p].of = current \/ cause[p] # {}
    BY DEF MisplacedHasCause
  <2>1. ~Wanted(p)
    BY DEF Settled, Wanted
  <2>2. \A h \in Handlers : ListsOf(h, p) = {}
    BY DEF Settled, ListsOf
  <2>3. \A h \in Handlers : h \notin ToSet(sent[p])
    BY <2>2 DEF IInv, SentIsDue
  <2>4. sent[p] = <<>>
    <3>1. sent[p] \in Seq(Handlers)
      BY DEF IInv, TypeOK
    <3> QED
      BY <2>3, <3>1, EmptySeq, LenProperties DEF ToSet
  <2> QED
    BY <2>1, <2>4 DEF IInv, NewestIsCurrent
<1> QED
  BY <1>1, Invariance, PTL

\* The note on readiness agrees with the panels and the list of targets that are
\* shown, in every order of clicks and answers (renderReadiness).
THEOREM NoteIsCurrent == Spec => []ReadinessIsCurrent
<1>1. IInv => ReadinessIsCurrent
  BY DEF IInv
<1> QED
  BY <1>1, Invariance, PTL
=============================================================================
