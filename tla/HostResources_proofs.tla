----------------------- MODULE HostResources_proofs -----------------------
(***************************************************************************)
(* Proofs about HostResources, for every set of requests, items and names. *)
(*                                                                         *)
(* Who holds a mutex, and what stage a request of its sort can be at, does *)
(* not depend on the host (InPlace).  What a request remembers of the host *)
(* is compared with what was there always, and with what was there ever,   *)
(* since it began to look: SeenHolds says how far a listing by two         *)
(* commands has come, Watched that the two sets enclose what is there now. *)
(* From these follow ListingIsRegular and NotFoundWasAbsent, and with them *)
(* that each command is one step of HostPromise.                           *)
(***************************************************************************)
EXTENDS HostResources, TLAPS

\* The line of a backstore is read as that backstore: none has a name that the
\* listing skips.
StoresReadBack == \A i \in Items : i.kind = "store" => ReadAs[i] = {i}

\* targetcli says why a command fails in words that the service knows, and in no
\* other that it looks for; where the target is missing it may say so in words
\* that mean the item is gone.
ClearMessages ==
  \A k \in Kinds, f \in Reasons : \A m \in Says[k][f] :
    /\ f = "taken" <=> m \intersect WordsOf[k].exists # {}
    /\ f = "absent" => m \intersect WordsOf[k].gone # {}
    /\ f = "killed" => m \intersect WordsOf[k].gone = {}
    /\ f \in {"other", "killed"} => m \intersect TargetWords = {}

\* No command line spells a word that a service looks for.
NothingSpelled ==
  \A r \in Requests : \A q \in Promise!Meant(r) : Parts(q) \intersect Spelling = {}

\* The stages that a request of each sort goes through, and what is left on one
\* that is not being served.
InPlace ==
  \A c \in Clients :
    /\ pc[c] \in {"lock", "command"} => req[c].op # "list"
    /\ pc[c] = "ls" => req[c].op = "list"
    /\ pc[c] \in {"fileio", "block"} =>
         ResolvesType(req[c]) \/ (req[c].op = "list" /\ req[c].kind = "store")
    /\ pc[c] # "reply" => ans[c] = NoAnswer

\* What there is of what a request asks about.
About(c) == {i \in host : Concerns(req[c], i)}

\* What was always there is there now, and what is there now was there ever.
Watched ==
  \A c \in Clients :
    /\ pc[c] \in {"idle", "lock"} => always[c] = Items /\ ever[c] = {}
    /\ pc[c] \in Serving \ {"lock"} =>
         always[c] \subseteq About(c) /\ About(c) \subseteq ever[c]

\* How far a listing of backstores has come: after its first command it has the
\* files that were always there and no backstore that never was; when a deletion
\* has found its type, it has seen a backstore of its name.
SeenBy(c) ==
  /\ pc[c] \in {"idle", "lock", "fileio", "reply"} => seen[c] = {}
  /\ pc[c] = "block" =>
       /\ Shown({i \in always[c] : i.slot[1] = "fileio"}) \subseteq seen[c]
       /\ req[c].op = "list" => seen[c] \subseteq Shown(ever[c])
       /\ \A i \in seen[c] : i.kind = "store"
       /\ StoresReadBack => \A i \in seen[c] : Concerns(req[c], i) => i \in ever[c]
  /\ pc[c] = "command" /\ ResolvesType(req[c]) =>
       /\ seen[c] # {} /\ \A i \in seen[c] : Concerns(req[c], i)
       /\ StoresReadBack => seen[c] \subseteq ever[c]
SeenHolds == \A c \in Clients : SeenBy(c)

IInv ==
  /\ TypeOK /\ MutexHeldToChange /\ InPlace
  /\ Watched /\ SeenHolds /\ ListingIsRegular
  /\ StoresReadBack /\ ClearMessages => NotFoundWasAbsent

-----------------------------------------------------------------------------
\* What the host becomes is made of items, and answers are answers.
LEMMA AnswersTyped ==
  /\ Failed \in Answers /\ Refused \in Answers /\ Missing \in Answers
  /\ NoAnswer \in Answers
  /\ \A b \in BOOLEAN : Done(b) \in Answers
  /\ \A S \in SUBSET Items : Listed(S) \in Answers
BY DEF Answers, Answer, Failed, Refused, Missing, NoAnswer, Done, Listed

LEMMA JudgedTyped ==
  ASSUME NEW r, NEW m
  PROVE  Judged(r, m) \in {Done(FALSE), Missing, Failed}
BY DEF Judged

LEMMA EffectsTyped ==
  ASSUME NEW r, NEW h \in SUBSET Items, NEW g \in Effects(r, h)
  PROVE  g \subseteq Items
BY DEF Effects, Placed, Without

LEMMA OperatedTyped ==
  ASSUME NEW i \in Items, NEW h \in SUBSET Items, NEW g \in Operated(i, h)
  PROVE  g \subseteq Items
BY DEF Operated, Without

\* What a listing shows are items, of the sort of those whose lines it reads.
LEMMA ShownTyped ==
  ASSUME NEW S \in SUBSET Items
  PROVE  /\ Shown(S) \in SUBSET Items
         /\ \A k : (\A i \in S : i.kind = k) => \A j \in Shown(S) : j.kind = k
<1>1. \A i \in S : ReadAs[i] \in SUBSET Items /\ \A j \in ReadAs[i] : j.kind = i.kind
  BY ConstantsOK
<1> QED
  BY <1>1 DEF Shown

LEMMA ShownGrows ==
  ASSUME NEW S, NEW T, S \subseteq T
  PROVE  Shown(S) \subseteq Shown(T)
BY DEF Shown

LEMMA StoresShown ==
  ASSUME StoresReadBack, NEW S \in SUBSET Items, \A i \in S : i.kind = "store"
  PROVE  Shown(S) = S
<1>1. \A i \in S : ReadAs[i] = {i}
  BY DEF StoresReadBack
<1> QED
  BY <1>1 DEF Shown

\* The backstores of a type, and what a listing has seen with them.
OfType(type) == {i \in host : i.kind = "store" /\ i.slot[1] = type}

LEMMA SeenTyped ==
  ASSUME TypeOK, NEW c \in Clients, NEW type
  PROVE  /\ SeenWith(c, type) = seen[c] \union Shown(OfType(type))
         /\ SeenWith(c, type) \in SUBSET Items
         /\ \A j \in Shown(OfType(type)) : j.kind = "store"
<1>1. OfType(type) \in SUBSET Items /\ \A i \in OfType(type) : i.kind = "store"
  BY DEF TypeOK, OfType
<1>2. SeenWith(c, type) = seen[c] \union Shown(OfType(type))
  BY DEF SeenWith, OfType
<1>3. seen[c] \in SUBSET Items
  BY DEF TypeOK
<1> QED
  BY <1>1, <1>2, <1>3, ShownTyped

LEMMA NoRequestIsNone == NoRequest \notin Requests
BY ConstantsOK

LEMMA WatchTyped ==
  ASSUME TypeOK, Watch, host' \subseteq Items
  PROVE  /\ always' \in [Clients -> SUBSET Items]
         /\ ever' \in [Clients -> SUBSET Items]
<1> DEFINE about(c) == {i \in host' : Concerns(req'[c], i)}
<1>1. \A c \in Clients : about(c) \in SUBSET Items
  OBVIOUS
<1>2. /\ always' = [c \in Clients |->
            IF pc'[c] \in {"idle", "lock"} THEN Items
            ELSE IF pc[c] = "reply" THEN always[c]
            ELSE always[c] \intersect about(c)]
      /\ ever' = [c \in Clients |->
            IF pc'[c] \in {"idle", "lock"} THEN {}
            ELSE IF pc[c] = "reply" THEN ever[c]
            ELSE ever[c] \union about(c)]
  BY DEF Watch
<1>3. \A c \in Clients : always[c] \in SUBSET Items /\ ever[c] \in SUBSET Items
  BY DEF TypeOK
<1> HIDE DEF about
<1> QED
  BY <1>1, <1>2, <1>3

\* A step keeps the types, and lets only requests that passed the checks of
\* their service get beyond them.
LEMMA TypeStep ==
  ASSUME TypeOK, [Next]_vars
  PROVE  TypeOK'
<1> DEFINE Rest ==
      /\ mu \in [Kinds -> Clients \union {NoClient}]
      /\ pc \in [Clients -> {"idle", "reply"} \union Serving]
      /\ req \in [Clients -> Requests \union {NoRequest}]
      /\ seen \in [Clients -> SUBSET Items]
      /\ cut \in [Clients -> BOOLEAN]
      /\ ans \in [Clients -> Answers]
      /\ \A c \in Clients :
           /\ pc[c] = "idle" <=> req[c] = NoRequest
           /\ pc[c] \in Serving => Parts(req[c]) \subseteq Valid \union Types \union {AnyLun, Untyped}
<1>1. SUFFICES ASSUME Next
               PROVE  TypeOK'
  BY DEF TypeOK, vars, Parts
<1>2. Watch
  BY <1>1 DEF Next, Serve, Step, Refuse, Accept, Expire, Lock, ListOfTarget,
     ListFileio, ListBlock, Command, Reply, Admin, Crash
<1>3. SUFFICES host' \subseteq Items /\ Rest'
  BY <1>2, WatchTyped DEF TypeOK
<1> USE DEF TypeOK, Serving
<1>4. ASSUME NEW c \in Clients, NEW r \in Requests, Refuse(c, r)
      PROVE  host' \subseteq Items /\ Rest'
  BY <1>4, NoRequestIsNone, AnswersTyped DEF Refuse, Finish
<1>5. ASSUME NEW c \in Clients, NEW r \in Requests, Accept(c, r)
      PROVE  host' \subseteq Items /\ Rest'
  BY <1>5, NoRequestIsNone DEF Accept, Admissible, FirstStep
<1>6. ASSUME NEW c \in Clients, Expire(c)
      PROVE  host' \subseteq Items /\ Rest'
  BY <1>6 DEF Expire
<1>7. ASSUME NEW c \in Clients, Lock(c)
      PROVE  host' \subseteq Items /\ Rest'
  BY <1>7 DEF Lock
<1>8. ASSUME NEW c \in Clients, ListOfTarget(c)
      PROVE  host' \subseteq Items /\ Rest'
  <2>1. PICK a \in {Failed, Listed(Shown({i \in host : Concerns(req[c], i)}))} : Finish(c, a)
    BY <1>8 DEF ListOfTarget
  <2>2. Shown({i \in host : Concerns(req[c], i)}) \in SUBSET Items
    BY ShownTyped
  <2>3. a \in Answers
    BY <2>1, <2>2, AnswersTyped
  <2> QED
    BY <1>8, <2>1, <2>3 DEF ListOfTarget, Finish
<1>9. ASSUME NEW c \in Clients, ListFileio(c)
      PROVE  host' \subseteq Items /\ Rest'
  <2>1. SeenWith(c, "fileio") \in SUBSET Items
    BY SeenTyped
  <2>2. CASE Finish(c, Failed)
    BY <1>9, <2>2, AnswersTyped DEF ListFileio, Finish
  <2>3. CASE /\ seen' = [seen EXCEPT ![c] = SeenWith(c, "fileio")]
             /\ pc' = [pc EXCEPT ![c] = "block"]
             /\ UNCHANGED <<mu, cut, ans>>
    BY <1>9, <2>1, <2>3 DEF ListFileio
  <2> QED
    BY <1>9, <2>2, <2>3 DEF ListFileio
<1>10. ASSUME NEW c \in Clients, ListBlock(c)
       PROVE  host' \subseteq Items /\ Rest'
  <2>1. SeenWith(c, "block") \in SUBSET Items
    BY SeenTyped
  <2>2. ASSUME NEW a \in {Failed, Done(FALSE), Listed(SeenWith(c, "block"))}, Finish(c, a)
        PROVE  Rest'
    <3>1. a \in Answers
      BY <2>1, <2>2, AnswersTyped
    <3> QED
      BY <1>10, <2>2, <3>1 DEF ListBlock, Finish
  <2>3. CASE /\ seen' = [seen EXCEPT ![c] = Named(c, SeenWith(c, "block"))]
             /\ pc' = [pc EXCEPT ![c] = "command"]
             /\ UNCHANGED <<mu, cut, ans>>
    BY <1>10, <2>1, <2>3 DEF ListBlock, Named
  <2> QED
    BY <1>10, <2>2, <2>3 DEF ListBlock
<1>11. ASSUME NEW c \in Clients, Command(c)
       PROVE  host' \subseteq Items /\ Rest'
  <2>1. host' \in {host} \union Effects(Resolved(c), host)
    BY <1>11 DEF Command
  <2>2. PICK a \in {Done(TRUE), Done(FALSE), Missing, Failed} : Finish(c, a)
    <3>1. \A m : Judged(Resolved(c), m) \in {Done(FALSE), Missing, Failed}
      BY JudgedTyped
    <3> QED
      BY <1>11, <3>1, Zenon DEF Command
  <2>3. a \in Answers
    BY <2>2, AnswersTyped
  <2> QED
    BY <1>11, <2>1, <2>2, <2>3, EffectsTyped DEF Command, Finish
<1>12. ASSUME NEW c \in Clients, Reply(c)
       PROVE  host' \subseteq Items /\ Rest'
  BY <1>12, AnswersTyped DEF Reply
<1>13. ASSUME NEW i \in AdminItems, Admin(i)
       PROVE  host' \subseteq Items /\ Rest'
  BY <1>13, ConstantsOK, OperatedTyped DEF Admin
<1>14. CASE Crash
  BY <1>14, AnswersTyped DEF Crash
<1> QED
  BY <1>1, <1>4, <1>5, <1>6, <1>7, <1>8, <1>9, <1>10, <1>11, <1>12, <1>13, <1>14
     DEF Next, Serve, Step

LEMMA TypeInit == Init => TypeOK
<1> SUFFICES ASSUME Init PROVE TypeOK
  OBVIOUS
<1>1. host \subseteq Items
  BY ConstantsOK DEF Init
<1> QED
  BY <1>1, AnswersTyped, NoRequestIsNone DEF Init, TypeOK, Serving

\* The variables keep their types.
THEOREM TypeCorrect == Spec => []TypeOK
<1>1. TypeOK /\ [Next]_vars => TypeOK'
  BY TypeStep
<1> QED
  BY <1>1, TypeInit, PTL DEF Spec

-----------------------------------------------------------------------------
\* Each request has a kind and an operation of its own.
LEMMA RequestsKnown ==
  ASSUME TypeOK, NEW c \in Clients
  PROVE  /\ pc[c] # "idle" => /\ req[c] \in Requests
                              /\ req[c].kind \in Kinds
                              /\ req[c].op \in {"list", "create", "delete"}
         /\ pc[c] \in {"idle", "reply", "lock", "ls", "fileio", "block", "command"}
BY ConstantsOK DEF TypeOK, Serving

\* Who holds a mutex and where a request is do not depend on the host.
LEMMA ControlStep ==
  ASSUME TypeOK, MutexHeldToChange, InPlace, [Next]_vars
  PROVE  MutexHeldToChange' /\ InPlace'
<1> USE RequestsKnown DEF TypeOK, MutexHeldToChange, InPlace, Serving
<1>1. ASSUME NEW c \in Clients, NEW r \in Requests, Refuse(c, r)
      PROVE  MutexHeldToChange' /\ InPlace'
  BY <1>1, ConstantsOK DEF Refuse, Finish
<1>2. ASSUME NEW c \in Clients, NEW r \in Requests, Accept(c, r)
      PROVE  MutexHeldToChange' /\ InPlace'
  <2>1. /\ FirstStep(r) \in {"lock", "fileio", "ls"}
        /\ FirstStep(r) = "lock" <=> r.op # "list"
        /\ FirstStep(r) = "fileio" => r.kind = "store"
    BY DEF FirstStep
  <2>2. r.op \in {"list", "create", "delete"} /\ r.kind \in Kinds
    BY ConstantsOK
  <2>3. \A k \in Kinds : mu[k] # c
    BY <1>2 DEF Accept
  <2>4. MutexHeldToChange'
    BY <1>2, <2>1, <2>2, <2>3 DEF Accept
  <2>5. InPlace'
    BY <1>2, <2>1, <2>2 DEF Accept
  <2> QED
    BY <2>4, <2>5
<1>3. ASSUME NEW c \in Clients, Expire(c)
      PROVE  MutexHeldToChange' /\ InPlace'
  BY <1>3 DEF Expire
<1>4. ASSUME NEW c \in Clients, Lock(c)
      PROVE  MutexHeldToChange' /\ InPlace'
  <2>1. req[c].kind \in Kinds /\ req[c].op # "list"
    BY <1>4, ConstantsOK DEF Lock
  <2> QED
    BY <1>4, <2>1, ConstantsOK DEF Lock
\* A request that ends lets go of its mutex, if it has one.
<1>5. ASSUME NEW c \in Clients, NEW a, Finish(c, a), pc[c] \in Serving, UNCHANGED req
      PROVE  MutexHeldToChange' /\ InPlace'
  BY <1>5, ConstantsOK DEF Finish
\* One that goes on with another command keeps it.
<1>6. ASSUME NEW c \in Clients, NEW p \in {"block", "command"},
             pc[c] \in Serving \ {"lock"}, pc' = [pc EXCEPT ![c] = p],
             p = "block" => pc[c] = "fileio",
             p = "command" => req[c].op # "list",
             UNCHANGED <<mu, req, ans>>
      PROVE  MutexHeldToChange' /\ InPlace'
  BY <1>6
<1>7. ASSUME NEW c \in Clients, ListOfTarget(c)
      PROVE  MutexHeldToChange' /\ InPlace'
  BY <1>5, <1>7 DEF ListOfTarget
<1>8. ASSUME NEW c \in Clients, ListFileio(c)
      PROVE  MutexHeldToChange' /\ InPlace'
  BY <1>5, <1>6, <1>8 DEF ListFileio
<1>9. ASSUME NEW c \in Clients, ListBlock(c)
      PROVE  MutexHeldToChange' /\ InPlace'
  <2>1. pc[c] = "block" /\ UNCHANGED <<req>>
    BY <1>9 DEF ListBlock
  <2>2. CASE \E a : Finish(c, a)
    BY <1>5, <2>1, <2>2
  <2>3. CASE /\ req[c].op = "delete" /\ pc' = [pc EXCEPT ![c] = "command"]
             /\ UNCHANGED <<mu, ans>>
    BY <1>6, <2>1, <2>3
  <2> QED
    <3> HIDE DEF TypeOK, MutexHeldToChange, InPlace
    <3> QED
      BY <1>9, <2>2, <2>3 DEF ListBlock
<1>10. ASSUME NEW c \in Clients, Command(c)
       PROVE  MutexHeldToChange' /\ InPlace'
  <2>1. /\ \E a : Finish(c, a)
        /\ pc[c] = "command"
        /\ UNCHANGED req
    BY <1>10 DEF Command
  <2> QED
    BY <1>5, <2>1
<1>11. ASSUME NEW c \in Clients, Reply(c)
       PROVE  MutexHeldToChange' /\ InPlace'
  BY <1>11 DEF Reply, NoRequest, Request
<1>12. ASSUME NEW i \in AdminItems, Admin(i)
       PROVE  MutexHeldToChange' /\ InPlace'
  BY <1>12 DEF Admin
<1>13. CASE Crash
  BY <1>13, ConstantsOK DEF Crash
<1>14. CASE UNCHANGED vars
  BY <1>14 DEF vars
<1> QED
  BY <1>1, <1>2, <1>3, <1>4, <1>7, <1>8, <1>9, <1>10, <1>11, <1>12, <1>13, <1>14
     DEF Next, Serve, Step

LEMMA ControlInit == Init => MutexHeldToChange /\ InPlace
BY ConstantsOK DEF Init, MutexHeldToChange, InPlace, Serving

\* A mutex is held by exactly the request that works on its kind (the deferred
\* Unlock of the services), so that none is leaked, whatever the host does.
THEOREM MutexAlwaysHeldToChange == Spec => []MutexHeldToChange
<1> DEFINE Inv == TypeOK /\ MutexHeldToChange /\ InPlace
<1>1. Init => Inv
  BY TypeInit, ControlInit
<1>2. Inv /\ [Next]_vars => Inv'
  BY TypeStep, ControlStep
<1>3. Inv => MutexHeldToChange
  OBVIOUS
<1> QED
  BY <1>1, <1>2, <1>3, PTL DEF Spec

-----------------------------------------------------------------------------
\* Every step watches the host.
LEMMA AllWatch ==
  ASSUME Next
  PROVE  Watch
BY DEF Next, Serve, Step, Refuse, Accept, Expire, Lock, ListOfTarget, ListFileio,
   ListBlock, Command, Reply, Admin, Crash

\* What a step makes of the two sets of a request, by where it is afterwards.
LEMMA WatchEffect ==
  ASSUME Watch, NEW c \in Clients
  PROVE  /\ pc'[c] \in {"idle", "lock"} => always'[c] = Items /\ ever'[c] = {}
         /\ pc'[c] \notin {"idle", "lock"} /\ pc[c] = "reply" =>
              always'[c] = always[c] /\ ever'[c] = ever[c]
         /\ pc'[c] \notin {"idle", "lock"} /\ pc[c] # "reply" =>
              /\ always'[c] = always[c] \intersect {i \in host' : Concerns(req'[c], i)}
              /\ ever'[c] = ever[c] \union {i \in host' : Concerns(req'[c], i)}
BY DEF Watch

\* A handler that is about to end does that, or nothing.
LEMMA ReplyEnds ==
  ASSUME TypeOK, Next, NEW c \in Clients, pc[c] = "reply"
  PROVE  pc'[c] \in {"reply", "idle"}
<1> USE DEF TypeOK
<1>1. ASSUME NEW d \in Clients, pc[d] # "reply", NEW p, pc' = [pc EXCEPT ![d] = p]
      PROVE  pc'[c] = "reply"
  BY <1>1
<1>2. ASSUME NEW d \in Clients, NEW r \in Requests, Refuse(d, r) \/ Accept(d, r)
      PROVE  pc'[c] = "reply"
  BY <1>1, <1>2 DEF Refuse, Accept, Finish
<1>3. ASSUME NEW d \in Clients, Expire(d) \/ Lock(d) \/ Step(d)
      PROVE  pc'[c] = "reply"
  BY <1>1, <1>3 DEF Expire, Lock, Step, ListOfTarget, ListFileio, ListBlock,
     Command, Finish
<1>4. ASSUME NEW d \in Clients, Reply(d)
      PROVE  pc'[c] \in {"reply", "idle"}
  BY <1>4 DEF Reply
<1>5. ASSUME NEW i \in AdminItems, Admin(i)
      PROVE  pc'[c] = "reply"
  BY <1>5 DEF Admin
<1>6. CASE Crash
  BY <1>6 DEF Crash
<1> QED
  BY <1>2, <1>3, <1>4, <1>5, <1>6 DEF Next, Serve

\* The two sets enclose what is there: each step compares them with the host
\* that it leaves.
LEMMA WatchedStep ==
  ASSUME TypeOK, Watched, [Next]_vars
  PROVE  Watched'
<1>1. CASE UNCHANGED vars
  BY <1>1 DEF vars, Watched, About
<1>2. ASSUME Next, NEW c \in Clients
      PROVE  /\ pc'[c] \in {"idle", "lock"} => always'[c] = Items /\ ever'[c] = {}
             /\ pc'[c] \in Serving \ {"lock"} =>
                  always'[c] \subseteq About(c)' /\ About(c)' \subseteq ever'[c]
  <2>1. Watch
    BY <1>2, AllWatch
  <2>2. CASE pc'[c] \in {"idle", "lock"}
    BY <2>1, <2>2, WatchEffect DEF Serving
  <2>3. CASE pc'[c] \in Serving \ {"lock"}
    <3>1. pc[c] # "reply"
      BY <1>2, <2>3, ReplyEnds DEF Serving
    <3> QED
      BY <2>1, <2>3, <3>1, WatchEffect DEF Serving, About
  <2> QED
    BY <2>2, <2>3
<1> QED
  BY <1>1, <1>2 DEF Watched

-----------------------------------------------------------------------------
\* What is promised of each request by itself.
Kept(c) ==
  /\ SeenBy(c)
  /\ req[c].op = "list" /\ ans[c].status = "ok" =>
       Shown(always[c]) \subseteq ans[c].items /\ ans[c].items \subseteq Shown(ever[c])
  /\ StoresReadBack /\ ClearMessages =>
       (ResolvesType(req[c]) /\ ans[c].status = "ok" /\ ~ans[c].changed =>
          always[c] = {} \/ always[c] # ever[c])

LEMMA KeptIsAll ==
  (\A c \in Clients : Kept(c)) <=>
    /\ SeenHolds /\ ListingIsRegular
    /\ StoresReadBack /\ ClearMessages => NotFoundWasAbsent
BY DEF Kept, SeenHolds, ListingIsRegular, NotFoundWasAbsent

\* What others do may only make what was always there less, and what was ever
\* there more.
LEMMA Bystander ==
  ASSUME TypeOK, InPlace, Watched, Watch, NEW c \in Clients, Kept(c),
         pc'[c] = pc[c], req'[c] = req[c], seen'[c] = seen[c], ans'[c] = ans[c]
  PROVE  Kept(c)'
<1>1. pc[c] # "reply" => ans[c].status = "none"
  BY DEF InPlace, NoAnswer, Answer
<1>2. CASE pc[c] = "reply"
  BY <1>2, WatchEffect DEF Kept, SeenBy
<1>3. CASE pc[c] \in {"idle", "lock"}
  BY <1>1, <1>3 DEF Kept, SeenBy
<1>4. CASE pc[c] \notin {"idle", "lock", "reply"}
  <2>1. always'[c] \subseteq always[c] /\ ever[c] \subseteq ever'[c]
    BY <1>4, WatchEffect
  <2>2. /\ Shown({i \in always'[c] : i.slot[1] = "fileio"})
             \subseteq Shown({i \in always[c] : i.slot[1] = "fileio"})
        /\ Shown(ever[c]) \subseteq Shown(ever'[c])
    BY <2>1, ShownGrows
  <2> QED
    BY <1>1, <1>4, <2>1, <2>2 DEF Kept, SeenBy
<1> QED
  BY <1>2, <1>3, <1>4

\* A backstore is in the slot of its type and name.
LEMMA StoresTyped ==
  ASSUME NEW i \in Items, i.kind = "store"
  PROVE  /\ i.slot[1] \in Types
         /\ i.slot = <<i.slot[1], i.slot[2]>>
<1>1. PICK t \in Types : i.slot = <<t, i.slot[2]>>
  BY ConstantsOK
<1>2. i.slot[1] = t
  BY <1>1
<1> QED
  BY <1>1, <1>2

\* The command of a request is about what the request may mean.
LEMMA ResolvedIsMeant ==
  ASSUME NEW c \in Clients
  PROVE  /\ Resolved(c) \in Promise!Meant(req[c])
         /\ Resolved(c).op = req[c].op /\ Resolved(c).kind = req[c].kind
         /\ ~ResolvesType(req[c]) => Resolved(c) = req[c]
<1> USE DEF Promise!Meant, Promise!ResolvesType, ResolvesType, Request,
            Promise!Request, Types, Promise!Types
<1>1. CASE ResolvesType(req[c])
  <2>1. PICK t \in Types : Resolved(c) = Request("delete", "store", <<t, req[c].slot[2]>>, <<>>)
    BY <1>1 DEF Resolved
  <2> QED
    BY <1>1, <2>1
<1>2. CASE ~ResolvesType(req[c])
  BY <1>2 DEF Resolved
<1> QED
  BY <1>1, <1>2

\* The command of a deletion without a type is about a backstore that it saw.
LEMMA ResolvedWasSeen ==
  ASSUME TypeOK, NEW c \in Clients, SeenBy(c), pc[c] = "command", ResolvesType(req[c])
  PROVE  \E i \in seen[c] : i.kind = "store" /\ i.slot = Resolved(c).slot
<1> DEFINE type == IF \E i \in seen[c] : i.slot[1] = "fileio" THEN "fileio" ELSE "block"
<1>1. Resolved(c) = Request("delete", "store", <<type, req[c].slot[2]>>, <<>>)
  BY DEF Resolved
<1>2. PICK i \in seen[c] : i.slot[1] = type
  <2>1. \A i \in seen[c] : i \in Items /\ i.kind = "store"
    BY DEF TypeOK, SeenBy, Concerns, ResolvesType
  <2>2. \A i \in seen[c] : i.slot[1] \in {"fileio", "block"}
    BY <2>1, StoresTyped DEF Types
  <2> QED
    BY <2>2 DEF SeenBy
<1>3. i \in Items /\ i.kind = "store" /\ i.slot[2] = req[c].slot[2]
  BY DEF TypeOK, SeenBy, Concerns, ResolvesType
<1>4. i.slot = <<type, req[c].slot[2]>>
  BY <1>2, <1>3, StoresTyped
<1>5. Resolved(c).slot = i.slot
  BY <1>1, <1>4 DEF Request
<1> QED
  BY <1>3, <1>5

\* A deletion is told "already so" by the words of its error only if nothing
\* was there.
LEMMA DeletionJudged ==
  ASSUME ClearMessages, NEW r, r.op = "delete", r.kind = "store", NEW h,
         NEW f \in Faults(r, h) \union {"killed"}, NEW m \in Messages(r, f),
         Judged(r, m) = Done(FALSE)
  PROVE  f = "absent" /\ At(r, h) = {}
<1>1. AlreadyDone(r, m)
  BY DEF Judged, Done, Missing, Failed, Answer
<1>2. m \intersect WordsOf["store"].gone # {}
  BY <1>1, Zenon DEF AlreadyDone
<1>3. PICK n \in Says["store"][f] : m \subseteq n \union {"exists"}
  BY DEF Messages
<1>4. n \intersect WordsOf["store"].gone # {}
  BY <1>2, <1>3 DEF WordsOf, BackstoreWords
<1>5. f \in {"absent", "killed"}
  BY DEF Faults, HasTarget
<1>6. f # "killed"
  BY <1>3, <1>4 DEF ClearMessages, Kinds, Reasons
<1> QED
  BY <1>5, <1>6 DEF Faults

-----------------------------------------------------------------------------
\* An action of one request leaves the others as they are.
Alone(c) ==
  \A d \in Clients \ {c} :
    pc'[d] = pc[d] /\ req'[d] = req[d] /\ seen'[d] = seen[d] /\ ans'[d] = ans[d]

LEMMA ServedAlone ==
  ASSUME TypeOK, NEW c \in Clients, Serve(c)
  PROVE  Alone(c)
<1> USE DEF TypeOK, Alone
<1>1. ASSUME NEW r \in Requests, Refuse(c, r) \/ Accept(c, r)
      PROVE  Alone(c)
  BY <1>1 DEF Refuse, Accept, Finish
<1>2. CASE Expire(c) \/ Lock(c) \/ ListOfTarget(c) \/ Reply(c)
  BY <1>2 DEF Expire, Lock, ListOfTarget, Reply, Finish
<1>3. CASE ListFileio(c)
  BY <1>3 DEF ListFileio, Finish
<1>4. CASE ListBlock(c)
  BY <1>4 DEF ListBlock, Finish
<1>5. CASE Command(c)
  <2>1. UNCHANGED req /\ \E a : Finish(c, a)
    BY <1>5 DEF Command
  <2> QED
    BY <2>1 DEF Finish
<1> QED
  BY <1>1, <1>2, <1>3, <1>4, <1>5 DEF Serve, Step

\* What there is of what a request asks about, when it has been served in a step.
LEMMA Served ==
  ASSUME TypeOK, Watch, NEW c \in Clients, pc[c] \in Serving,
         pc'[c] \notin {"idle", "lock"}, req'[c] = req[c]
  PROVE  /\ always'[c] = always[c] \intersect {i \in host' : Concerns(req[c], i)}
         /\ ever'[c] = ever[c] \union {i \in host' : Concerns(req[c], i)}
BY WatchEffect DEF Serving

\* After both commands no line of what was there all the time is missing.
LEMMA AllSeen ==
  ASSUME TypeOK, NEW c \in Clients, SeenBy(c), pc[c] = "block",
         req[c].kind = "store",
         always[c] \subseteq {i \in host : Concerns(req[c], i)}
  PROVE  Shown(always[c]) \subseteq SeenWith(c, "block")
<1>1. ASSUME NEW i \in always[c], NEW j \in ReadAs[i]
      PROVE  j \in SeenWith(c, "block")
  <2>1. i \in Items /\ i \in host /\ i.kind = "store"
    BY DEF Concerns, TypeOK
  <2>2. i.slot[1] \in {"fileio", "block"}
    BY <2>1, StoresTyped DEF Types
  <2>3. CASE i.slot[1] = "fileio"
    BY <1>1, <2>3, SeenTyped DEF SeenBy, Shown
  <2>4. CASE i.slot[1] = "block"
    BY <1>1, <2>1, <2>4, SeenTyped DEF Shown, OfType
  <2> QED
    BY <2>2, <2>3, <2>4
<1> QED
  BY <1>1 DEF Shown

\* Nor is there one of what never was.
LEMMA NoneInvented ==
  ASSUME TypeOK, NEW c \in Clients, SeenBy(c), pc[c] = "block", req[c].kind = "store",
         NEW about, about = {i \in host : Concerns(req[c], i)}
  PROVE  /\ \A i \in SeenWith(c, "block") : i \in Items /\ i.kind = "store"
         /\ req[c].op = "list" => SeenWith(c, "block") \subseteq Shown(ever[c] \union about)
         /\ StoresReadBack =>
              \A i \in SeenWith(c, "block") :
                Concerns(req[c], i) => i \in ever[c] \union about
<1> DEFINE blocks == OfType("block")
<1>1. SeenWith(c, "block") = seen[c] \union Shown(blocks)
  BY SeenTyped
<1>2. \A i \in SeenWith(c, "block") : i \in Items /\ i.kind = "store"
  BY <1>1, SeenTyped DEF SeenBy
<1>3. ASSUME req[c].op = "list"
      PROVE  SeenWith(c, "block") \subseteq Shown(ever[c] \union about)
  <2>1. blocks \subseteq ever[c] \union about
    BY <1>3 DEF Concerns, OfType
  <2>2. /\ Shown(blocks) \subseteq Shown(ever[c] \union about)
        /\ Shown(ever[c]) \subseteq Shown(ever[c] \union about)
    BY <2>1, ShownGrows
  <2>3. seen[c] \subseteq Shown(ever[c])
    BY <1>3 DEF SeenBy
  <2> QED
    BY <1>1, <2>2, <2>3
<1>4. ASSUME StoresReadBack, NEW i \in SeenWith(c, "block"), Concerns(req[c], i)
      PROVE  i \in ever[c] \union about
  <2>1. Shown(blocks) = blocks
    BY <1>4, StoresShown DEF OfType, TypeOK
  <2>2. i \in seen[c] \/ i \in host
    BY <1>1, <1>4, <2>1 DEF OfType
  <2> QED
    BY <1>4, <2>2 DEF SeenBy
<1> QED
  BY <1>2, <1>3, <1>4

\* A listing, in whichever way, and a search for a type, keep what is promised
\* of them with each command.
LEMMA ServeKeeps ==
  ASSUME TypeOK, InPlace, Watched, NEW c \in Clients, Kept(c), Serve(c)
  PROVE  Kept(c)'
<1> USE DEF TypeOK, Kept, SeenBy
<1>1. Watch
  BY DEF Serve, Step, Refuse, Accept, Expire, Lock, ListOfTarget, ListFileio,
     ListBlock, Command, Reply
<1>2. ASSUME NEW a, a.status # "ok", Finish(c, a)
      PROVE  Kept(c)'
  BY <1>2 DEF Finish
<1>3. Failed.status # "ok" /\ Missing.status # "ok" /\ Refused.status # "ok"
  BY DEF Failed, Missing, Refused, Answer
<1>4. ASSUME NEW r \in Requests, Refuse(c, r)
      PROVE  Kept(c)'
  BY <1>2, <1>3, <1>4 DEF Refuse
<1>5. ASSUME NEW r \in Requests, Accept(c, r)
      PROVE  Kept(c)'
  <2>1. ans'[c].status # "ok"
    BY <1>5 DEF Accept, InPlace, NoAnswer, Answer
  <2>2. FirstStep(r) \in {"lock", "fileio", "ls"}
    BY DEF FirstStep
  <2> QED
    BY <1>5, <2>1, <2>2 DEF Accept
<1>6. CASE Expire(c)
  BY <1>1, <1>6, Bystander DEF Expire
<1>7. CASE Lock(c)
  <2>1. ans'[c].status # "ok"
    BY <1>7 DEF Lock, InPlace, NoAnswer, Answer
  <2> QED
    BY <1>7, <2>1 DEF Lock
<1>8. CASE ListOfTarget(c)
  <2>1. CASE Finish(c, Failed)
    BY <1>2, <1>3, <2>1
  <2>2. CASE Finish(c, Listed(Shown({i \in host : Concerns(req[c], i)})))
    <3> DEFINE about == {i \in host : Concerns(req[c], i)}
    <3>1. always'[c] = always[c] \intersect about /\ ever'[c] = ever[c] \union about
      BY <1>1, <1>8, <2>2, Served DEF ListOfTarget, Finish, Serving
    <3>2. ans'[c].items = Shown(about)
      BY <2>2 DEF Finish, Listed, Answer
    <3>3. ~ResolvesType(req'[c])
      BY <1>8 DEF ListOfTarget, InPlace, ResolvesType
    <3>4. Shown(always'[c]) \subseteq Shown(about) /\ Shown(about) \subseteq Shown(ever'[c])
      BY <3>1, ShownGrows
    <3> HIDE DEF about
    <3> QED
      BY <1>8, <2>2, <3>2, <3>3, <3>4 DEF ListOfTarget, Finish
  <2> QED
    BY <1>8, <2>1, <2>2 DEF ListOfTarget
<1>9. CASE ListFileio(c)
  <2>1. CASE Finish(c, Failed)
    BY <1>2, <1>3, <2>1
  <2>2. CASE /\ seen' = [seen EXCEPT ![c] = SeenWith(c, "fileio")]
             /\ pc' = [pc EXCEPT ![c] = "block"]
             /\ UNCHANGED <<mu, cut, ans>>
    <3>1. /\ always'[c] = always[c] \intersect {i \in host : Concerns(req[c], i)}
          /\ ever'[c] = ever[c] \union {i \in host : Concerns(req[c], i)}
      BY <1>1, <1>9, <2>2, Served DEF ListFileio, Serving
    <3>2. req[c].kind = "store"
      BY <1>9 DEF ListFileio, InPlace, ResolvesType
    <3> DEFINE files == OfType("fileio")
    <3>3. seen'[c] = Shown(files) /\ \A j \in seen'[c] : j.kind = "store"
      <4>1. pc[c] = "fileio" /\ seen[c] = {} /\ seen'[c] = SeenWith(c, "fileio")
        BY <1>9, <2>2 DEF ListFileio
      <4>2. /\ SeenWith(c, "fileio") = seen[c] \union Shown(files)
            /\ \A j \in Shown(files) : j.kind = "store"
        BY SeenTyped
      <4> QED
        BY <4>1, <4>2
    <3>4. Shown({i \in always'[c] : i.slot[1] = "fileio"}) \subseteq seen'[c]
      <4>1. {i \in always'[c] : i.slot[1] = "fileio"} \subseteq files
        BY <3>1, <3>2 DEF Concerns, OfType
      <4> QED
        BY <3>3, <4>1, ShownGrows
    <3>5. ans'[c].status # "ok"
      BY <1>9, <2>2 DEF ListFileio, InPlace, NoAnswer, Answer
    <3>6. req[c].op = "list" => seen'[c] \subseteq Shown(ever'[c])
      <4>1. req[c].op = "list" => files \subseteq ever'[c]
        BY <3>1, <3>2 DEF Concerns, OfType
      <4> QED
        BY <3>3, <4>1, ShownGrows
    <3>7. StoresReadBack => \A i \in seen'[c] : Concerns(req[c], i) => i \in ever'[c]
      <4>1. ASSUME StoresReadBack
            PROVE  seen'[c] \subseteq host
        <5>1. Shown(files) = files
          BY <4>1, StoresShown DEF OfType
        <5> QED
          BY <3>3, <5>1 DEF OfType
      <4> QED
        BY <3>1, <4>1
    <3> HIDE DEF files
    <3> QED
      BY <1>9, <2>2, <3>3, <3>4, <3>5, <3>6, <3>7 DEF ListFileio
  <2> QED
    BY <1>9, <2>1, <2>2 DEF ListFileio
<1>10. CASE ListBlock(c)
  <2> DEFINE all == SeenWith(c, "block")
             about == {i \in host : Concerns(req[c], i)}
  <2>1. pc[c] = "block" /\ UNCHANGED <<host, req>>
    BY <1>10 DEF ListBlock
  <2>2. req[c].kind = "store"
    BY <2>1 DEF InPlace, ResolvesType
  <2>3. about \in SUBSET Items /\ always[c] \subseteq about
    BY <2>1 DEF Watched, About, Serving
\* No line of what was there all the time has been overlooked.
  <2>4. Shown(always[c]) \subseteq all
    BY <1>1, <2>1, <2>2, <2>3, AllSeen
\* Nothing has been seen that never was.
  <2>5. /\ \A i \in all : i \in Items /\ i.kind = "store"
        /\ req[c].op = "list" => all \subseteq Shown(ever[c] \union about)
        /\ StoresReadBack =>
             \A i \in all : Concerns(req[c], i) => i \in ever[c] \union about
    BY <2>1, <2>2, NoneInvented
  <2>6. pc'[c] \notin {"idle", "lock"} =>
          always'[c] = always[c] \intersect about /\ ever'[c] = ever[c] \union about
    BY <1>1, <2>1, Served DEF Serving
  <2>7. CASE Finish(c, Failed)
    BY <1>2, <1>3, <2>7
  <2>8. CASE req[c].op = "list" /\ Finish(c, Listed(all))
    <3>1. ans'[c].items = all /\ pc'[c] = "reply" /\ seen'[c] = {}
      BY <2>1, <2>8 DEF Finish, Listed, Answer
    <3>2. ~ResolvesType(req'[c])
      BY <2>1, <2>8 DEF ResolvesType
    <3>3. Shown(always'[c]) \subseteq Shown(always[c])
      BY <2>6, <3>1, ShownGrows
    <3> HIDE DEF all, about
    <3> QED
      BY <2>1, <2>4, <2>5, <2>6, <2>8, <3>1, <3>2, <3>3
  <2>9. CASE req[c].op = "delete" /\ Named(c, all) = {} /\ Finish(c, Done(FALSE))
    <3>1. StoresReadBack => always[c] = {}
      <4>1. ASSUME StoresReadBack, NEW i \in always[c]
            PROVE  i \in Named(c, all)
        <5>1. Shown(always[c]) = always[c]
          BY <2>2, <2>3, <4>1, StoresShown DEF Concerns
        <5> QED
          BY <2>1, <2>3, <2>4, <2>9, <4>1, <5>1 DEF Named, Concerns, InPlace, ResolvesType
      <4> QED
        BY <2>9, <4>1
    <3>2. pc'[c] = "reply" /\ seen'[c] = {} /\ (StoresReadBack => always'[c] = {})
      BY <2>1, <2>6, <2>9, <3>1 DEF Finish
    <3>3. req'[c].op # "list"
      BY <2>1, <2>9
    <3> QED
      BY <3>2, <3>3
  <2>10. CASE /\ req[c].op = "delete" /\ Named(c, all) # {}
              /\ seen' = [seen EXCEPT ![c] = Named(c, all)]
              /\ pc' = [pc EXCEPT ![c] = "command"]
              /\ UNCHANGED <<mu, cut, ans>>
    <3>1. ans'[c].status # "ok" /\ pc'[c] = "command" /\ seen'[c] = Named(c, all)
      BY <2>1, <2>10 DEF InPlace, NoAnswer, Answer
    <3>2. ResolvesType(req[c])
      BY <2>1, <2>10 DEF InPlace
    <3>3. \A i \in Named(c, all) : i \in all /\ Concerns(req[c], i)
      BY <2>2, <2>5, <3>2 DEF Named, Concerns
    <3> HIDE DEF all, about
    <3>4. StoresReadBack => Named(c, all) \subseteq ever'[c]
      BY <2>5, <2>6, <3>1, <3>3
    <3> QED
      BY <2>1, <2>10, <3>1, <3>3, <3>4
  <2> QED
    BY <1>10, <2>7, <2>8, <2>9, <2>10 DEF ListBlock
<1>11. CASE Command(c)
  <2> DEFINE r == Resolved(c)
  <2>1. PICK a : Finish(c, a)
    BY <1>11 DEF Command
  <2>2. pc[c] = "command" /\ UNCHANGED req /\ req[c].op # "list"
    BY <1>11 DEF Command, InPlace
  <2>3. pc'[c] = "reply" /\ seen'[c] = {} /\ ans'[c] = a
    BY <2>1, <2>2 DEF Finish
  <2>4. ASSUME StoresReadBack, ClearMessages,
               ResolvesType(req[c]), a.status = "ok", ~a.changed
        PROVE  always'[c] # ever'[c]
    <3>1. PICK f \in Faults(r, host) \union {"killed"} : \E m \in Messages(r, f) :
                 a = Judged(r, m) /\ (f # "killed" => UNCHANGED host)
      <4> HIDE DEF r
      <4>1. \A b : Finish(c, b) => b = a
        BY <2>3 DEF Finish
      <4>2. a # Done(TRUE)
        BY <2>4 DEF Done, Answer
      <4>3. \/ /\ \E f \in Faults(r, host) : \E m \in Messages(r, f) : Finish(c, Judged(r, m))
               /\ UNCHANGED host
            \/ /\ host' \in {host} \union (IF Faults(r, host) = {} THEN Effects(r, host) ELSE {})
               /\ \E f \in Faults(r, host) \union {"killed"} :
                    \E m \in Messages(r, f) : Finish(c, Judged(r, m))
        BY <1>11, <4>1, <4>2 DEF Command, r
      <4>4. CASE /\ \E f \in Faults(r, host) : \E m \in Messages(r, f) : Finish(c, Judged(r, m))
                 /\ UNCHANGED host
        BY <4>1, <4>4
      <4>5. CASE /\ host' \in {host} \union (IF Faults(r, host) = {} THEN Effects(r, host) ELSE {})
                 /\ \E f \in Faults(r, host) \union {"killed"} :
                      \E m \in Messages(r, f) : Finish(c, Judged(r, m))
        BY <4>1, <4>5
      <4> QED
        BY <4>3, <4>4, <4>5
    <3>2. a = Done(FALSE)
      BY <1>3, <2>4, <3>1, JudgedTyped
    <3>3. r.op = "delete" /\ r.kind = "store"
      BY <2>4 DEF Resolved, Request
    <3>4. UNCHANGED host /\ At(r, host) = {}
      BY <2>4, <3>1, <3>2, <3>3, DeletionJudged
    <3>5. PICK i \in seen[c] : i.kind = "store" /\ i.slot = r.slot
      BY <2>2, <2>4, ResolvedWasSeen
    <3>6. i \notin host /\ i \in ever[c]
      BY <2>2, <2>4, <3>3, <3>4, <3>5 DEF At
    <3> QED
      BY <1>1, <2>2, <2>3, <3>4, <3>6, Served DEF Serving
  <2> QED
    BY <2>2, <2>3, <2>4
<1>12. CASE Reply(c)
  BY <1>12 DEF Reply, NoRequest, Request, NoAnswer, Answer
<1> QED
  BY <1>4, <1>5, <1>6, <1>7, <1>8, <1>9, <1>10, <1>11, <1>12 DEF Serve, Step

LEMMA KeptStep ==
  ASSUME TypeOK, InPlace, Watched, [Next]_vars, \A c \in Clients : Kept(c)
  PROVE  \A c \in Clients : Kept(c)'
<1> SUFFICES ASSUME NEW d \in Clients
             PROVE  Kept(d)'
  OBVIOUS
<1>1. ASSUME NEW c \in Clients, Serve(c)
      PROVE  Kept(d)'
  <2>1. CASE d = c
    BY <1>1, <2>1, ServeKeeps
  <2>2. CASE d # c
    <3>1. Watch
      BY <1>1, AllWatch DEF Next
    <3> QED
      BY <1>1, <2>2, <3>1, ServedAlone, Bystander DEF Alone
  <2> QED
    BY <2>1, <2>2
<1>2. ASSUME NEW i \in AdminItems, Admin(i)
      PROVE  Kept(d)'
  BY <1>2, Bystander DEF Admin
<1>3. CASE Crash
  BY <1>3 DEF Crash, Kept, SeenBy, NoRequest, Request, NoAnswer, Answer
<1>4. CASE UNCHANGED vars
  BY <1>4 DEF vars, Kept, SeenBy
<1> QED
  BY <1>1, <1>2, <1>3, <1>4 DEF Next

LEMMA InitIInv == Init => IInv
<1> SUFFICES ASSUME Init PROVE IInv
  OBVIOUS
<1>1. TypeOK /\ MutexHeldToChange /\ InPlace
  BY TypeInit, ControlInit
<1>2. Watched
  BY DEF Init, Watched, Serving
<1>3. \A c \in Clients : Kept(c)
  BY DEF Init, Kept, SeenBy, NoRequest, Request, NoAnswer, Answer
<1> QED
  BY <1>1, <1>2, <1>3, KeptIsAll DEF IInv

\* The invariant holds throughout, whatever the lines of a listing are read as
\* and whatever targetcli prints.
THEOREM Invariance == Spec => []IInv
<1>1. IInv /\ [Next]_vars => IInv'
  <2> SUFFICES ASSUME IInv, [Next]_vars
               PROVE  IInv'
    OBVIOUS
  <2>1. TypeOK' /\ MutexHeldToChange' /\ InPlace' /\ Watched'
    BY TypeStep, ControlStep, WatchedStep DEF IInv
  <2>2. (\A c \in Clients : Kept(c))'
    BY KeptIsAll, KeptStep DEF IInv
  <2>3. (/\ SeenHolds /\ ListingIsRegular
         /\ StoresReadBack /\ ClearMessages => NotFoundWasAbsent)'
    BY <2>2 DEF Kept, SeenHolds, ListingIsRegular, NotFoundWasAbsent
  <2> QED
    BY <2>1, <2>3 DEF IInv
<1> QED
  BY <1>1, InitIInv, PTL DEF Spec

\* A listing, of backstores by two commands without a lock too, shows the lines of
\* all that was there throughout and of nothing that never was (ListBackstores),
\* whatever the driver reads out of a line.
THEOREM ListingsAreRegular == Spec => []ListingIsRegular
<1>1. IInv => ListingIsRegular
  BY DEF IInv
<1> QED
  BY <1>1, Invariance, PTL

\* "not found", said of a deletion without a type, overlooks no backstore
\* (BackstoresService.Delete).
THEOREM NothingIsOverlooked ==
  ASSUME StoresReadBack, ClearMessages
  PROVE  Spec => []NotFoundWasAbsent
<1>1. IInv => NotFoundWasAbsent
  BY StoresReadBack, ClearMessages DEF IInv
<1> QED
  BY <1>1, Invariance, PTL

-----------------------------------------------------------------------------
\* What a service makes of each message that may come for a reason, when targetcli
\* speaks clearly and the command line spells no word of its own.
LEMMA JudgedRight ==
  ASSUME ClearMessages, NEW r, Parts(r) \intersect Spelling = {}, r.kind \in Kinds,
         NEW f \in Reasons, NEW m \in Messages(r, f)
  PROVE  /\ r.op = "create" => (AlreadyDone(r, m) <=> f = "taken")
         /\ r.op # "create" => /\ f = "absent" => AlreadyDone(r, m)
                               /\ f = "killed" => ~AlreadyDone(r, m)
         /\ f \in {"other", "killed"} => ~TargetMissing(r, m)
<1>1. m \in Says[r.kind][f]
  BY DEF Messages
<1>2. /\ f = "taken" <=> m \intersect WordsOf[r.kind].exists # {}
      /\ f = "absent" => m \intersect WordsOf[r.kind].gone # {}
      /\ f = "killed" => m \intersect WordsOf[r.kind].gone = {}
      /\ f \in {"other", "killed"} => m \intersect TargetWords = {}
  BY <1>1 DEF ClearMessages
<1>3. CASE r.op = "create"
  BY <1>2, <1>3, Zenon DEF AlreadyDone, TargetMissing
<1>4. CASE r.op # "create"
  BY <1>2, <1>4, Zenon DEF AlreadyDone, TargetMissing
<1> QED
  BY <1>3, <1>4

\* What a changing command comes to.
Outcome(c, r) ==
  \/ /\ Faults(r, host) = {}
     /\ host' \in Effects(r, host)
     /\ Finish(c, Done(TRUE))
  \/ /\ IF r.op = "create" THEN "taken" \in Faults(r, host)
        ELSE Faults(r, host) \intersect {"absent", "no path"} # {}
     /\ UNCHANGED host
     /\ Finish(c, Done(FALSE))
  \/ /\ r.kind = "portal" /\ "no path" \in Faults(r, host)
     /\ UNCHANGED host
     /\ Finish(c, Missing)
  \/ /\ cut[c] \/ Faults(r, host) \intersect {"no path", "other"} # {}
     /\ UNCHANGED host
     /\ Finish(c, Failed)
  \/ /\ cut[c] /\ Faults(r, host) = {}
     /\ host' \in Effects(r, host)
     /\ Finish(c, Failed)

LEMMA CommandOutcome ==
  ASSUME TypeOK, ClearMessages, NothingSpelled, NEW c \in Clients, Command(c)
  PROVE  Outcome(c, Resolved(c))
<1> SUFFICES ASSUME NEW r, r = Resolved(c)
             PROVE  Outcome(c, r)
  OBVIOUS
<1>1. Parts(r) \intersect Spelling = {} /\ r.kind \in Kinds
  <2>1. req[c] \in Requests /\ req[c].kind \in Kinds
    BY RequestsKnown DEF Command
  <2> QED
    BY <2>1, ResolvedIsMeant DEF NothingSpelled
<1>2. r.op = "create" \/ Faults(r, host) \intersect {"taken", "other"} = {}
  BY DEF Faults
<1>3. r.op = "delete" \/ "absent" \notin Faults(r, host)
  BY DEF Faults
<1>4. Faults(r, host) \subseteq {"no path", "taken", "absent", "other"}
  BY DEF Faults
<1>5. ASSUME NEW f \in Faults(r, host) \union {"killed"}, NEW m \in Messages(r, f)
      PROVE  /\ r.op = "create" => (AlreadyDone(r, m) <=> f = "taken")
             /\ r.op # "create" => /\ f = "absent" => AlreadyDone(r, m)
                                   /\ f = "killed" => ~AlreadyDone(r, m)
             /\ f \in {"other", "killed"} => ~TargetMissing(r, m)
  <2>1. f \in Reasons
    BY <1>4 DEF Reasons
  <2> QED
    BY <1>1, <1>5, <2>1, JudgedRight
<1>6. ASSUME NEW f \in Faults(r, host) \union {"killed"}, NEW m \in Messages(r, f),
             Finish(c, Judged(r, m)), UNCHANGED host, f = "killed" => cut[c]
      PROVE  Outcome(c, r)
  <2>1. CASE AlreadyDone(r, m)
    <3>1. Judged(r, m) = Done(FALSE)
      BY <2>1, Zenon DEF Judged
    <3>2. IF r.op = "create" THEN f = "taken" ELSE f \in {"absent", "no path"}
      BY <1>2, <1>4, <1>5, <2>1
    <3>3. f # "killed"
      BY <3>2
    <3>4. IF r.op = "create" THEN "taken" \in Faults(r, host)
          ELSE Faults(r, host) \intersect {"absent", "no path"} # {}
      BY <3>2, <3>3
    <3> QED
      BY <1>6, <3>1, <3>4 DEF Outcome
  <2>2. CASE ~AlreadyDone(r, m) /\ TargetMissing(r, m)
    <3>1. Judged(r, m) = Missing
      BY <2>2, Zenon DEF Judged
    <3>2. r.kind = "portal" /\ f = "no path"
      BY <1>2, <1>3, <1>4, <1>5, <2>2 DEF TargetMissing
    <3> QED
      BY <1>6, <3>1, <3>2 DEF Outcome
  <2>3. CASE ~AlreadyDone(r, m) /\ ~TargetMissing(r, m)
    <3>1. Judged(r, m) = Failed
      BY <2>3, Zenon DEF Judged
    <3>2. f = "killed" \/ f \in {"no path", "other"}
      BY <1>2, <1>3, <1>4, <1>5, <2>3
    <3>3. cut[c] \/ Faults(r, host) \intersect {"no path", "other"} # {}
      BY <1>6, <3>2
    <3> QED
      BY <1>6, <3>1, <3>3 DEF Outcome
  <2> QED
    BY <2>1, <2>2, <2>3
<1>7. ASSUME Faults(r, host) = {}, cut[c], host' \in Effects(r, host),
             NEW f \in Faults(r, host) \union {"killed"}, NEW m \in Messages(r, f),
             Finish(c, Judged(r, m))
      PROVE  Outcome(c, r)
  <2>1. ~AlreadyDone(r, m) /\ ~TargetMissing(r, m)
    BY <1>5, <1>7
  <2>2. Judged(r, m) = Failed
    BY <2>1, Zenon DEF Judged
  <2> QED
    BY <1>7, <2>2 DEF Outcome
<1>8. \/ /\ ~cut[c] /\ Faults(r, host) = {}
         /\ host' \in Effects(r, host)
         /\ Finish(c, Done(TRUE))
      \/ /\ ~cut[c]
         /\ \E f \in Faults(r, host) : \E m \in Messages(r, f) : Finish(c, Judged(r, m))
         /\ UNCHANGED host
      \/ /\ cut[c]
         /\ host' \in {host} \union (IF Faults(r, host) = {} THEN Effects(r, host) ELSE {})
         /\ \E f \in Faults(r, host) \union {"killed"} :
              \E m \in Messages(r, f) : Finish(c, Judged(r, m))
  BY DEF Command
<1>9. CASE /\ ~cut[c] /\ Faults(r, host) = {}
           /\ host' \in Effects(r, host)
           /\ Finish(c, Done(TRUE))
  BY <1>9 DEF Outcome
<1>10. CASE /\ ~cut[c]
            /\ \E f \in Faults(r, host) : \E m \in Messages(r, f) : Finish(c, Judged(r, m))
            /\ UNCHANGED host
  <2>1. PICK f \in Faults(r, host) : \E m \in Messages(r, f) : Finish(c, Judged(r, m))
    BY <1>10
  <2>2. PICK m \in Messages(r, f) : Finish(c, Judged(r, m))
    BY <2>1
  <2> QED
    BY <1>4, <1>6, <1>10, <2>2
<1>11. CASE /\ cut[c]
            /\ host' \in {host} \union (IF Faults(r, host) = {} THEN Effects(r, host) ELSE {})
            /\ \E f \in Faults(r, host) \union {"killed"} :
                 \E m \in Messages(r, f) : Finish(c, Judged(r, m))
  <2>1. PICK f \in Faults(r, host) \union {"killed"} :
               \E m \in Messages(r, f) : Finish(c, Judged(r, m))
    BY <1>11
  <2>2. PICK m \in Messages(r, f) : Finish(c, Judged(r, m))
    BY <2>1
  <2>3. CASE UNCHANGED host
    BY <1>6, <1>11, <2>2, <2>3
  <2>4. CASE Faults(r, host) = {} /\ host' \in Effects(r, host)
    BY <1>7, <1>11, <2>2, <2>4
  <2> QED
    BY <1>11, <2>3, <2>4
<1> QED
  BY <1>8, <1>9, <1>10, <1>11

-----------------------------------------------------------------------------
\* The two modules speak of the same host and of the same answers.
LEMMA SameHost ==
  /\ \A r, h : Promise!Faults(r, h) = Faults(r, h)
  /\ \A r, h : Promise!Effects(r, h) = Effects(r, h)
  /\ \A r, h : Promise!At(r, h) = At(r, h)
  /\ \A r, h : Promise!HasTarget(r, h) <=> HasTarget(r, h)
  /\ \A r, i : Promise!Concerns(r, i) <=> Concerns(r, i)
  /\ \A r : Promise!ResolvesType(r) <=> ResolvesType(r)
  /\ \A i, h : Promise!Operated(i, h) = Operated(i, h)
  /\ \A S : Promise!Shown(S) = Shown(S)
  /\ \A r : Promise!Wanted(r) = Item(r.kind, r.slot, r.store)
<1>1. /\ \A r, h : Promise!HasTarget(r, h) <=> HasTarget(r, h)
      /\ \A r, h : Promise!HasStore(r, h) <=> HasStore(r, h)
      /\ \A r, h : Promise!At(r, h) = At(r, h)
      /\ \A r, h : Promise!Placed(r, h) = Placed(r, h)
  BY DEF Item, Promise!Item, HasTarget, Promise!HasTarget, HasStore, Promise!HasStore,
     At, Promise!At, Placed, Promise!Placed
<1>2. \A S, h : Promise!Without(S, h) = Without(S, h)
  BY DEF Without, Promise!Without, HangsOn, Promise!HangsOn, Kinds, Promise!Kinds
<1>3. \A r, h : Promise!Faults(r, h) = Faults(r, h)
  <2>1. SUFFICES ASSUME NEW r, NEW h
                 PROVE  \A f : f \in Promise!Faults(r, h) <=> f \in Faults(r, h)
    BY DEF Faults, Promise!Faults
  <2>2. /\ Promise!HasTarget(r, h) <=> HasTarget(r, h)
        /\ Promise!HasStore(r, h) <=> HasStore(r, h)
        /\ Promise!At(r, h) = At(r, h)
        /\ Promise!Placed(r, h) = Placed(r, h)
    BY <1>1
  <2> QED
    BY <2>2 DEF Faults, Promise!Faults
<1>4. \A r, h : Promise!Effects(r, h) = Effects(r, h)
  BY <1>1, <1>2 DEF Effects, Promise!Effects
<1>5. \A i, h : Promise!Operated(i, h) = Operated(i, h)
  BY <1>1, <1>2 DEF Operated, Promise!Operated, Founded, Promise!Founded
<1>6. /\ \A r : Promise!ResolvesType(r) <=> ResolvesType(r)
      /\ \A r, i : Promise!Concerns(r, i) <=> Concerns(r, i)
  BY DEF Concerns, Promise!Concerns, ResolvesType, Promise!ResolvesType
<1>7. /\ \A S : Promise!Shown(S) = Shown(S)
      /\ \A r : Promise!Wanted(r) = Item(r.kind, r.slot, r.store)
  BY DEF Shown, Promise!Shown, Promise!Wanted, Item, Promise!Item
<1> QED
  BY <1>1, <1>3, <1>4, <1>5, <1>6, <1>7

LEMMA SameAnswers ==
  /\ Promise!Failed = Failed /\ Promise!Missing = Missing /\ Promise!Refused = Refused
  /\ Promise!NoAnswer = NoAnswer /\ Promise!NoRequest = NoRequest
  /\ \A b : Promise!Done(b) = Done(b)
  /\ \A S : Promise!Listed(S) = Listed(S)
BY DEF Failed, Missing, Refused, NoAnswer, NoRequest, Done, Listed, Answer, Request,
   Promise!Failed, Promise!Missing, Promise!Refused, Promise!NoAnswer,
   Promise!NoRequest, Promise!Done, Promise!Listed, Promise!Answer, Promise!Request

LEMMA PhasesTold ==
  \A p : /\ Phase(p) \in {"idle", "open"} <=> p \in {"idle", "lock"}
         /\ Phase(p) = "idle" <=> p = "idle"
         /\ Phase(p) = "open" <=> p = "lock"
         /\ Phase(p) = "closed" <=> p = "reply"
         /\ Phase(p) = "served" <=> p \notin {"idle", "lock", "reply"}
BY DEF Phase

LEMMA GotoMaps ==
  ASSUME TypeOK, NEW c \in Clients, NEW p, pc' = [pc EXCEPT ![c] = p]
  PROVE  Promise!Goto(c, Phase(p))
BY DEF TypeOK, Promise!Goto

\* The service returns where the promised call is over.
LEMMA FinishMaps ==
  ASSUME TypeOK, NEW c \in Clients, NEW a, Finish(c, a)
  PROVE  Promise!Close(c, a)
<1>1. Promise!Goto(c, Phase("reply"))
  BY GotoMaps DEF Finish
<1>2. Phase("reply") = "closed"
  BY PhasesTold
<1> QED
  BY <1>1, <1>2 DEF Finish, Promise!Close

LEMMA WatchMaps ==
  ASSUME Watch
  PROVE  Promise!Watch
<1> DEFINE about(c) == {i \in host' : Concerns(req'[c], i)}
<1>1. \A c \in Clients :
        /\ Phase(pc[c])' \in {"idle", "open"} <=> pc'[c] \in {"idle", "lock"}
        /\ Phase(pc[c]) = "closed" <=> pc[c] = "reply"
  BY PhasesTold
<1>2. \A c : about(c) = {i \in host' : Promise!Concerns(req'[c], i)}
  BY SameHost
<1>3. always' = [c \in Clients |->
        IF Phase(pc[c])' \in {"idle", "open"} THEN Items
        ELSE IF Phase(pc[c]) = "closed" THEN always[c]
        ELSE always[c] \intersect about(c)]
  BY <1>1 DEF Watch
<1>4. ever' = [c \in Clients |->
        IF Phase(pc[c])' \in {"idle", "open"} THEN {}
        ELSE IF Phase(pc[c]) = "closed" THEN ever[c]
        ELSE ever[c] \union about(c)]
  BY <1>1 DEF Watch
<1> HIDE DEF about
<1> QED
  BY <1>2, <1>3, <1>4 DEF Promise!Watch

\* Where the host stays as it is and no request comes into another phase, nothing
\* is to be seen of a step.
LEMMA Unseen ==
  ASSUME TypeOK, TypeOK', Watched, Next, UNCHANGED <<host, req, cut, ans>>,
         \A c \in Clients : Phase(pc'[c]) = Phase(pc[c])
  PROVE  UNCHANGED Promise!vars
<1>1. Watch
  BY AllWatch
<1>2. \A c \in Clients : always'[c] = always[c] /\ ever'[c] = ever[c]
  <2>1. SUFFICES ASSUME NEW c \in Clients
                 PROVE  always'[c] = always[c] /\ ever'[c] = ever[c]
    OBVIOUS
  <2>2. CASE pc[c] \in {"idle", "lock", "reply"}
    BY <1>1, <2>2, PhasesTold, WatchEffect DEF Watched
  <2>3. CASE pc[c] \notin {"idle", "lock", "reply"}
    <3>1. pc[c] \in Serving \ {"lock"} /\ pc'[c] \notin {"idle", "lock"}
      BY <2>3, PhasesTold DEF TypeOK, Serving
    <3> QED
      <4>1. /\ always'[c] = always[c] \intersect {i \in host : Concerns(req[c], i)}
            /\ ever'[c] = ever[c] \union {i \in host : Concerns(req[c], i)}
        BY <1>1, <2>3, <3>1, WatchEffect
      <4>2. /\ always[c] \subseteq {i \in host : Concerns(req[c], i)}
            /\ {i \in host : Concerns(req[c], i)} \subseteq ever[c]
        BY <3>1 DEF Watched, About
      <4> QED
        BY <4>1, <4>2
  <2> QED
    BY <2>2, <2>3
<1>3. always' = always /\ ever' = ever
  BY <1>2 DEF TypeOK
<1>4. [c \in Clients |-> Phase(pc'[c])] = [c \in Clients |-> Phase(pc[c])]
  OBVIOUS
<1> QED
  BY <1>3, <1>4 DEF Promise!vars

\* Each step of a request is one of the promised call or is not to be seen.
LEMMA CallStep ==
  ASSUME IInv, StoresReadBack, ClearMessages, NothingSpelled, Next, TypeOK',
         NEW c \in Clients, Serve(c)
  PROVE  Promise!Call(c) \/ UNCHANGED Promise!vars
<1> USE DEF IInv, TypeOK
<1> DEFINE phase == Phase(pc[c])
<1>1. [d \in Clients |-> Phase(pc[d])][c] = phase
  OBVIOUS
<1>2. Watched /\ Kept(c)
  BY KeptIsAll
<1>3. ASSUME NEW r \in Requests, Refuse(c, r)
      PROVE  Promise!Call(c)
  <2>1. Promise!Close(c, Refused)
    BY <1>3, FinishMaps DEF Refuse
  <2>2. phase = "idle"
    BY <1>3, PhasesTold DEF Refuse
  <2>3. r \notin {q \in Requests : Admissible(q)}
    BY <1>3 DEF Refuse
  <2>4. Promise!Refuse(c, r)
    BY <1>3, <2>1, <2>3, SameAnswers DEF Refuse, Promise!Refuse
  <2> QED
    BY <1>1, <2>2, <2>4 DEF Promise!Call
<1>4. ASSUME NEW r \in Requests, Accept(c, r)
      PROVE  Promise!Call(c)
  <2>1. Promise!Goto(c, Phase(FirstStep(r)))
    BY <1>4, GotoMaps DEF Accept
  <2>2. Phase(FirstStep(r)) \in {"open", "served"}
    <3>1. FirstStep(r) \in {"lock", "fileio", "ls"}
      BY DEF FirstStep
    <3> QED
      BY <3>1, PhasesTold
  <2>3. phase = "idle"
    BY <1>4, PhasesTold DEF Accept
  <2>4. Promise!Open(c, r)
    BY <1>4, <2>1, <2>2 DEF Accept, Promise!Open
  <2> QED
    BY <1>1, <2>3, <2>4 DEF Promise!Call
<1>5. CASE Expire(c)
  <2>1. phase \in {"open", "served"}
    BY <1>5, PhasesTold DEF Expire, Serving
  <2>2. UNCHANGED [d \in Clients |-> Phase(pc[d])]
    BY <1>5 DEF Expire
  <2>3. Promise!CutOff(c)
    BY <1>1, <1>5, <2>1, <2>2 DEF Expire, Promise!CutOff
  <2> QED
    BY <2>3 DEF Promise!Call
<1>6. CASE Lock(c)
  <2>1. PICK p \in {"fileio", "command"} : pc' = [pc EXCEPT ![c] = p]
    BY <1>6 DEF Lock
  <2>2. Promise!Goto(c, Phase(p))
    BY <2>1, GotoMaps
  <2>3. Phase(p) = "served" /\ phase = "open"
    BY <1>6, PhasesTold DEF Lock
  <2>4. Promise!Begin(c)
    BY <1>1, <1>6, <2>2, <2>3 DEF Lock, Promise!Begin
  <2> QED
    BY <2>4 DEF Promise!Call
\* From here on it looks at the host.
<1>7. pc[c] \in {"ls", "fileio", "block", "command"} => phase = "served"
  BY PhasesTold
<1>8. ASSUME cut[c] \/ ~HasTarget(req[c], host)
                    \/ (req[c].op = "create" /\ "other" \in Faults(req[c], host)),
             phase = "served", Finish(c, Failed), UNCHANGED <<host, req>>
      PROVE  Promise!Call(c)
  <2>1. Promise!Close(c, Failed)
    BY <1>8, FinishMaps
  <2>2. cut[c] \/ Promise!Lacks(c)
    BY <1>8, SameHost DEF Promise!Lacks
  <2>3. Promise!Fail(c)
    BY <1>1, <1>8, <2>1, <2>2, SameAnswers DEF Promise!Fail
  <2> QED
    BY <2>3 DEF Promise!Call
<1>9. ASSUME NEW S \in SUBSET Shown(ever[c]), Shown(always[c]) \subseteq S,
             req[c].op = "list",
             phase = "served", Finish(c, Listed(S)), UNCHANGED <<host, req>>
      PROVE  Promise!Call(c)
  <2>1. Promise!Close(c, Listed(S))
    BY <1>9, FinishMaps
  <2>2. Promise!Show(c)
    BY <1>1, <1>9, <2>1, SameAnswers, SameHost DEF Promise!Show
  <2> QED
    BY <2>2 DEF Promise!Call
<1>10. ASSUME Promise!AlreadySo(c), req[c].op # "list",
              phase = "served", Finish(c, Done(FALSE)), UNCHANGED <<host, req>>
       PROVE  Promise!Call(c)
  <2>1. Promise!Close(c, Done(FALSE))
    BY <1>10, FinishMaps
  <2>2. Promise!FindDone(c)
    BY <1>1, <1>10, <2>1, SameAnswers DEF Promise!FindDone
  <2> QED
    BY <2>2 DEF Promise!Call
\* A command that is followed by another is not to be seen.
<1>11. ASSUME NEW p \in {"block", "command"}, phase = "served",
              pc' = [pc EXCEPT ![c] = p], UNCHANGED <<host, req, cut, ans>>
       PROVE  UNCHANGED Promise!vars
  <2>1. \A d \in Clients : Phase(pc'[d]) = Phase(pc[d])
    BY <1>11, PhasesTold
  <2> QED
    BY <1>11, <2>1, Unseen
<1>12. CASE ListOfTarget(c)
  <2> DEFINE about == {i \in host : Concerns(req[c], i)}
             S == Shown(about)
  <2>1. pc[c] = "ls" /\ UNCHANGED <<host, req>> /\ req[c].op = "list"
    BY <1>12 DEF ListOfTarget, InPlace
  <2>2. Shown(always[c]) \subseteq S /\ S \subseteq Shown(ever[c])
    <3>1. always[c] \subseteq about /\ about \subseteq ever[c]
      BY <1>2, <2>1 DEF Watched, About, Serving
    <3> QED
      BY <3>1, ShownGrows
  <2>3. CASE (cut[c] \/ ~HasTarget(req[c], host)) /\ Finish(c, Failed)
    BY <1>7, <1>8, <2>1, <2>3
  <2>4. CASE Finish(c, Listed(S))
    BY <1>7, <1>9, <2>1, <2>2, <2>4
  <2> QED
    BY <1>12, <2>3, <2>4 DEF ListOfTarget
<1>13. CASE ListFileio(c)
  BY <1>7, <1>8, <1>11, <1>13 DEF ListFileio
<1>14. CASE ListBlock(c)
  <2> DEFINE all == SeenWith(c, "block")
  <2>1. /\ pc[c] = "block" /\ UNCHANGED <<host, req>>
        /\ req[c].kind = "store"
    BY <1>14 DEF ListBlock, InPlace, ResolvesType
  <2>2. /\ always[c] \subseteq {i \in host : Concerns(req[c], i)}
        /\ {i \in host : Concerns(req[c], i)} \subseteq ever[c]
    BY <1>2, <2>1 DEF Watched, About, Serving
  <2>3. Shown(always[c]) \subseteq all
    BY <1>2, <2>1, <2>2, AllSeen DEF Kept
  <2>4. req[c].op = "list" => all \subseteq Shown(ever[c])
    <3> DEFINE about == {i \in host : Concerns(req[c], i)}
    <3>1. req[c].op = "list" => all \subseteq Shown(ever[c] \union about)
      BY <1>2, <2>1, NoneInvented DEF Kept
    <3>2. ever[c] \union about = ever[c]
      BY <2>2
    <3> QED
      BY <3>1, <3>2
  <2>5. CASE cut[c] /\ Finish(c, Failed)
    BY <1>7, <1>8, <2>1, <2>5
  <2>6. CASE req[c].op = "list" /\ Finish(c, Listed(all))
    BY <1>7, <1>9, <2>1, <2>3, <2>4, <2>6
  <2>7. CASE req[c].op = "delete" /\ Named(c, all) = {} /\ Finish(c, Done(FALSE))
    <3>1. ResolvesType(req[c])
      BY <2>1, <2>7 DEF InPlace
    <3>2. always[c] = {}
      <4>1. Shown(always[c]) = always[c]
        BY <2>1, <2>2, StoresShown DEF Concerns
      <4>2. ASSUME NEW i \in always[c]
            PROVE  i \in Named(c, all)
        BY <2>2, <2>3, <3>1, <4>1, <4>2 DEF Named, Concerns, ResolvesType
      <4> QED
        BY <2>7, <4>2
    <3>3. Promise!AlreadySo(c)
      BY <2>7, <3>1, <3>2, SameHost DEF Promise!AlreadySo
    <3> QED
      BY <1>7, <1>10, <2>1, <2>7, <3>3
  <2>8. CASE /\ pc' = [pc EXCEPT ![c] = "command"]
             /\ UNCHANGED <<mu, cut, ans>>
    BY <1>7, <1>11, <2>1, <2>8
  <2> QED
    BY <1>14, <2>5, <2>6, <2>7, <2>8 DEF ListBlock
<1>15. CASE Command(c)
  <2> SUFFICES ASSUME NEW r, r = Resolved(c)
               PROVE  Promise!Call(c)
    OBVIOUS
  <2>1. pc[c] = "command" /\ UNCHANGED req /\ req[c].op # "list" /\ phase = "served"
    BY <1>7, <1>15 DEF Command, InPlace
  <2>2. Outcome(c, r)
    BY <1>15, CommandOutcome
  <2>3. /\ r \in Promise!Meant(req[c])
        /\ r.kind = req[c].kind /\ r.op = req[c].op
        /\ ~ResolvesType(req[c]) => r = req[c]
    BY ResolvedIsMeant
  <2>4. req[c].op \in {"create", "delete"}
    BY <2>1, RequestsKnown
  <2>5. CASE /\ Faults(r, host) = {}
             /\ host' \in Effects(r, host)
             /\ Finish(c, Done(TRUE))
    <3>1. Promise!Close(c, Done(TRUE))
      BY <2>5, FinishMaps
    <3>2. Promise!Work(c)
      BY <1>1, <2>1, <2>3, <2>5, <3>1, SameHost, SameAnswers DEF Promise!Work
    <3> QED
      BY <3>2 DEF Promise!Call
  <2>6. CASE /\ IF r.op = "create" THEN "taken" \in Faults(r, host)
                ELSE Faults(r, host) \intersect {"absent", "no path"} # {}
             /\ UNCHANGED host
             /\ Finish(c, Done(FALSE))
    <3>1. Promise!AlreadySo(c) \/ Promise!TakenByAnother(c)
      <4>1. CASE req[c].op = "create"
        <5>1. r = req[c] /\ At(r, host) # {} /\ req[c] \in Requests
          BY <2>1, <2>3, <2>6, <4>1, RequestsKnown DEF ResolvesType, Faults
        <5>2. CASE req[c].kind = "mapping" /\ Promise!Wanted(req[c]) \notin host
          <6>1. Promise!Close(c, Done(FALSE))
            BY <2>6, FinishMaps
          <6>2. Promise!TakenByAnother(c)
            BY <1>1, <2>1, <2>6, <4>1, <5>1, <5>2, <6>1, SameHost, SameAnswers
               DEF Promise!TakenByAnother
          <6> QED
            BY <6>2
        <5>3. CASE req[c].kind # "mapping"
          <6>1. PICK i \in host : i.kind = r.kind /\ i.slot = r.slot
            BY <5>1 DEF At
          <6>2. i = Item(i.kind, i.slot, i.store) /\ i.store = <<>> /\ req[c].store = <<>>
            BY <5>1, <5>3, <6>1, ConstantsOK
          <6>3. i = Promise!Wanted(req[c])
            BY <5>1, <6>1, <6>2, SameHost
          <6> QED
            BY <4>1, <6>1, <6>3, SameHost DEF Promise!AlreadySo, ResolvesType
        <5>4. CASE Promise!Wanted(req[c]) \in host
          BY <4>1, <5>4, SameHost DEF Promise!AlreadySo, ResolvesType
        <5> QED
          BY <5>2, <5>3, <5>4
      <4>2. CASE req[c].op = "delete" /\ ~ResolvesType(req[c])
        BY <2>3, <2>6, <4>2, SameHost DEF Faults, Promise!AlreadySo
      <4>3. CASE ResolvesType(req[c])
        <5>1. At(r, host) = {} /\ r.kind = "store"
          BY <2>3, <2>6, <4>3 DEF Faults, ResolvesType, HasTarget
        <5>2. PICK i \in seen[c] : i.kind = "store" /\ i.slot = r.slot
          BY <1>2, <2>1, <4>3, ResolvedWasSeen DEF Kept
        <5>3. i \notin host /\ i \in ever[c]
          BY <1>2, <2>1, <4>3, <5>1, <5>2 DEF At, Kept, SeenBy
        <5>4. always[c] # ever[c]
          BY <1>2, <2>1, <5>3 DEF Watched, About, Serving
        <5> QED
          BY <4>3, <5>4, SameHost DEF Promise!AlreadySo, ResolvesType
      <4> QED
        BY <2>4, <4>1, <4>2, <4>3
    <3>2. CASE Promise!TakenByAnother(c)
      BY <3>2 DEF Promise!Call
    <3> QED
      BY <1>10, <2>1, <2>6, <3>1, <3>2
  <2>7. CASE /\ r.kind = "portal" /\ "no path" \in Faults(r, host)
             /\ UNCHANGED host
             /\ Finish(c, Missing)
    <3>1. Promise!Close(c, Missing)
      BY <2>7, FinishMaps
    <3>2. ~HasTarget(req[c], host) /\ req[c].kind = "portal"
      BY <2>3, <2>7 DEF Faults, ResolvesType
    <3>3. Promise!Fail(c)
      BY <1>1, <2>1, <2>7, <3>1, <3>2, SameHost, SameAnswers DEF Promise!Fail
    <3> QED
      BY <3>3 DEF Promise!Call
  <2>8. CASE /\ cut[c] \/ Faults(r, host) \intersect {"no path", "other"} # {}
             /\ UNCHANGED host
             /\ Finish(c, Failed)
    <3>1. \/ cut[c] \/ ~HasTarget(req[c], host)
          \/ req[c].op = "create" /\ "other" \in Faults(req[c], host)
      BY <2>3, <2>8 DEF Faults, ResolvesType, HasTarget
    <3> QED
      BY <1>8, <2>1, <2>8, <3>1
  <2>9. CASE /\ cut[c] /\ Faults(r, host) = {}
             /\ host' \in Effects(r, host)
             /\ Finish(c, Failed)
    <3>1. Promise!Close(c, Failed)
      BY <2>9, FinishMaps
    <3>2. Promise!FailDone(c)
      BY <1>1, <2>1, <2>3, <2>9, <3>1, SameHost, SameAnswers DEF Promise!FailDone
    <3> QED
      BY <3>2 DEF Promise!Call
  <2> QED
    BY <2>2, <2>5, <2>6, <2>7, <2>8, <2>9 DEF Outcome
<1>16. CASE Reply(c)
  <2>1. Promise!Goto(c, Phase("idle"))
    BY <1>16, GotoMaps DEF Reply
  <2>2. Phase("idle") = "idle" /\ phase = "closed"
    BY <1>16, PhasesTold DEF Reply
  <2>3. Promise!Return(c)
    BY <1>1, <1>16, <2>1, <2>2, SameAnswers DEF Reply, Promise!Return
  <2> QED
    BY <2>3 DEF Promise!Call
<1> QED
  BY <1>3, <1>4, <1>5, <1>6, <1>12, <1>13, <1>14, <1>15, <1>16 DEF Serve, Step

LEMMA PromiseStep ==
  ASSUME IInv, StoresReadBack, ClearMessages, NothingSpelled, [Next]_vars, TypeOK'
  PROVE  [Promise!Next]_(Promise!vars)
<1>1. CASE UNCHANGED vars
  BY <1>1 DEF vars, Promise!vars
<1>2. ASSUME Next
      PROVE  Promise!Watch
  BY <1>2, AllWatch, WatchMaps
<1>3. ASSUME NEW c \in Clients, Serve(c), Next
      PROVE  Promise!Call(c) \/ UNCHANGED Promise!vars
  BY <1>3, CallStep
<1>4. ASSUME NEW i \in AdminItems, Admin(i)
      PROVE  Promise!Meddle
  <2>1. host' \in Promise!Operated(i, host)
    BY <1>4, SameHost DEF Admin
  <2> QED
    BY <1>4, <2>1 DEF Admin, Promise!Meddle
<1>5. CASE Crash
  <2>1. [c \in Clients |-> Phase(pc'[c])] = [c \in Clients |-> "idle"]
    BY <1>5, PhasesTold DEF Crash
  <2>2. Promise!Crash
    BY <1>5, <2>1, SameAnswers DEF Crash, Promise!Crash
  <2> QED
    BY <1>2, <1>5, <2>2 DEF Next, Promise!Next
<1> QED
  BY <1>1, <1>2, <1>3, <1>4, <1>5 DEF Next, Promise!Next

\* The four services, with their mutexes, their commands and the words that each
\* of them reads, are what HostPromise says of them, the false "ok" to a mapping
\* whose LUN is taken by another backstore (isMappingAlreadyExists) included as
\* the exception that it names.
THEOREM ServicesKeepPromise ==
  ASSUME StoresReadBack, ClearMessages, NothingSpelled
  PROVE  Spec => KeepsPromise
<1>1. Init => Promise!Init
  <2> SUFFICES ASSUME Init PROVE Promise!Init
    OBVIOUS
  <2>1. [c \in Clients |-> Phase(pc[c])] = [c \in Clients |-> "idle"]
    BY PhasesTold DEF Init
  <2>2. host \in SUBSET Items
    BY ConstantsOK DEF Init
  <2> QED
    BY <2>1, <2>2, SameAnswers DEF Init, Promise!Init
<1>2. IInv /\ IInv' /\ [Next]_vars => [Promise!Next]_(Promise!vars)
  BY PromiseStep, StoresReadBack, ClearMessages, NothingSpelled DEF IInv
<1> QED
  BY <1>1, <1>2, Invariance, PTL DEF Spec, KeepsPromise, Promise!Spec
=============================================================================
