----------------------- MODULE TargetsService_proofs -----------------------
(***************************************************************************)
(* Proofs about TargetsService, for every set of requests and names.       *)
(*                                                                         *)
(* TypeOK is inductive by itself, and MutexHeldToChange with it.  That     *)
(* what a request saw is still so when it acts (SeenIsCurrent) needs both: *)
(* the only other steps that change the targets are those of the holder    *)
(* of the mutex and of an operator.  FailureHasCause follows from it: only *)
(* a step that finds the opposite of what was seen fails by itself.  All   *)
(* of it holds whether or not targetcli prints the markers by which the    *)
(* driver tells targets from initiators: ListingsTell is what a look shows *)
(* of them in either case.                                                 *)
(***************************************************************************)
EXTENDS TargetsService, TLAPS

\* What is left on a request that is not being served, and when an operator
\* can have touched its target.
Tidy ==
  \A c \in Clients :
    /\ pc[c] # "reply" => ans[c] = NoAnswer
    /\ pc[c] = "idle" => ~cut[c]
    /\ disturbed[c] => pc[c] \in {"write", "reply"}

IInv ==
  TypeOK /\ MutexHeldToChange /\ SeenIsCurrent /\ FailureHasCause /\ Tidy

USE DEF Requests, NoRequest, Answer, Done, Listed, Failed, Refused, NoAnswer

-----------------------------------------------------------------------------
LEMMA AnswersTyped ==
  /\ Failed \in Answers /\ Refused \in Answers /\ NoAnswer \in Answers
  /\ \A b \in BOOLEAN : Done(b) \in Answers
  /\ \A S \in SUBSET IQN : Listed(S) \in Answers
BY DEF Answers

\* A step keeps the types, and lets only requests that passed the checks of
\* the service get beyond them.
LEMMA TypeStep ==
  ASSUME TypeOK, [Next]_vars
  PROVE  TypeOK'
<1> USE DEF TypeOK
<1>1. ASSUME NEW c \in Clients, NEW r \in Requests, Refuse(c, r)
      PROVE  TypeOK'
  BY <1>1, ConstantsOK, AnswersTyped DEF Refuse, Finish
<1>2. ASSUME NEW c \in Clients, NEW r \in Requests, Accept(c, r)
      PROVE  TypeOK'
  BY <1>2, ConstantsOK DEF Accept, Admissible
<1>3. ASSUME NEW c \in Clients, Expire(c)
      PROVE  TypeOK'
  BY <1>3 DEF Expire
<1>4. ASSUME NEW c \in Clients, Lock(c)
      PROVE  TypeOK'
  BY <1>4 DEF Lock
<1>5. ASSUME NEW c \in Clients, ListTargets(c)
      PROVE  TypeOK'
  <2>1. \A S \in Listings : S \subseteq IQN
    BY ConstantsOK DEF Listings, Mistaken
  <2>2. /\ pc[c] = "list"
        /\ UNCHANGED <<targets, req, cut, disturbed>>
    BY <1>5 DEF ListTargets
  <2>3. ASSUME NEW a \in {Failed, Done(FALSE)} \union {Listed(S) : S \in Listings},
               Finish(c, a)
        PROVE  TypeOK'
    <3>1. a \in Answers
      BY <2>1, <2>3, AnswersTyped
    <3> QED
      BY <2>2, <2>3, <3>1 DEF Finish
  <2>4. CASE /\ pc' = [pc EXCEPT ![c] = "write"]
             /\ req[c].op # "list"
             /\ UNCHANGED <<mu, ans>>
    BY <2>2, <2>4
  <2> QED
    BY <1>5, <2>3, <2>4 DEF ListTargets
<1>6. ASSUME NEW c \in Clients, WriteTarget(c)
      PROVE  TypeOK'
  <2>1. /\ pc[c] = "write"
        /\ UNCHANGED <<req, cut, disturbed>>
        /\ targets' \subseteq ValidIQN
    BY <1>6 DEF WriteTarget, Applied
  <2>2. PICK a \in {Failed, Done(TRUE)} : Finish(c, a)
    BY <1>6 DEF WriteTarget
  <2>3. a \in Answers
    BY <2>2, AnswersTyped
  <2> QED
    BY <2>1, <2>2, <2>3 DEF Finish
<1>7. ASSUME NEW c \in Clients, Reply(c)
      PROVE  TypeOK'
  BY <1>7, AnswersTyped DEF Reply
<1>8. ASSUME NEW t \in AdminIQN, Admin(t)
      PROVE  TypeOK'
  BY <1>8, ConstantsOK DEF Admin
<1>9. CASE Crash
  BY <1>9, AnswersTyped DEF Crash
<1>10. CASE UNCHANGED vars
  BY <1>10 DEF vars
<1> QED
  BY <1>1, <1>2, <1>3, <1>4, <1>5, <1>6, <1>7, <1>8, <1>9, <1>10
     DEF Next, Serve

\* The variables keep their types.
THEOREM TypeCorrect == Spec => []TypeOK
<1>1. Init => TypeOK
  BY ConstantsOK, AnswersTyped DEF Init, TypeOK
<1>2. TypeOK /\ [Next]_vars => TypeOK'
  BY TypeStep
<1> QED
  BY <1>1, <1>2, PTL DEF Spec

-----------------------------------------------------------------------------
\* Who holds the mutex, and what is left on a request: neither depends on
\* what the targets are.
LEMMA MutexStep ==
  ASSUME TypeOK, MutexHeldToChange, Tidy, [Next]_vars
  PROVE  MutexHeldToChange' /\ Tidy'
<1> USE DEF TypeOK, MutexHeldToChange, Tidy, Looking
<1>1. ASSUME NEW c \in Clients, NEW r \in Requests, Refuse(c, r)
      PROVE  MutexHeldToChange' /\ Tidy'
  BY <1>1, ConstantsOK DEF Refuse, Finish
<1>2. ASSUME NEW c \in Clients, NEW r \in Requests, Accept(c, r)
      PROVE  MutexHeldToChange' /\ Tidy'
  BY <1>2, ConstantsOK DEF Accept
<1>3. ASSUME NEW c \in Clients, Expire(c)
      PROVE  MutexHeldToChange' /\ Tidy'
  BY <1>3 DEF Expire
<1>4. ASSUME NEW c \in Clients, Lock(c)
      PROVE  MutexHeldToChange' /\ Tidy'
  BY <1>4, ConstantsOK DEF Lock
<1>5. ASSUME NEW c \in Clients, ListTargets(c)
      PROVE  MutexHeldToChange' /\ Tidy'
  <2>1. CASE \E a : Finish(c, a)
    BY <1>5, <2>1, ConstantsOK DEF ListTargets, Finish
  <2>2. CASE /\ pc' = [pc EXCEPT ![c] = "write"]
             /\ req[c].op # "list"
             /\ UNCHANGED <<mu, ans>>
    BY <1>5, <2>2 DEF ListTargets
  <2> QED
    BY <1>5, <2>1, <2>2 DEF ListTargets
<1>6. ASSUME NEW c \in Clients, WriteTarget(c)
      PROVE  MutexHeldToChange' /\ Tidy'
  <2>1. /\ \E a : Finish(c, a)
        /\ pc[c] = "write"
        /\ UNCHANGED <<req, cut, disturbed>>
    BY <1>6 DEF WriteTarget
  <2> QED
    BY <2>1, ConstantsOK DEF Finish
<1>7. ASSUME NEW c \in Clients, Reply(c)
      PROVE  MutexHeldToChange' /\ Tidy'
  BY <1>7 DEF Reply
<1>8. ASSUME NEW t \in AdminIQN, Admin(t)
      PROVE  MutexHeldToChange' /\ Tidy'
  BY <1>8 DEF Admin
<1>9. CASE Crash
  BY <1>9, ConstantsOK DEF Crash
<1>10. CASE UNCHANGED vars
  BY <1>10 DEF vars
<1> QED
  BY <1>1, <1>2, <1>3, <1>4, <1>5, <1>6, <1>7, <1>8, <1>9, <1>10
     DEF Next, Serve

\* targetcli refuses what the service would find moot.
LEMMA RejectedIsMoot ==
  ASSUME NEW r \in [op : {"create", "delete"}, item : IQN], NEW S
  PROVE  Rejected(r, S) <=> Moot(r, S)
BY DEF Rejected, Applied, Moot

\* A listing has all targets, and no names but theirs and those that may be
\* mistaken: what a look finds is so of every other name.
LEMMA ListingsTell ==
  ASSUME NEW S \in Listings
  PROVE  /\ \E T \in SUBSET Mistaken : S = targets \union T
         /\ \A r \in [op : {"create", "delete"}, item : IQN] :
              /\ ~Moot(r, S) => OfMistaken(r) \/ ~Moot(r, targets)
              /\ Moot(r, S) => \/ Moot(r, targets)
                               \/ r.op = "create" /\ r.item \in Mistaken
<1>1. PICK T \in SUBSET Mistaken : S = targets \union T
  BY DEF Listings
<1> QED
  BY <1>1 DEF Moot, OfMistaken

\* Only the holder of the mutex and an operator change the targets; the
\* holder is the one that is about to write, and an operator is remembered.
LEMMA SeenStep ==
  ASSUME TypeOK, MutexHeldToChange, Tidy, SeenIsCurrent, [Next]_vars
  PROVE  SeenIsCurrent'
<1> USE DEF TypeOK, MutexHeldToChange, SeenIsCurrent, Looking, OfMistaken
<1>1. ASSUME NEW c \in Clients, NEW r \in Requests, Refuse(c, r)
      PROVE  SeenIsCurrent'
  BY <1>1 DEF Refuse, Finish, Moot
<1>2. ASSUME NEW c \in Clients, NEW r \in Requests, Accept(c, r)
      PROVE  SeenIsCurrent'
  BY <1>2 DEF Accept, Moot
<1>3. ASSUME NEW c \in Clients, Expire(c)
      PROVE  SeenIsCurrent'
  BY <1>3 DEF Expire, Moot
<1>4. ASSUME NEW c \in Clients, Lock(c)
      PROVE  SeenIsCurrent'
  BY <1>4 DEF Lock, Moot
<1>5. ASSUME NEW c \in Clients, ListTargets(c)
      PROVE  SeenIsCurrent'
  <2>1. /\ pc[c] = "list"
        /\ UNCHANGED <<targets, req, cut, disturbed>>
        /\ \A d \in Clients : d # c => pc'[d] = pc[d]
    BY <1>5 DEF ListTargets, Finish
  <2>2. ASSUME pc'[c] = "write"
        PROVE  OfMistaken(req[c]) \/ ~Moot(req[c], targets)
    <3>1. /\ req[c] \in [op : {"create", "delete"}, item : IQN]
          /\ \E S \in Listings : ~Moot(req[c], S)
      BY <1>5, <2>2 DEF ListTargets, Finish
    <3> QED
      BY <3>1, ListingsTell
  <2>3. \A d \in Clients : Moot(req'[d], targets') <=> Moot(req[d], targets)
    BY <2>1 DEF Moot
  <2> QED
    BY <2>1, <2>2, <2>3
<1>6. ASSUME NEW c \in Clients, WriteTarget(c)
      PROVE  SeenIsCurrent'
  <2>1. /\ \E a : Finish(c, a)
        /\ pc[c] = "write"
        /\ UNCHANGED <<req, cut, disturbed>>
    BY <1>6 DEF WriteTarget
  <2>2. ASSUME NEW d \in Clients, d # c
        PROVE  pc'[d] # "write"
    BY <2>1, <2>2 DEF Finish
  <2> QED
    BY <2>1, <2>2 DEF Finish
<1>7. ASSUME NEW c \in Clients, Reply(c)
      PROVE  SeenIsCurrent'
  BY <1>7 DEF Reply, Moot
<1>8. ASSUME NEW t \in AdminIQN, Admin(t)
      PROVE  SeenIsCurrent'
  BY <1>8 DEF Admin, Moot
<1>9. CASE Crash
  BY <1>9 DEF Crash
<1>10. CASE UNCHANGED vars
  BY <1>10 DEF vars, Moot
<1> QED
  BY <1>1, <1>2, <1>3, <1>4, <1>5, <1>6, <1>7, <1>8, <1>9, <1>10
     DEF Next, Serve

\* A request fails in a step of its own that is cut or finds the opposite of
\* what it saw.
LEMMA CauseStep ==
  ASSUME TypeOK, SeenIsCurrent, Tidy, FailureHasCause, [Next]_vars
  PROVE  FailureHasCause'
<1> USE DEF TypeOK, FailureHasCause, OfMistaken
<1>1. ASSUME NEW c \in Clients, NEW r \in Requests, Refuse(c, r)
      PROVE  FailureHasCause'
  BY <1>1 DEF Refuse, Finish
<1>2. ASSUME NEW c \in Clients, NEW r \in Requests, Accept(c, r)
      PROVE  FailureHasCause'
  BY <1>2 DEF Accept
<1>3. ASSUME NEW c \in Clients, Expire(c)
      PROVE  FailureHasCause'
  BY <1>3 DEF Expire
<1>4. ASSUME NEW c \in Clients, Lock(c)
      PROVE  FailureHasCause'
  BY <1>4 DEF Lock
<1>5. ASSUME NEW c \in Clients, ListTargets(c)
      PROVE  FailureHasCause'
  BY <1>5 DEF ListTargets, Finish
<1>6. ASSUME NEW c \in Clients, WriteTarget(c)
      PROVE  FailureHasCause'
  <2>1. req[c] \in [op : {"create", "delete"}, item : IQN]
    BY <1>6 DEF WriteTarget
  <2>2. Rejected(req[c], targets) <=> Moot(req[c], targets)
    BY <2>1, RejectedIsMoot
  <2>3. UNCHANGED <<req, cut, disturbed>> /\ pc[c] = "write"
    BY <1>6 DEF WriteTarget
  <2>4. \A d \in Clients : ans'[d].status = "error" =>
          cut[d] \/ disturbed[d] \/ OfMistaken(req[d])
    BY <1>6, <2>2, <2>3 DEF WriteTarget, Finish, SeenIsCurrent
  <2> QED
    BY <2>3, <2>4 DEF OfMistaken
<1>7. ASSUME NEW c \in Clients, Reply(c)
      PROVE  FailureHasCause'
  BY <1>7 DEF Reply
<1>8. ASSUME NEW t \in AdminIQN, Admin(t)
      PROVE  FailureHasCause'
  BY <1>8 DEF Admin
<1>9. CASE Crash
  BY <1>9 DEF Crash
<1>10. CASE UNCHANGED vars
  BY <1>10 DEF vars
<1> QED
  BY <1>1, <1>2, <1>3, <1>4, <1>5, <1>6, <1>7, <1>8, <1>9, <1>10
     DEF Next, Serve

\* The invariant holds throughout.
THEOREM Invariance == Spec => []IInv
<1>1. Init => IInv
  BY ConstantsOK, AnswersTyped DEF Init, IInv, TypeOK, MutexHeldToChange, Looking,
     SeenIsCurrent, FailureHasCause, Tidy
<1>2. IInv /\ [Next]_vars => TypeOK'
  BY TypeStep DEF IInv
<1>3. IInv /\ [Next]_vars => IInv'
  BY <1>2, MutexStep, SeenStep, CauseStep DEF IInv
<1> QED
  BY <1>1, <1>3, PTL DEF Spec

\* The mutex is held by exactly the request that looks before a change or
\* makes it (targets.go, Lock and the deferred Unlock), however targetcli
\* lists targets.
THEOREM MutexAlwaysHeldToChange == Spec => []MutexHeldToChange
<1>1. Init => TypeOK /\ MutexHeldToChange /\ Tidy
  BY ConstantsOK, AnswersTyped DEF Init, TypeOK, MutexHeldToChange, Looking, Tidy
<1>2. TypeOK /\ MutexHeldToChange /\ Tidy /\ [Next]_vars
        => (TypeOK /\ MutexHeldToChange /\ Tidy)'
  BY TypeStep, MutexStep
<1> QED
  BY <1>1, <1>2, PTL DEF Spec

\* A request acts on what is still so (targets.go, the look and the change
\* under one mutex).
THEOREM LookIsNeverStale == Spec => []SeenIsCurrent
<1>1. IInv => SeenIsCurrent
  BY DEF IInv
<1> QED
  BY <1>1, Invariance, PTL

\* Requests never make each other fail.
THEOREM FailuresHaveCauses == Spec => []FailureHasCause
<1>1. IInv => FailureHasCause
  BY DEF IInv
<1> QED
  BY <1>1, Invariance, PTL

-----------------------------------------------------------------------------
\* Each step of the service is a step of the promise or none: a request
\* takes effect when it looks and finds nothing to do (or only wanted to
\* look), and otherwise when its command runs.
LEMMA PromiseStep ==
  ASSUME IInv, [Next]_vars
  PROVE  [Promise!Next]_(Promise!vars)
<1> USE DEF IInv, TypeOK, Promise!NoWish, Promise!NoReply, Promise!Answer,
            Promise!Wishes
<1>1. ASSUME NEW c \in Clients, NEW r \in Requests, Refuse(c, r)
      PROVE  Promise!Refuse(c, r)
  BY <1>1 DEF Refuse, Finish, Promise!Refuse, Promise!Refused
<1>2. ASSUME NEW c \in Clients, NEW r \in Requests, Accept(c, r)
      PROVE  Promise!Open(c, r)
  BY <1>2 DEF Accept, Promise!Open
<1>3. ASSUME NEW c \in Clients, Expire(c)
      PROVE  Promise!Excuse(c)
  BY <1>3 DEF Expire, Promise!Excuse
<1>4. ASSUME NEW c \in Clients, Lock(c)
      PROVE  UNCHANGED Promise!vars
  BY <1>4 DEF Lock, Promise!vars
<1>5. ASSUME NEW c \in Clients, ListTargets(c)
      PROVE  \/ Promise!Decide(c) \/ Promise!TakenForMember(c) \/ Promise!Break(c)
             \/ UNCHANGED Promise!vars
  <2>1. CASE cut[c] /\ Finish(c, Failed)
    BY <1>5, <2>1 DEF ListTargets, Finish, Promise!Break, Promise!Failed
  <2>2. CASE req[c].op = "list" /\ \E S \in Listings : Finish(c, Listed(S))
    <3>1. PICK S \in Listings : Finish(c, Listed(S))
      BY <2>2
    <3>2. Listed(S) \in Promise!Truths(req[c], targets)
      <4>1. PICK T \in SUBSET Mistaken : S = targets \union T
        BY ListingsTell
      <4>2. Listed(S) = Promise!Listed(targets \union T)
        BY <4>1 DEF Promise!Listed
      <4> QED
        BY <2>2, <4>2 DEF Promise!Truths
    <3> QED
      BY <1>5, <2>2, <3>1, <3>2 DEF ListTargets, Finish, Promise!Decide, Promise!Granted
  <2>3. CASE /\ req[c].op # "list" /\ Finish(c, Done(FALSE))
             /\ \E S \in Listings : Moot(req[c], S)
    <3>1. pc[c] = "list" /\ UNCHANGED <<targets, req, cut, disturbed>>
      BY <1>5 DEF ListTargets
    <3>2. req[c] \in [op : {"create", "delete"}, item : IQN]
      BY <2>3, <3>1
    <3>3. CASE Moot(req[c], targets)
      <4>1. Promise!Granted(req[c], targets) = targets
        BY <3>2, <3>3 DEF Moot, Promise!Granted
      <4> QED
        BY <2>3, <3>1, <4>1 DEF Finish, Promise!Decide, Promise!Truths, Promise!Done
    <3>4. CASE req[c].op = "create" /\ req[c].item \in Mistaken
      BY <2>3, <3>1, <3>4 DEF Finish, Promise!TakenForMember, Promise!Done
    <3> QED
      BY <2>3, <3>2, <3>3, <3>4, ListingsTell
  <2>4. CASE pc' = [pc EXCEPT ![c] = "write"] /\ UNCHANGED <<mu, ans>>
    BY <1>5, <2>4 DEF ListTargets, Promise!vars
  <2> QED
    BY <1>5, <2>1, <2>2, <2>3, <2>4 DEF ListTargets
<1>6. ASSUME NEW c \in Clients, WriteTarget(c)
      PROVE  Promise!Decide(c) \/ Promise!Break(c)
  <2>1. /\ req[c].op \in {"create", "delete"}
        /\ Promise!Granted(req[c], targets) = Applied(req[c], targets)
        /\ Rejected(req[c], targets) <=> Moot(req[c], targets)
    BY <1>6, RejectedIsMoot DEF WriteTarget, Applied, Promise!Granted
  <2>2. CASE /\ Finish(c, Failed)
             /\ cut[c] \/ Rejected(req[c], targets)
             /\ targets' \in {targets, Applied(req[c], targets)}
    <3>1. pc[c] = "write" /\ UNCHANGED <<req, cut, disturbed>>
      BY <1>6 DEF WriteTarget
    <3>2. CASE cut[c] \/ disturbed[c]
      BY <2>1, <2>2, <3>1, <3>2 DEF Finish, Promise!Break, Promise!Failed
    <3>3. CASE ~cut[c] /\ OfMistaken(req[c])
      <4>1. req[c].op = "delete" /\ req[c].item \in Mistaken \ targets
        BY <2>1, <2>2, <3>3 DEF OfMistaken, Moot
      <4> QED
        BY <2>1, <2>2, <3>1, <4>1 DEF Finish, Promise!Break, Promise!Failed
    <3> QED
      BY <2>1, <2>2, <3>1, <3>2, <3>3 DEF SeenIsCurrent
  <2>3. CASE /\ Finish(c, Done(TRUE))
             /\ ~Rejected(req[c], targets)
             /\ targets' = Applied(req[c], targets)
    <3>1. Applied(req[c], targets) # targets
      BY <2>3 DEF Rejected
    <3> QED
      BY <1>6, <2>1, <2>3, <3>1 DEF WriteTarget, Finish, Promise!Decide,
         Promise!Truths, Promise!Done
  <2> QED
    BY <1>6, <2>2, <2>3 DEF WriteTarget
<1>7. ASSUME NEW c \in Clients, Reply(c)
      PROVE  Promise!Return(c)
  BY <1>7 DEF Reply, Promise!Return
<1>8. ASSUME NEW t \in AdminIQN, Admin(t)
      PROVE  \E S \in SUBSET Clients : Promise!Tamper(t, S)
  <2> DEFINE S == {c \in Clients : pc[c] = "write" /\ req[c].item = t}
  <2>1. S \in SUBSET Clients /\ \A c \in S : pc[c] = "write" /\ req[c].item = t
    OBVIOUS
  <2>2. targets' \in {targets \union {t}, targets \ {t}}
    BY <1>8 DEF Admin
  <2>3. [c \in Clients |-> cut[c] \/ disturbed[c]]'
          = [c \in Clients |-> (cut[c] \/ disturbed[c]) \/ c \in S]
    <3>1. \A c \in Clients : cut'[c] \/ disturbed'[c]
                              <=> (cut[c] \/ disturbed[c]) \/ c \in S
      BY <1>8 DEF Admin
    <3> HIDE DEF S
    <3> QED
      BY <3>1, Zenon
  <2>4. UNCHANGED <<pc, req, ans>>
    BY <1>8 DEF Admin
  <2> HIDE DEF S
  <2> QED
    BY <2>1, <2>2, <2>3, <2>4 DEF Promise!Tamper
<1>9. ASSUME Crash
      PROVE  Promise!Crash
  BY <1>9 DEF Crash, Promise!Crash
<1>10. ASSUME UNCHANGED vars
       PROVE  UNCHANGED Promise!vars
  BY <1>10 DEF vars, Promise!vars
<1>11. AdminIQN \subseteq IQN
  BY ConstantsOK
<1> QED
  BY <1>1, <1>2, <1>3, <1>4, <1>5, <1>6, <1>7, <1>8, <1>9, <1>10, <1>11
     DEF Next, Serve, Promise!Next

\* The service is a set of targets on which every request takes effect at
\* one instant between its start and its answer (the service keeps the
\* promise of IdempotentSet), whether or not targetcli prints markers.
THEOREM ServiceKeepsPromise == Spec => KeepsPromise
<1>1. Init => Promise!Init
  BY ConstantsOK DEF Init, Promise!Init, Promise!NoWish, Promise!NoReply,
     Promise!Answer
<1>2. IInv /\ [Next]_vars => [Promise!Next]_(Promise!vars)
  BY PromiseStep
<1> QED
  BY <1>1, <1>2, Invariance, PTL DEF Spec, KeepsPromise, Promise!Spec
=============================================================================
