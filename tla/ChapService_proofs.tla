------------------------- MODULE ChapService_proofs -------------------------
(***************************************************************************)
(* What the CHAP service keeps true for any number of requests, userids    *)
(* and passwords, and however targetcli's output is read back.             *)
(*                                                                         *)
(* Who holds the mutex (MutexHeldToSet) tells that nobody writes beside a  *)
(* PUT, so what it wrote and read stays as it is until it answers          *)
(* (WritesBuildUp, ReadsHold).  A GET takes no lock: that it only reports  *)
(* a readiness that was there is kept by Witnessed, which follows it from  *)
(* command to command.                                                     *)
(***************************************************************************)
EXTENDS ChapService, TLAPS

\* What is left on a request that is not being served.
Tidy ==
  \A c \in Clients :
    /\ wrote[c] => pc[c] \in Reading /\ req[c].op = "set"
    /\ pc[c] \in {"setuser", "setpass"} => req[c].enabled
    /\ pc[c] # "reply" => ans[c] = NoAnswer
    /\ pc[c] = "idle" => ~reborn[c]

\* What a PUT has read is so for as long as it keeps the mutex.
ReadsHold ==
  \A c \in Clients : req[c].op = "set" /\ ~reborn[c] =>
    /\ pc[c] \in {"user", "pass", "hints"} => got[c].auth = chap.auth
    /\ pc[c] \in {"pass", "hints"} => got[c].user = ReadBack[chap.user]
    /\ pc[c] = "hints" => got[c].pass = PasswordSet(chap.pass)

\* A GET that has seen CHAP on: the PUT that is writing credentials, if any,
\* writes them where CHAP is on, and both are there only if the GET has been
\* a witness of it.
Witnessed ==
  \A c \in Clients :
    req[c].op = "get" /\ ~reborn[c] /\ pc[c] \in {"user", "pass", "hints"} =>
      /\ chap.exists
      /\ got[c].auth => \A w \in Clients : pc[w] \in {"setuser", "setpass"} => chap.auth
      /\ got[c].auth /\ chap.user # None /\ chap.pass # None => witness[c]
      /\ pc[c] \in {"pass", "hints"} /\ got[c].user # None => chap.user # None
      /\ pc[c] = "hints" /\ got[c].pass => chap.pass # None

\* The inductive invariant.
Inductive ==
  /\ TypeOK /\ MutexHeldToSet /\ Tidy /\ ReadsHold
  /\ WritesBuildUp /\ Witnessed /\ ReadyWasReady

USE DEF Reading, Writing

\* Which requests there are, and that none of them is NoRequest.
LEMMA RequestsTyped ==
  /\ Requested \subseteq [op : {"none", "get", "set"}, enabled : BOOLEAN,
                          user : Users \union {None},
                          pass : Passwords \union {None}]
  /\ NoRequest \in Requested
  /\ \A r \in Requests : r \in Requested /\ r.op \in {"get", "set"} /\ r # NoRequest
  /\ \A r \in Requested : r.enabled => r.op = "set"
<1> USE DEF Request, Get, Disable, NoRequest
<1>1. \A r \in Enables : /\ r.op = "set" /\ r.enabled
                         /\ r.user \in Users \union {None}
                         /\ r.pass \in Passwords \union {None}
  BY DEF Enables
<1>2. Enables \subseteq [op : {"none", "get", "set"}, enabled : BOOLEAN,
                        user : Users \union {None}, pass : Passwords \union {None}]
  BY DEF Enables
<1>3. {Get, Disable, NoRequest} \subseteq
        [op : {"none", "get", "set"}, enabled : BOOLEAN,
         user : Users \union {None}, pass : Passwords \union {None}]
  OBVIOUS
<1>4. /\ Get.op = "get" /\ Disable.op = "set" /\ NoRequest.op = "none"
      /\ ~Get.enabled /\ ~Disable.enabled /\ ~NoRequest.enabled
  OBVIOUS
<1> HIDE DEF Request, Get, Disable, NoRequest
<1>5. \A r \in Requests : r.op \in {"get", "set"} /\ (r.enabled => r.op = "set")
  BY <1>1, <1>4 DEF Requests
<1> QED
  BY <1>2, <1>3, <1>4, <1>5 DEF Requested, Requests

\* The answers the handlers give are answers.
LEMMA AnswersTyped ==
  /\ Unread \in States
  /\ Missing \in Answers /\ Failed \in Answers
  /\ Refused \in Answers /\ NoAnswer \in Answers
  /\ \A b \in BOOLEAN, st \in States : Done(b, st) \in Answers
<1>1. Unread \in States
  BY DEF Unread, States, Values
<1> QED
  BY <1>1 DEF Answers, Answer, Done, Missing, Failed, Refused, NoAnswer

\* A field of what was read may be set to any value of its type.
LEMMA StatesTyped ==
  ASSUME NEW st \in States
  PROVE  /\ \A b \in BOOLEAN : /\ [st EXCEPT !.auth = b] \in States
                              /\ [st EXCEPT !.pass = b] \in States
         /\ \A v \in Values : [st EXCEPT !.user = v] \in States
BY DEF States

\* So may a field of the settings.
LEMMA SettingsTyped ==
  /\ Gone \in Settings /\ Fresh \in Settings
  /\ \A k \in Settings :
       /\ \A b \in BOOLEAN : [k EXCEPT !.auth = b] \in Settings
       /\ \A u \in Users \union {None} : [k EXCEPT !.user = u] \in Settings
       /\ \A p \in Passwords \union {None} : [k EXCEPT !.pass = p] \in Settings
BY DEF Gone, Fresh, Settings

\* The last command of GetCHAP ends the request or is followed by the first write.
LEMMA HintsRead ==
  ASSUME TypeOK, NEW c \in Clients, ReadHints(c)
  PROVE  /\ pc[c] = "hints" /\ pc'[c] \in {"reply", "setauth"}
         /\ pc'[c] = "setauth" => req[c].op = "set"
         /\ \A d \in Clients \ {c} :
              /\ pc'[d] = pc[d] /\ got'[d] = got[d]
              /\ ans'[d] = ans[d] /\ wrote'[d] = wrote[d]
         /\ UNCHANGED <<chap, req, reborn>>
<1> USE DEF TypeOK, Typed
<1>1. /\ pc[c] = "hints" /\ UNCHANGED <<chap, req, reborn>>
      /\ \/ \E a : Finish(c, a)
         \/ req[c].op = "set" /\ Goto(c, "setauth") /\ UNCHANGED <<wrote, got>>
  BY Zenon DEF ReadHints
<1>2. CASE \E a : Finish(c, a)
  BY <1>1, <1>2 DEF Finish
<1>3. CASE req[c].op = "set" /\ Goto(c, "setauth") /\ UNCHANGED <<wrote, got>>
  BY <1>1, <1>3 DEF Goto
<1> QED
  BY <1>1, <1>2, <1>3

\* The checks of CHAPService.Set are behind whatever has a lock or a command.
LEMMA ChecksStep ==
  ASSUME TypeOK, [Next]_vars
  PROVE  PastChecks'
<1> USE DEF TypeOK, Typed, PastChecks
<1>1. ASSUME NEW c \in Clients, NEW r \in Requests, Refuse(c, r)
      PROVE  PastChecks'
  BY <1>1, RequestsTyped DEF Refuse, Finish
<1>2. ASSUME NEW c \in Clients, NEW r \in Requests, Accept(c, r)
      PROVE  PastChecks'
  BY <1>2, RequestsTyped DEF Accept, Goto, Admissible
<1>3. ASSUME NEW c \in Clients, Expire(c)
      PROVE  PastChecks'
  BY <1>3, RequestsTyped DEF Expire
<1>4. ASSUME NEW c \in Clients, Lock(c)
      PROVE  PastChecks'
  BY <1>4, RequestsTyped DEF Lock
<1>5. ASSUME NEW c \in Clients, ReadAuth(c)
      PROVE  PastChecks'
  BY <1>5, RequestsTyped DEF ReadAuth, Goto
<1>6. ASSUME NEW c \in Clients, ReadUser(c)
      PROVE  PastChecks'
  BY <1>6, RequestsTyped DEF ReadUser, Goto
<1>7. ASSUME NEW c \in Clients, ReadPass(c)
      PROVE  PastChecks'
  BY <1>7, RequestsTyped DEF ReadPass, Goto
<1>8. ASSUME NEW c \in Clients, ReadHints(c)
      PROVE  PastChecks'
  BY <1>8, HintsRead, RequestsTyped
<1>9. ASSUME NEW c \in Clients, Write(c)
      PROVE  PastChecks'
  BY <1>9, RequestsTyped DEF Write, Goto, AfterWrite
<1>10. ASSUME NEW c \in Clients, Fail(c)
      PROVE  PastChecks'
  BY <1>10, RequestsTyped DEF Fail, Finish
<1>11. ASSUME NEW c \in Clients, Reply(c)
      PROVE  PastChecks'
  BY <1>11, RequestsTyped DEF Reply
<1>12. CASE DeleteTarget
  BY <1>12, RequestsTyped DEF DeleteTarget
<1>13. CASE CreateTarget
  BY <1>13, RequestsTyped DEF CreateTarget
<1>14. CASE Crash
  BY <1>14, RequestsTyped DEF Crash
<1>15. CASE UNCHANGED vars
  BY <1>15, RequestsTyped DEF vars
<1> QED
  BY <1>1, <1>2, <1>3, <1>4, <1>5, <1>6, <1>7, <1>8, <1>9, <1>10, <1>11, <1>12, <1>13, <1>14, <1>15
     DEF Next, Serve, Command

\* Every step keeps the types, and a target that is gone without settings.
LEMMA TypedStep ==
  ASSUME TypeOK, [Next]_vars
  PROVE  Typed' /\ (~chap.exists => chap = Gone)'
<1> USE DEF TypeOK, Typed, PastChecks
<1>1. ASSUME NEW c \in Clients, NEW r \in Requests, Refuse(c, r)
      PROVE  Typed' /\ (~chap.exists => chap = Gone)'
  BY <1>1, RequestsTyped, AnswersTyped, SettingsTyped, StatesTyped DEF Refuse, Finish, Watch
<1>2. ASSUME NEW c \in Clients, NEW r \in Requests, Accept(c, r)
      PROVE  Typed' /\ (~chap.exists => chap = Gone)'
  BY <1>2, RequestsTyped, AnswersTyped, SettingsTyped, StatesTyped DEF Accept, Goto, Watch
<1>3. ASSUME NEW c \in Clients, Expire(c)
      PROVE  Typed' /\ (~chap.exists => chap = Gone)'
  BY <1>3, RequestsTyped, AnswersTyped, SettingsTyped, StatesTyped DEF Expire, Watch
<1>4. ASSUME NEW c \in Clients, Lock(c)
      PROVE  Typed' /\ (~chap.exists => chap = Gone)'
  BY <1>4, RequestsTyped, AnswersTyped, SettingsTyped, StatesTyped DEF Lock, Watch
<1>5. ASSUME NEW c \in Clients, ReadAuth(c)
      PROVE  Typed' /\ (~chap.exists => chap = Gone)'
  <2>1. got[c] \in States /\ chap.auth \in BOOLEAN
    BY DEF Settings, Values
  <2>2. got' = [got EXCEPT ![c] = [got[c] EXCEPT !.auth = chap.auth]]
    BY <1>5 DEF ReadAuth
  <2>3. got' \in [Clients -> States]
    BY <2>1, <2>2, StatesTyped
  <2> QED
    BY <1>5, <2>3 DEF ReadAuth, Goto, Watch
<1>6. ASSUME NEW c \in Clients, ReadUser(c)
      PROVE  Typed' /\ (~chap.exists => chap = Gone)'
  <2>1. got[c] \in States /\ ReadBack[chap.user] \in Values
    BY ConstantsOK DEF Settings, Values
  <2>2. got' = [got EXCEPT ![c] = [got[c] EXCEPT !.user = ReadBack[chap.user]]]
    BY <1>6 DEF ReadUser
  <2>3. got' \in [Clients -> States]
    BY <2>1, <2>2, StatesTyped
  <2> QED
    BY <1>6, <2>3 DEF ReadUser, Goto, Watch
<1>7. ASSUME NEW c \in Clients, ReadPass(c)
      PROVE  Typed' /\ (~chap.exists => chap = Gone)'
  <2>1. got[c] \in States /\ PasswordSet(chap.pass) \in BOOLEAN
    BY DEF Settings, Values, PasswordSet
  <2>2. got' = [got EXCEPT ![c] = [got[c] EXCEPT !.pass = PasswordSet(chap.pass)]]
    BY <1>7 DEF ReadPass
  <2>3. got' \in [Clients -> States]
    BY <2>1, <2>2, StatesTyped
  <2> QED
    BY <1>7, <2>3 DEF ReadPass, Goto, Watch
<1>8. ASSUME NEW c \in Clients, ReadHints(c)
      PROVE  Typed' /\ (~chap.exists => chap = Gone)'
  <2>1. CASE \E b \in BOOLEAN : Finish(c, Done(b, got[c]))
    <3>1. PICK b \in BOOLEAN : Finish(c, Done(b, got[c]))
      BY <2>1
    <3>2. Done(b, got[c]) \in Answers
      BY AnswersTyped
    <3> QED
      BY <1>8, <3>1, <3>2, AnswersTyped DEF ReadHints, Finish, Watch
  <2>2. CASE Goto(c, "setauth") /\ UNCHANGED <<wrote, got>>
    BY <1>8, <2>2 DEF ReadHints, Goto, Watch
  <2> QED
    BY <1>8, <2>1, <2>2 DEF ReadHints
<1>9. ASSUME NEW c \in Clients, Write(c)
      PROVE  Typed' /\ (~chap.exists => chap = Gone)'
  <2>1. Written(c) \in Settings /\ chap.exists /\ Written(c).exists
    BY <1>9, RequestsTyped, SettingsTyped DEF Write, Runs, Written, Settings
  <2>2. AfterWrite(c) \in {"setuser", "setpass", "auth"}
    BY <1>9 DEF Write, AfterWrite
  <2> QED
    BY <1>9, <2>1, <2>2, AnswersTyped DEF Write, Goto, Watch
<1>10. ASSUME NEW c \in Clients, Fail(c)
      PROVE  Typed' /\ (~chap.exists => chap = Gone)'
  <2>1. chap.exists /\ pc[c] \in Writing =>
           Written(c) \in Settings /\ Written(c).exists
    BY RequestsTyped, SettingsTyped DEF Written, Settings
  <2>2. chap' \in Settings /\ (~chap.exists => chap = Gone)'
    <3>1. CASE chap.exists /\ pc[c] \in Writing
      BY <1>10, <2>1, <3>1 DEF Fail
    <3>2. CASE ~(chap.exists /\ pc[c] \in Writing)
      BY <1>10, <3>2 DEF Fail
    <3> QED
      BY <3>1, <3>2
  <2>3. PICK a \in {Failed, Missing} : Finish(c, a)
    BY <1>10 DEF Fail
  <2> QED
    BY <1>10, <2>2, <2>3, AnswersTyped DEF Fail, Finish, Watch
<1>11. ASSUME NEW c \in Clients, Reply(c)
      PROVE  Typed' /\ (~chap.exists => chap = Gone)'
  BY <1>11, RequestsTyped, AnswersTyped, SettingsTyped, StatesTyped DEF Reply, Watch
<1>12. CASE DeleteTarget
  BY <1>12, RequestsTyped, AnswersTyped, SettingsTyped, StatesTyped DEF DeleteTarget, Watch
<1>13. CASE CreateTarget
  <2>1. chap' \in Settings /\ chap'.exists
    BY <1>13, SettingsTyped DEF CreateTarget, Fresh
  <2> QED
    BY <1>13, <2>1 DEF CreateTarget, Watch
<1>14. CASE Crash
  BY <1>14, RequestsTyped, AnswersTyped, SettingsTyped, StatesTyped DEF Crash, Watch
<1>15. CASE UNCHANGED vars
  BY <1>15, RequestsTyped, AnswersTyped, SettingsTyped, StatesTyped DEF vars
<1> QED
  BY <1>1, <1>2, <1>3, <1>4, <1>5, <1>6, <1>7, <1>8, <1>9, <1>10, <1>11, <1>12, <1>13, <1>14, <1>15
     DEF Next, Serve, Command

\* Who holds the mutex, and what is left on a request.
LEMMA MutexStep ==
  ASSUME TypeOK, MutexHeldToSet, Tidy, [Next]_vars
  PROVE  MutexHeldToSet' /\ Tidy'
<1> USE DEF TypeOK, Typed, PastChecks, MutexHeldToSet, Tidy
<1>1. ASSUME NEW c \in Clients, NEW r \in Requests, Refuse(c, r)
      PROVE  MutexHeldToSet' /\ Tidy'
  BY <1>1, RequestsTyped, ConstantsOK DEF Refuse, Finish
<1>2. ASSUME NEW c \in Clients, NEW r \in Requests, Accept(c, r)
      PROVE  MutexHeldToSet' /\ Tidy'
  BY <1>2, RequestsTyped, ConstantsOK DEF Accept, Goto
<1>3. ASSUME NEW c \in Clients, Expire(c)
      PROVE  MutexHeldToSet' /\ Tidy'
  BY <1>3, RequestsTyped, ConstantsOK DEF Expire
<1>4. ASSUME NEW c \in Clients, Lock(c)
      PROVE  MutexHeldToSet' /\ Tidy'
  BY <1>4, RequestsTyped, ConstantsOK DEF Lock
<1>5. ASSUME NEW c \in Clients, ReadAuth(c)
      PROVE  MutexHeldToSet' /\ Tidy'
  BY <1>5, RequestsTyped, ConstantsOK DEF ReadAuth, Goto
<1>6. ASSUME NEW c \in Clients, ReadUser(c)
      PROVE  MutexHeldToSet' /\ Tidy'
  BY <1>6, RequestsTyped, ConstantsOK DEF ReadUser, Goto
<1>7. ASSUME NEW c \in Clients, ReadPass(c)
      PROVE  MutexHeldToSet' /\ Tidy'
  BY <1>7, RequestsTyped, ConstantsOK DEF ReadPass, Goto
<1>8. ASSUME NEW c \in Clients, ReadHints(c)
      PROVE  MutexHeldToSet' /\ Tidy'
  <2>1. CASE \E a : Finish(c, a)
    BY <1>8, <2>1, ConstantsOK DEF ReadHints, Finish
  <2>2. CASE /\ Goto(c, "setauth")
             /\ req[c].op = "set" /\ ~wrote[c]
             /\ UNCHANGED <<wrote, got>>
    BY <1>8, <2>2 DEF ReadHints, Goto
  <2> QED
    BY <1>8, <2>1, <2>2 DEF ReadHints
<1>9. ASSUME NEW c \in Clients, Write(c)
      PROVE  MutexHeldToSet' /\ Tidy'
  BY <1>9, RequestsTyped, ConstantsOK DEF Write, Goto, AfterWrite
<1>10. ASSUME NEW c \in Clients, Fail(c)
      PROVE  MutexHeldToSet' /\ Tidy'
  BY <1>10, RequestsTyped, ConstantsOK DEF Fail, Finish
<1>11. ASSUME NEW c \in Clients, Reply(c)
      PROVE  MutexHeldToSet' /\ Tidy'
  BY <1>11, RequestsTyped, ConstantsOK DEF Reply
<1>12. CASE DeleteTarget
  BY <1>12, RequestsTyped, ConstantsOK DEF DeleteTarget
<1>13. CASE CreateTarget
  BY <1>13, RequestsTyped, ConstantsOK DEF CreateTarget
<1>14. CASE Crash
  BY <1>14, RequestsTyped, ConstantsOK DEF Crash
<1>15. CASE UNCHANGED vars
  BY <1>15, RequestsTyped, ConstantsOK DEF vars
<1> QED
  BY <1>1, <1>2, <1>3, <1>4, <1>5, <1>6, <1>7, <1>8, <1>9, <1>10, <1>11, <1>12, <1>13, <1>14, <1>15
     DEF Next, Serve, Command

\* Only the holder of the mutex and a deletion change the settings.
LEMMA ReadsStep ==
  ASSUME TypeOK, MutexHeldToSet, Tidy, ReadsHold, [Next]_vars
  PROVE  ReadsHold'
<1> USE DEF TypeOK, Typed, PastChecks, MutexHeldToSet, Tidy, ReadsHold
<1>1. ASSUME NEW c \in Clients, NEW r \in Requests, Refuse(c, r)
      PROVE  ReadsHold'
  BY <1>1, RequestsTyped DEF Refuse, Finish
<1>2. ASSUME NEW c \in Clients, NEW r \in Requests, Accept(c, r)
      PROVE  ReadsHold'
  BY <1>2, RequestsTyped DEF Accept, Goto
<1>3. ASSUME NEW c \in Clients, Expire(c)
      PROVE  ReadsHold'
  BY <1>3, RequestsTyped DEF Expire
<1>4. ASSUME NEW c \in Clients, Lock(c)
      PROVE  ReadsHold'
  BY <1>4, RequestsTyped DEF Lock
<1>5. ASSUME NEW c \in Clients, ReadAuth(c)
      PROVE  ReadsHold'
  BY <1>5, RequestsTyped DEF ReadAuth, Goto
<1>6. ASSUME NEW c \in Clients, ReadUser(c)
      PROVE  ReadsHold'
  BY <1>6, ConstantsOK DEF ReadUser, Goto
<1>7. ASSUME NEW c \in Clients, ReadPass(c)
      PROVE  ReadsHold'
  BY <1>7, RequestsTyped DEF ReadPass, Goto
<1>8. ASSUME NEW c \in Clients, ReadHints(c)
      PROVE  ReadsHold'
  <2>1. /\ \A d \in Clients \ {c} : pc'[d] = pc[d] /\ got'[d] = got[d]
        /\ pc'[c] \in {"reply", "setauth"}
        /\ UNCHANGED <<chap, req, reborn>>
    BY <1>8, HintsRead
  <2> QED
    BY <2>1
<1>9. ASSUME NEW c \in Clients, Write(c)
      PROVE  ReadsHold'
  BY <1>9, RequestsTyped DEF Write, Goto, AfterWrite
<1>10. ASSUME NEW c \in Clients, Fail(c)
      PROVE  ReadsHold'
  BY <1>10, RequestsTyped DEF Fail, Finish
<1>11. ASSUME NEW c \in Clients, Reply(c)
      PROVE  ReadsHold'
  BY <1>11, RequestsTyped DEF Reply
<1>12. CASE DeleteTarget
  BY <1>12, RequestsTyped DEF DeleteTarget
<1>13. CASE CreateTarget
  <2>1. /\ chap'.auth = chap.auth /\ chap'.user = chap.user
        /\ chap'.pass = chap.pass
    <3>1. chap = Gone /\ chap' = Fresh
      BY <1>13 DEF CreateTarget
    <3> QED
      BY <3>1 DEF Gone, Fresh
  <2> QED
    BY <1>13, <2>1 DEF CreateTarget, PasswordSet
<1>14. CASE Crash
  BY <1>14, RequestsTyped DEF Crash
<1>15. CASE UNCHANGED vars
  BY <1>15, RequestsTyped DEF vars
<1> QED
  BY <1>1, <1>2, <1>3, <1>4, <1>5, <1>6, <1>7, <1>8, <1>9, <1>10, <1>11, <1>12, <1>13, <1>14, <1>15
     DEF Next, Serve, Command

\* What the three writing commands make of the fields.
LEMMA WrittenFields ==
  ASSUME TypeOK, NEW c \in Clients, pc[c] \in Writing
  PROVE  /\ Written(c).exists = chap.exists
         /\ Written(c).auth =
              IF pc[c] = "setauth" THEN req[c].enabled ELSE chap.auth
         /\ Written(c).user =
              IF pc[c] = "setuser" THEN req[c].user ELSE chap.user
         /\ Written(c).pass =
              IF pc[c] = "setpass" THEN req[c].pass ELSE chap.pass
<1>1. chap \in Settings
  BY DEF TypeOK, Typed
<1>2. CASE pc[c] = "setauth"
  BY <1>1, <1>2 DEF Written, Settings
<1>3. CASE pc[c] = "setuser"
  BY <1>1, <1>3 DEF Written, Settings
<1>4. CASE pc[c] = "setpass"
  BY <1>1, <1>4 DEF Written, Settings
<1> QED
  BY <1>2, <1>3, <1>4

\* A request that writes is the only one that works on the settings.
LEMMA WriterAlone ==
  ASSUME TypeOK, MutexHeldToSet, NEW c \in Clients, pc[c] \in Writing
  PROVE  \A d \in Clients \ {c} :
           pc[d] \notin Writing /\ (pc[d] \in Reading => req[d].op # "set")
BY DEF TypeOK, PastChecks, MutexHeldToSet

\* A target is created with the settings that one that is gone has.
LEMMA CreatedAsGone ==
  ASSUME TypeOK, CreateTarget
  PROVE  /\ chap'.auth = chap.auth /\ chap'.user = chap.user
         /\ chap'.pass = chap.pass
         /\ ~chap'.auth /\ chap'.user = None /\ chap'.pass = None
<1>1. chap = Gone /\ chap' = Fresh
  BY DEF CreateTarget, TypeOK
<1> QED
  BY <1>1 DEF Gone, Fresh

\* The commands of a PUT build on what it wrote before.
LEMMA BuildStep ==
  ASSUME TypeOK, MutexHeldToSet, Tidy, WritesBuildUp, [Next]_vars
  PROVE  WritesBuildUp'
<1> USE DEF TypeOK, Typed, PastChecks, MutexHeldToSet, Tidy, WritesBuildUp
<1>1. ASSUME NEW c \in Clients, NEW r \in Requests, Refuse(c, r)
      PROVE  WritesBuildUp'
  BY <1>1, RequestsTyped DEF Refuse, Finish
<1>2. ASSUME NEW c \in Clients, NEW r \in Requests, Accept(c, r)
      PROVE  WritesBuildUp'
  BY <1>2, RequestsTyped DEF Accept, Goto
<1>3. ASSUME NEW c \in Clients, Expire(c)
      PROVE  WritesBuildUp'
  BY <1>3, RequestsTyped DEF Expire
<1>4. ASSUME NEW c \in Clients, Lock(c)
      PROVE  WritesBuildUp'
  BY <1>4, RequestsTyped DEF Lock
<1>5. ASSUME NEW c \in Clients, ReadAuth(c)
      PROVE  WritesBuildUp'
  BY <1>5, RequestsTyped DEF ReadAuth, Goto
<1>6. ASSUME NEW c \in Clients, ReadUser(c)
      PROVE  WritesBuildUp'
  BY <1>6, RequestsTyped DEF ReadUser, Goto
<1>7. ASSUME NEW c \in Clients, ReadPass(c)
      PROVE  WritesBuildUp'
  BY <1>7, RequestsTyped DEF ReadPass, Goto
<1>8. ASSUME NEW c \in Clients, ReadHints(c)
      PROVE  WritesBuildUp'
  <2>1. /\ \A d \in Clients \ {c} : pc'[d] = pc[d] /\ wrote'[d] = wrote[d]
        /\ pc'[c] \in {"reply", "setauth"}
        /\ UNCHANGED <<chap, req, reborn>>
    BY <1>8, HintsRead
  <2> QED
    BY <2>1
<1>9. ASSUME NEW c \in Clients, Write(c)
      PROVE  WritesBuildUp'
  <2>1. \A d \in Clients \ {c} :
           /\ pc'[d] = pc[d] /\ pc[d] \notin Writing
           /\ wrote'[d] = wrote[d] /\ ~wrote[d]
    BY <1>9, WriterAlone DEF Write, Goto
  <2>2. /\ pc[c] \in Writing
        /\ pc'[c] = AfterWrite(c)
        /\ wrote'[c] <=> AfterWrite(c) = "auth"
        /\ UNCHANGED <<req, reborn>>
    BY <1>9 DEF Write, Goto
  <2>3. /\ chap'.auth = IF pc[c] = "setauth" THEN req[c].enabled ELSE chap.auth
        /\ chap'.user = IF pc[c] = "setuser" THEN req[c].user ELSE chap.user
        /\ chap'.pass = IF pc[c] = "setpass" THEN req[c].pass ELSE chap.pass
    BY <1>9, <2>2, WrittenFields DEF Write
  <2>4. req[c].enabled \in BOOLEAN /\ chap.auth \in BOOLEAN
    BY RequestsTyped DEF Settings
  <2>5. CASE pc[c] = "setauth"
    BY <2>1, <2>2, <2>3, <2>4, <2>5 DEF AfterWrite
  <2>6. CASE pc[c] = "setuser"
    BY <2>1, <2>2, <2>3, <2>6 DEF AfterWrite
  <2>7. CASE pc[c] = "setpass"
    BY <2>1, <2>2, <2>3, <2>4, <2>7 DEF AfterWrite
  <2> QED
    BY <2>2, <2>5, <2>6, <2>7
<1>10. ASSUME NEW c \in Clients, Fail(c)
      PROVE  WritesBuildUp'
  <2>1. CASE chap' = chap
    BY <1>10, <2>1 DEF Fail, Finish
  <2>2. CASE pc[c] \in Writing
    BY <1>10, <2>2, WriterAlone DEF Fail, Finish
  <2> QED
    BY <1>10, <2>1, <2>2 DEF Fail
<1>11. ASSUME NEW c \in Clients, Reply(c)
      PROVE  WritesBuildUp'
  BY <1>11, RequestsTyped DEF Reply
<1>12. CASE DeleteTarget
  BY <1>12, RequestsTyped DEF DeleteTarget, Gone
<1>13. CASE CreateTarget
  BY <1>13, CreatedAsGone DEF CreateTarget
<1>14. CASE Crash
  BY <1>14, RequestsTyped DEF Crash
<1>15. CASE UNCHANGED vars
  BY <1>15, RequestsTyped DEF vars
<1> QED
  BY <1>1, <1>2, <1>3, <1>4, <1>5, <1>6, <1>7, <1>8, <1>9, <1>10, <1>11, <1>12, <1>13, <1>14, <1>15
     DEF Next, Serve, Command

\* A GET is a witness of what a PUT writes beside it.
LEMMA WitnessWritten ==
  ASSUME TypeOK, MutexHeldToSet, Tidy, Witnessed, ReadyWasReady,
         NEW c \in Clients, pc[c] \in Writing, chap' = Written(c), Watch,
         \A d \in Clients \ {c} : pc'[d] = pc[d] /\ got'[d] = got[d],
         pc'[c] \in {"setpass", "auth", "reply"} \union
           (IF pc[c] = "setauth" /\ req[c].enabled THEN {"setuser"} ELSE {}),
         pc[c] = "setauth" => pc'[c] # "setpass",
         \A d \in Clients : ans'[d] = ans[d] \/ ans'[d].status # "ok",
         UNCHANGED <<req, reborn>>
  PROVE  Witnessed' /\ ReadyWasReady'
<1>1. /\ chap'.exists = chap.exists
      /\ chap'.auth = IF pc[c] = "setauth" THEN req[c].enabled ELSE chap.auth
      /\ chap'.user = IF pc[c] = "setuser" THEN req[c].user ELSE chap.user
      /\ chap'.pass = IF pc[c] = "setpass" THEN req[c].pass ELSE chap.pass
  BY WrittenFields
<1>2. /\ req[c].op = "set"
      /\ pc[c] \in {"setuser", "setpass"} =>
           req[c].enabled /\ req[c].user # None /\ req[c].pass # None
  BY DEF TypeOK, PastChecks, Tidy
<1>3. \A d \in Clients \ {c} : pc[d] \notin Writing
  BY WriterAlone
<1>4. \A d \in Clients : witness[d] /\ pc'[d] \in {"user", "pass", "hints", "reply"}
                        => witness'[d]
  BY DEF Watch
<1>5. \A d \in Clients : Ready(chap') /\ pc'[d] \in {"user", "pass", "hints", "reply"}
                        => witness'[d]
  BY DEF Watch
<1>6. ReadyWasReady'
  BY <1>2, <1>4 DEF ReadyWasReady, Tidy, NoAnswer, Answer
<1>7. ASSUME NEW g \in Clients, (req[g].op = "get" /\ ~reborn[g])',
             pc'[g] \in {"user", "pass", "hints"}
      PROVE  /\ chap'.exists
             /\ got'[g].auth => \A w \in Clients : pc'[w] \in {"setuser", "setpass"} => chap'.auth
             /\ got'[g].auth /\ chap'.user # None /\ chap'.pass # None => witness'[g]
             /\ pc'[g] \in {"pass", "hints"} /\ got'[g].user # None => chap'.user # None
             /\ pc'[g] = "hints" /\ got'[g].pass => chap'.pass # None
  <2>1. /\ g # c /\ pc'[g] = pc[g] /\ got'[g] = got[g]
        /\ req[g].op = "get" /\ ~reborn[g]
    BY <1>2, <1>7
  <2>2. /\ chap.exists
        /\ got[g].auth /\ pc[c] \in {"setuser", "setpass"} => chap.auth
        /\ got[g].auth /\ chap.user # None /\ chap.pass # None => witness[g]
        /\ pc[g] \in {"pass", "hints"} /\ got[g].user # None => chap.user # None
        /\ pc[g] = "hints" /\ got[g].pass => chap.pass # None
    BY <2>1, <1>7 DEF Witnessed
  <2>3. got[g].auth => \A w \in Clients : pc'[w] \in {"setuser", "setpass"} => chap'.auth
    BY <1>1, <1>2, <1>3, <2>2
  <2>4. got[g].auth /\ chap'.user # None /\ chap'.pass # None => witness'[g]
    BY <1>1, <1>4, <1>5, <1>7, <2>1, <2>2 DEF Ready
  <2> QED
    BY <1>1, <1>2, <2>1, <2>2, <2>3, <2>4
<1> QED
  BY <1>6, <1>7 DEF Witnessed

\* A step after which no GET has read more, and none is answered.
LEMMA NothingSeen ==
  ASSUME TypeOK, Tidy, Witnessed, ReadyWasReady, Watch, UNCHANGED chap,
         \A d \in Clients : pc'[d] \in {"user", "pass", "hints"} =>
           /\ pc[d] = pc'[d] /\ got'[d] = got[d]
           /\ req'[d] = req[d] /\ reborn'[d] = reborn[d],
         \A d \in Clients : pc'[d] \in {"setuser", "setpass"} => pc[d] = pc'[d],
         \A d \in Clients : ans'[d].status = "ok" =>
           /\ ans'[d] = ans[d] /\ pc'[d] = pc[d]
           /\ req'[d] = req[d] /\ reborn'[d] = reborn[d]
  PROVE  Witnessed' /\ ReadyWasReady'
<1>1. \A d \in Clients : witness[d] /\ pc'[d] \in {"user", "pass", "hints", "reply"}
                        => witness'[d]
  BY DEF Watch
<1>2. ReadyWasReady'
  BY <1>1 DEF ReadyWasReady, Tidy, NoAnswer, Answer
<1>3. Witnessed'
  BY <1>1 DEF Witnessed
<1> QED
  BY <1>2, <1>3

\* Whatever a GET reads in turn, it has been a witness of it.
LEMMA WitnessStep ==
  ASSUME TypeOK, MutexHeldToSet, Tidy, Witnessed,
         ReadyWasReady, [Next]_vars
  PROVE  Witnessed' /\ ReadyWasReady'
<1> USE DEF TypeOK, Typed, PastChecks, Tidy, Witnessed, ReadyWasReady
<1>1. ASSUME NEW c \in Clients, NEW r \in Requests, Refuse(c, r)
      PROVE  Witnessed' /\ ReadyWasReady'
  BY <1>1, RequestsTyped, NothingSeen DEF Refuse, Finish, Refused, Answer, NoAnswer
<1>2. ASSUME NEW c \in Clients, NEW r \in Requests, Accept(c, r)
      PROVE  Witnessed' /\ ReadyWasReady'
  BY <1>2, RequestsTyped, NothingSeen DEF Accept, Goto, NoAnswer, Answer
<1>3. ASSUME NEW c \in Clients, Expire(c)
      PROVE  Witnessed' /\ ReadyWasReady'
  BY <1>3, RequestsTyped, NothingSeen DEF Expire, NoAnswer, Answer
<1>4. ASSUME NEW c \in Clients, Lock(c)
      PROVE  Witnessed' /\ ReadyWasReady'
  BY <1>4, RequestsTyped, NothingSeen DEF Lock, NoAnswer, Answer
<1>5. ASSUME NEW c \in Clients, ReadAuth(c)
      PROVE  Witnessed' /\ ReadyWasReady'
  BY <1>5 DEF ReadAuth, Goto, Runs, Watch, Ready, NoAnswer, Answer
<1>6. ASSUME NEW c \in Clients, ReadUser(c)
      PROVE  Witnessed' /\ ReadyWasReady'
  <2>1. ReadBack[chap.user] # None => chap.user # None
    BY ConstantsOK
  <2> QED
    BY <1>6, <2>1 DEF ReadUser, Goto, Watch, NoAnswer, Answer
<1>7. ASSUME NEW c \in Clients, ReadPass(c)
      PROVE  Witnessed' /\ ReadyWasReady'
  <2>1. PasswordSet(chap.pass) => chap.pass # None
    BY ConstantsOK DEF PasswordSet
  <2> QED
    BY <1>7, <2>1 DEF ReadPass, Goto, Watch, NoAnswer, Answer
<1>8. ASSUME NEW c \in Clients, ReadHints(c)
      PROVE  Witnessed' /\ ReadyWasReady'
  <2>1. /\ \A d \in Clients \ {c} :
              pc'[d] = pc[d] /\ got'[d] = got[d] /\ ans'[d] = ans[d]
        /\ UNCHANGED <<chap, req, reborn>>
        /\ pc[c] = "hints" /\ pc'[c] \in {"reply", "setauth"}
    BY <1>8, HintsRead
  <2>2. req[c].op = "get" => ans'[c].state = got[c] /\ pc'[c] = "reply"
    BY <1>8 DEF ReadHints, Finish, Done, Answer
  <2>3. pc'[c] = "setauth" => ans'[c] = ans[c]
    BY <1>8 DEF ReadHints, Finish, Goto
  <2>4. \A d \in Clients :
           pc[d] \in {"user", "pass", "hints", "reply"}
             /\ pc'[d] \in {"user", "pass", "hints", "reply"}
           => (witness[d] => witness'[d])
    BY <1>8 DEF ReadHints, Watch
  <2>5. Witnessed'
    BY <2>1, <2>4
  <2>6. ReadyWasReady'
    BY <2>1, <2>2, <2>3, <2>4 DEF NoAnswer, Answer
  <2> QED
    BY <2>5, <2>6
<1>9. ASSUME NEW c \in Clients, Write(c)
      PROVE  Witnessed' /\ ReadyWasReady'
  <2>1. chap' = Written(c) /\ pc[c] \in Writing /\ Watch
    BY <1>9 DEF Write
  <2>2. /\ \A d \in Clients \ {c} :
              pc'[d] = pc[d] /\ got'[d] = got[d]
        /\ pc'[c] \in {"setpass", "auth"} \union
             (IF pc[c] = "setauth" /\ req[c].enabled THEN {"setuser"} ELSE {})
        /\ pc[c] = "setauth" => pc'[c] # "setpass"
        /\ UNCHANGED <<req, reborn, ans>>
    BY <1>9 DEF Write, Goto, AfterWrite
  <2> QED
    BY <2>1, <2>2, WitnessWritten
<1>10. ASSUME NEW c \in Clients, Fail(c)
      PROVE  Witnessed' /\ ReadyWasReady'
  <2>1. /\ \A d \in Clients \ {c} :
              pc'[d] = pc[d] /\ got'[d] = got[d] /\ ans'[d] = ans[d]
        /\ pc'[c] = "reply" /\ ans'[c].status # "ok"
        /\ UNCHANGED <<req, reborn>> /\ Watch
    BY <1>10 DEF Fail, Finish, Failed, Missing, Answer
  <2>2. CASE chap' = chap
    BY <2>1, <2>2, NothingSeen
  <2>3. CASE chap' = Written(c) /\ pc[c] \in Writing
    BY <2>1, <2>3, WitnessWritten
  <2> QED
    BY <1>10, <2>2, <2>3 DEF Fail
<1>11. ASSUME NEW c \in Clients, Reply(c)
      PROVE  Witnessed' /\ ReadyWasReady'
  <2>1. /\ pc'[c] = "idle" /\ ans'[c].status = "none"
        /\ UNCHANGED <<chap, got>> /\ Watch
    BY <1>11 DEF Reply, NoAnswer, Answer
  <2>2. \A d \in Clients \ {c} :
           /\ pc'[d] = pc[d] /\ req'[d] = req[d]
           /\ reborn'[d] = reborn[d] /\ ans'[d] = ans[d]
    BY <1>11 DEF Reply
  <2> QED
    BY <2>1, <2>2, NothingSeen
<1>12. CASE DeleteTarget
  <2>1. \A d \in Clients : pc[d] \in {"user", "pass", "hints"} => reborn'[d]
    BY <1>12 DEF DeleteTarget
  <2>2. \A d \in Clients :
           /\ pc[d] = "reply" /\ witness[d] => witness'[d]
           /\ pc[d] = "reply" => reborn'[d] = reborn[d]
    BY <1>12 DEF DeleteTarget, Watch
  <2>3. Witnessed'
    BY <1>12, <2>1 DEF DeleteTarget
  <2>4. ReadyWasReady'
    BY <1>12, <2>2 DEF DeleteTarget, NoAnswer, Answer
  <2> QED
    BY <2>3, <2>4
<1>13. CASE CreateTarget
  <2>1. \A d \in Clients : req[d].op = "get" /\ ~reborn[d] =>
           pc[d] \notin {"user", "pass", "hints"}
    BY <1>13 DEF CreateTarget
  <2>2. \A d \in Clients :
           pc[d] = "reply" /\ witness[d] => witness'[d]
    BY <1>13 DEF CreateTarget, Watch
  <2>3. Witnessed'
    BY <1>13, <2>1 DEF CreateTarget
  <2>4. ReadyWasReady'
    BY <1>13, <2>2 DEF CreateTarget, NoAnswer, Answer
  <2> QED
    BY <2>3, <2>4
<1>14. CASE Crash
  BY <1>14, RequestsTyped, NothingSeen DEF Crash, NoAnswer, Answer
<1>15. CASE UNCHANGED vars
  BY <1>15 DEF vars
<1> QED
  BY <1>1, <1>2, <1>3, <1>4, <1>5, <1>6, <1>7, <1>8, <1>9, <1>10, <1>11, <1>12, <1>13, <1>14, <1>15
     DEF Next, Serve, Command

\* No userid that may be set is printed like another that is asked for: none has
\* a "=" before the rest of another, or quotes around it.
UsersToldApart == \A u \in Users, v \in Users \union {None} : ReadBack[v] = u => v = u

\* Only the end of a PUT's last reading answers it "ok".
LEMMA AnswerStep ==
  ASSUME Inductive, Next, UsersToldApart,
         NEW c \in Clients, req[c].op = "set", ans'[c] # ans[c],
         ans'[c].status = "ok", ~reborn[c]
  PROVE  /\ chap'.auth = req[c].enabled
         /\ ans'[c].state = [auth |-> chap'.auth, user |-> ReadBack[chap'.user],
                             pass |-> PasswordSet(chap'.pass)]
         /\ req[c].enabled => chap'.user = req[c].user
         /\ req[c].enabled /\ ans'[c].changed => chap'.pass = req[c].pass
<1> USE DEF Inductive, TypeOK, Typed
<1>1. ReadHints(c)
  <2> USE DEF NoAnswer, Failed, Missing, Refused, Answer
  <2>1. ASSUME NEW d \in Clients, NEW r \in Requests, Refuse(d, r)
        PROVE  FALSE
    BY <2>1 DEF Refuse, Finish
  <2>2. ASSUME NEW d \in Clients, NEW r \in Requests, Accept(d, r)
        PROVE  FALSE
    BY <2>2 DEF Accept, Goto
  <2>3. ASSUME NEW d \in Clients, Expire(d) \/ Lock(d) \/ ReadAuth(d)
                 \/ ReadUser(d) \/ ReadPass(d) \/ Write(d)
        PROVE  FALSE
    BY <2>3 DEF Expire, Lock, ReadAuth, ReadUser, ReadPass, Write, Goto
  <2>4. ASSUME NEW d \in Clients, Fail(d)
        PROVE  FALSE
    BY <2>4 DEF Fail, Finish
  <2>5. ASSUME NEW d \in Clients, Reply(d)
        PROVE  FALSE
    BY <2>5 DEF Reply
  <2>6. ASSUME DeleteTarget \/ CreateTarget \/ Crash
        PROVE  FALSE
    BY <2>6 DEF DeleteTarget, CreateTarget, Crash
  <2>7. ASSUME NEW d \in Clients, ReadHints(d)
        PROVE  d = c
    BY <2>7 DEF ReadHints, Finish, Goto
  <2> QED
    BY <2>1, <2>2, <2>3, <2>4, <2>5, <2>6, <2>7 DEF Next, Serve, Command
<1>2. UNCHANGED chap /\ pc[c] = "hints"
  BY <1>1 DEF ReadHints
<1>3. /\ got[c] \in States
      /\ got[c].auth = chap.auth /\ got[c].user = ReadBack[chap.user]
      /\ got[c].pass = PasswordSet(chap.pass)
  BY <1>2 DEF ReadsHold
<1>4. got[c] = [auth |-> chap.auth, user |-> ReadBack[chap.user],
                pass |-> PasswordSet(chap.pass)]
  BY <1>3 DEF States
<1>5. CASE wrote[c] /\ Finish(c, Done(TRUE, got[c]))
  <2>1. /\ chap.auth = req[c].enabled
        /\ req[c].enabled => chap.user = req[c].user /\ chap.pass = req[c].pass
    BY <1>2, <1>5 DEF WritesBuildUp
  <2>2. ans'[c].state = got[c] /\ ans'[c].changed
    BY <1>5 DEF Finish, Done, Answer
  <2> QED
    BY <1>2, <1>4, <2>1, <2>2
<1>6. CASE AsItIs(req[c], got[c]) /\ Finish(c, Done(FALSE, got[c]))
  <2>1. ans'[c].state = got[c] /\ ~ans'[c].changed
    BY <1>6 DEF Finish, Done, Answer
  <2>2. /\ req[c].enabled \in BOOLEAN /\ chap.auth \in BOOLEAN
    BY RequestsTyped DEF Settings
  <2>3. /\ chap.auth = req[c].enabled
        /\ req[c].enabled => ReadBack[chap.user] = req[c].user
    BY <1>3, <1>6, <2>2 DEF AsItIs
  <2>4. req[c].enabled => chap.user = req[c].user
    <3> SUFFICES ASSUME req[c].enabled PROVE chap.user = req[c].user
      OBVIOUS
    <3>1. req[c].user \in Users
      BY <1>2, RequestsTyped DEF PastChecks
    <3>2. chap.user \in Users \union {None}
      BY DEF Settings
    <3> QED
      BY <2>3, <3>1, <3>2 DEF UsersToldApart
  <2> QED
    BY <1>2, <1>4, <2>1, <2>3, <2>4
<1> QED
  BY <1>1, <1>5, <1>6, RequestsTyped DEF ReadHints, Goto

\* The invariant holds as the agent starts.
LEMMA InductiveStart == Init => Inductive
<1> SUFFICES ASSUME Init PROVE Inductive
  OBVIOUS
<1> USE DEF Init
<1>1. chap \in Settings /\ (~chap.exists => chap = Gone)
  <2>1. Fresh.exists
    BY DEF Fresh
  <2> QED
    BY <2>1, SettingsTyped
<1>2. TypeOK
  BY <1>1, RequestsTyped, AnswersTyped, ConstantsOK DEF TypeOK, Typed, PastChecks
<1>3. NoRequest.op # "set" /\ NoAnswer.status # "ok"
  BY DEF NoRequest, Request, NoAnswer, Answer
<1> QED
  BY <1>2, <1>3, ConstantsOK
     DEF Inductive, MutexHeldToSet, Tidy, ReadsHold, WritesBuildUp, Witnessed,
         ReadyWasReady

\* Every step keeps it.
LEMMA InductiveStep == Inductive /\ [Next]_vars => Inductive'
<1> SUFFICES ASSUME Inductive, [Next]_vars PROVE Inductive'
  OBVIOUS
<1> USE DEF Inductive
<1>1. TypeOK'
  BY ChecksStep, TypedStep DEF TypeOK
<1>2. MutexHeldToSet' /\ Tidy'
  BY MutexStep
<1>3. ReadsHold'
  BY ReadsStep
<1>4. WritesBuildUp'
  BY BuildStep
<1>5. Witnessed' /\ ReadyWasReady'
  BY WitnessStep
<1> QED
  BY <1>1, <1>2, <1>3, <1>4, <1>5

\* The inductive invariant holds in every state the service reaches.
THEOREM Invariance == Spec => []Inductive
BY InductiveStart, InductiveStep, PTL DEF Spec

\* Every variable keeps its type, and no request that would enable CHAP without
\* credentials gets past the checks of CHAPService.Set.
THEOREM TypeCorrect == Spec => []TypeOK
<1>1. Inductive => TypeOK
  BY DEF Inductive
<1> QED
  BY <1>1, Invariance, PTL

\* The mutex of the CHAP service belongs to exactly the PUT that works on the
\* settings: no way out of CHAPService.Set leaks it, and none bypasses it.
THEOREM MutexAlwaysHeldToSet == Spec => []MutexHeldToSet
<1>1. Inductive => MutexHeldToSet
  BY DEF Inductive
<1> QED
  BY <1>1, Invariance, PTL

\* Whatever other requests do, each command of TargetCLI.SetCHAP finds what the
\* commands before it have written.
THEOREM WritesAlwaysBuildUp == Spec => []WritesBuildUp
<1>1. Inductive => WritesBuildUp
  BY DEF Inductive
<1> QED
  BY <1>1, Invariance, PTL

\* A GET without a lock never reports a target ready for CHAP that has not been
\* so while it read: the order of the commands of GetCHAP and SetCHAP sees to it.
THEOREM ReadyIsNeverInvented == Spec => []ReadyWasReady
<1>1. Inductive => ReadyWasReady
  BY DEF Inductive
<1> QED
  BY <1>1, Invariance, PTL

\* As CHAPService.Set answers "ok", whether anything was changed or not, CHAP is as
\* it was asked, with the userid that was asked for, and the answer reports what
\* is set: for any number of requests and any values, if no userid is printed like
\* another.
THEOREM SetAnswersHold ==
  ASSUME UsersToldApart
  PROVE  Spec => SetAnswerHolds
<1>1. Inductive /\ [Next]_vars =>
        [\A c \in Clients :
           /\ req[c].op = "set"
           /\ ans'[c] # ans[c] /\ ans'[c].status = "ok"
           /\ ~reborn[c]
           => /\ chap'.auth = req[c].enabled
              /\ ans'[c].state = [auth |-> chap'.auth, user |-> ReadBack[chap'.user],
                                  pass |-> PasswordSet(chap'.pass)]
              /\ req[c].enabled => chap'.user = req[c].user
              /\ req[c].enabled /\ ans'[c].changed => chap'.pass = req[c].pass]_vars
  BY AnswerStep, UsersToldApart
<1> QED
  BY <1>1, UsersToldApart, Invariance, PTL DEF Spec, SetAnswerHolds
=============================================================================
