----------------------------- MODULE AuditTrail -----------------------------
(***************************************************************************)
(* The audit log of the agent: the records that the handlers of changes    *)
(* add once their service has returned, and what a listing picks of them.  *)
(*                                                                         *)
(* Requests are numbered in the order in which they come; the numbers, and *)
(* what each asked for and came to, are there for the properties.          *)
(***************************************************************************)
EXTENDS Integers, FiniteSets, SequencesExt

CONSTANTS
  Clients,       \* requests that may be in progress at the same time
  Asked,         \* the changes they ask for: [action, target]
  Malformed,     \* a body that cannot be decoded
  NoTarget,      \* the target of a change that has none
  MaxItems,      \* the capacity the log is made with
  DefaultLimit,  \* how much a listing shows that does not say
  LimitCap,      \* how much a listing shows at most
  MaxRequests    \* bound of the model: requests between two starts

ASSUME ConstantsOK ==
  /\ Malformed \notin Asked
  /\ MaxItems \in Int /\ DefaultLimit \in Nat \ {0} /\ LimitCap \in Nat \ {0}
  /\ MaxRequests \in Nat

Ids     == 1..MaxRequests
Results == {"success", "failed"}
Record(id, asked, result) ==
  [id |-> id, action |-> asked.action, target |-> asked.target, result |-> result]
Records == {Record(id, a, r) : id \in Ids, a \in Asked, r \in Results}

VARIABLES
  items,    \* the records of the log, oldest first
  log,      \* every record since the start of the agent
  begun,    \* how many requests have come since
  pc,       \* pc[c]: what the handler of c does next
  current,  \* current[c]: the number of its request
  asked,    \* asked[id]: what request id asks for
  result,   \* result[id]: what its service returned
  answered, \* the requests that have been answered
  prior     \* prior[id]: those that were when request id came

vars == <<items, log, begun, pc, current, asked, result, answered, prior>>

-----------------------------------------------------------------------------
Capacity == IF MaxItems <= 0 THEN 200 ELSE MaxItems

\* Wrong: a full log keeps its oldest records.
AddedFirst(seq, r) ==
  IF Len(seq) >= Capacity THEN seq ELSE Append(seq, r)

\* Wrong: the log is allowed to be one record too long.
AddedOver(seq, r) ==
  LET grown == Append(seq, r)
      drop  == Len(grown) - Capacity - 1
  IN  IF drop > 0 THEN SubSeq(grown, drop + 1, Len(grown)) ELSE grown

\* The records after one more: the oldest make room.
Added(seq, r) ==
  LET grown == Append(seq, r)
      drop  == Len(grown) - Capacity
  IN  IF drop > 0 THEN SubSeq(grown, drop + 1, Len(grown)) ELSE grown

Limit(n) ==
  CASE n <= 0       -> DefaultLimit
    [] n > LimitCap -> LimitCap
    [] OTHER        -> n

\* An absent part of a filter matches every record.
Matches(r, f) ==
  /\ f.target \in {NoTarget, r.target}
  /\ f.action \in {"", r.action}

\* Wrong: the limit counts the records that are looked at.
ListLooked(seq, f) ==
  SelectSeq(SubSeq(Reverse(seq), 1, IF Len(seq) < Limit(f.limit) THEN Len(seq)
                                                                 ELSE Limit(f.limit)),
            LAMBDA r : Matches(r, f))

\* From the newest record on, until there are enough.
List(seq, f) ==
  FoldLeft(LAMBDA out, r : IF Len(out) < Limit(f.limit) /\ Matches(r, f)
                           THEN Append(out, r) ELSE out,
           <<>>, Reverse(seq))

-----------------------------------------------------------------------------
Init ==
  /\ items = <<>>
  /\ log = <<>>
  /\ begun = 0
  /\ pc = [c \in Clients |-> "idle"]
  /\ current = [c \in Clients |-> 0]
  /\ asked = [id \in Ids |-> Malformed]
  /\ result = [id \in Ids |-> "none"]
  /\ answered = {}
  /\ prior = [id \in Ids |-> {}]

\* A body that cannot be decoded is answered at once.
Begin(c, a) ==
  /\ pc[c] = "idle"
  /\ begun < MaxRequests
  /\ begun' = begun + 1
  /\ current' = [current EXCEPT ![c] = begun + 1]
  /\ asked' = [asked EXCEPT ![begun + 1] = a]
  /\ prior' = [prior EXCEPT ![begun + 1] = answered]
  /\ pc' = [pc EXCEPT ![c] = IF a = Malformed THEN "reply" ELSE "call"]
  /\ UNCHANGED <<items, log, result, answered>>

\* The service returns, with or without an error.
Call(c) ==
  /\ pc[c] = "call"
  /\ \E r \in Results : result' = [result EXCEPT ![current[c]] = r]
  /\ pc' = [pc EXCEPT ![c] = "record"]
  /\ UNCHANGED <<items, log, begun, current, asked, answered, prior>>

\* Wrong: a handler that failed does not return once it has told so.
AddAuditTwice(c) ==
  /\ pc[c] = "record"
  /\ LET id == current[c]
         r  == Record(id, asked[id], result[id])
         s  == Record(id, asked[id], "success")
     IN  IF result[id] = "failed"
         THEN items' = Added(Added(items, r), s) /\ log' = log \o <<r, s>>
         ELSE items' = Added(items, r) /\ log' = Append(log, r)
  /\ pc' = [pc EXCEPT ![c] = "reply"]
  /\ UNCHANGED <<begun, current, asked, result, answered, prior>>

\* addAudit, before the handler ends and what it wrote goes out.
AddAudit(c) ==
  /\ pc[c] = "record"
  /\ LET id == current[c]
         r  == Record(id, asked[id], result[id])
     IN  items' = Added(items, r) /\ log' = Append(log, r)
  /\ pc' = [pc EXCEPT ![c] = "reply"]
  /\ UNCHANGED <<begun, current, asked, result, answered, prior>>

\* Wrong: the answer goes out before the record is added.
ReplyEarly(c) ==
  /\ pc[c] \in {"record", "reply"}
  /\ answered' = answered \union {current[c]}
  /\ IF pc[c] = "reply"
     THEN pc' = [pc EXCEPT ![c] = "idle"] /\ current' = [current EXCEPT ![c] = 0]
     ELSE UNCHANGED <<pc, current>>
  /\ UNCHANGED <<items, log, begun, asked, result, prior>>

Reply(c) ==
  /\ pc[c] = "reply"
  /\ answered' = answered \union {current[c]}
  /\ pc' = [pc EXCEPT ![c] = "idle"]
  /\ current' = [current EXCEPT ![c] = 0]
  /\ UNCHANGED <<items, log, begun, asked, result, prior>>

\* The log is in memory only.
Crash ==
  /\ items' = <<>>
  /\ log' = <<>>
  /\ begun' = 0
  /\ pc' = [c \in Clients |-> "idle"]
  /\ current' = [c \in Clients |-> 0]
  /\ asked' = [id \in Ids |-> Malformed]
  /\ result' = [id \in Ids |-> "none"]
  /\ answered' = {}
  /\ prior' = [id \in Ids |-> {}]

Next ==
  \/ \E c \in Clients, a \in Asked \union {Malformed} : Begin(c, a)
  \/ \E c \in Clients : Call(c) \/ AddAudit(c) \/ Reply(c)
  \/ Crash

Spec == Init /\ [][Next]_vars

-----------------------------------------------------------------------------
\* Every variable has its type; what the log takes in memory is bounded.
TypeOK ==
  /\ items \in Seq(Records) /\ Len(items) <= Capacity
  /\ log \in Seq(Records)
  /\ begun \in 0..MaxRequests
  /\ pc \in [Clients -> {"idle", "call", "record", "reply"}]
  /\ current \in [Clients -> 0..MaxRequests]
  /\ asked \in [Ids -> Asked \union {Malformed}]
  /\ result \in [Ids -> Results \union {"none"}]
  /\ answered \subseteq Ids
  /\ prior \in [Ids -> SUBSET Ids]

\* The log always has the newest records, all of them until it is full, in the
\* order in which they were added (Logger.Add).
KeepsNewest ==
  /\ Len(items) = IF Len(log) < Capacity THEN Len(log) ELSE Capacity
  /\ \A n \in DOMAIN items : items[n] = log[Len(log) - Len(items) + n]

\* A change that was answered has been put on record, exactly once and as what
\* it came to; a request that was refused for its body has not.
AnsweredIsOnRecord ==
  \A id \in answered :
    LET mine == {n \in DOMAIN log : log[n].id = id}
    IN  IF asked[id] = Malformed
        THEN mine = {}
        ELSE /\ Cardinality(mine) = 1
             /\ \A n \in mine : log[n] = Record(id, asked[id], result[id])

\* Records are in the order of what they record: where one request was answered
\* before another came, its record is the older one, although a record is added
\* outside the mutex of the service that made the change.
RecordsKeepOrder ==
  \A m, n \in DOMAIN log : m < n => log[n].id \notin prior[log[m].id]

\* What the page, or a client of the API, may ask a listing for.
Filters ==
  [limit : -1..(LimitCap + 1), target : {a.target : a \in Asked} \union {NoTarget},
   action : {a.action : a \in Asked} \union {""}]

\* A listing has the newest records that match its filter, newest first and as
\* many as its limit lets through, whatever was dropped before (Logger.List).
ListIsNewestFirst ==
  \A f \in Filters :
    LET shown    == List(items, f)
        matching == {n \in DOMAIN items : Matches(items[n], f)}
        enough   == Limit(f.limit)
    IN  /\ Len(shown) = IF Cardinality(matching) < enough
                        THEN Cardinality(matching) ELSE enough
        /\ \A k \in DOMAIN shown : \E n \in matching :
             /\ shown[k] = items[n]
             /\ Cardinality({m \in matching : m >= n}) = k
=============================================================================
