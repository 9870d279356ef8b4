------------------------- MODULE AuditTrail_proofs -------------------------
(***************************************************************************)
(* What the audit log keeps true for any number of handlers and requests,  *)
(* and for every capacity.                                                 *)
(*                                                                         *)
(* The log of all records and the one of limited length grow in one step,  *)
(* so KeepsNewest and the types are kept by it alone (AddedKeeps).  That   *)
(* an answer has its record, and just one, takes where each request is:    *)
(* until its handler has been through addAudit nothing on record has its   *)
(* number, and afterwards something has (Placed).                          *)
(*                                                                         *)
(* What a listing shows is an induction over the records it looks at; the  *)
(* induction is had from the least natural number of a set (LeastOf).      *)
(***************************************************************************)
EXTENDS AuditTrail, SequenceTheorems, FiniteSetTheorems, TLAPS

OnRecord(id) == \E n \in DOMAIN log : log[n].id = id

\* A request is served by one handler at a time and before it is answered.
Served ==
  \A c \in Clients :
    /\ pc[c] = "idle" <=> current[c] = 0
    /\ current[c] \in 0..begun /\ current[c] \notin answered
    /\ \A d \in Clients : current[d] = current[c] => d = c \/ pc[c] = "idle"

\* Nothing is known of requests that have not come yet.
Future ==
  /\ \A id \in answered : id <= begun
  /\ \A n \in DOMAIN log : log[n].id <= begun
  /\ \A id \in Ids : prior[id] \subseteq answered

\* How far its handler is tells whether a request is on record.
Placed ==
  \A c \in Clients :
    /\ pc[c] \in {"call", "record"} =>
         asked[current[c]] # Malformed /\ ~OnRecord(current[c])
    /\ pc[c] = "record" => result[current[c]] \in Results
    /\ pc[c] = "reply" => (asked[current[c]] = Malformed <=> ~OnRecord(current[c]))

\* What is on record is there once and as it was; what is answered is there,
\* unless its body was refused.
Recorded ==
  /\ \A m, n \in DOMAIN log : log[m].id = log[n].id => m = n
  /\ \A n \in DOMAIN log : /\ asked[log[n].id] # Malformed
                           /\ log[n] = Record(log[n].id, asked[log[n].id], result[log[n].id])
  /\ \A id \in answered : asked[id] = Malformed <=> ~OnRecord(id)

IInv ==
  /\ TypeOK /\ KeepsNewest /\ Served /\ Future /\ Placed /\ Recorded
  /\ RecordsKeepOrder

-----------------------------------------------------------------------------
LEMMA CapacityIsPositive == Capacity \in Nat \ {0}
BY ConstantsOK DEF Capacity

\* A record has the number, the action, the target and the result it is of.
LEMMA RecordFields ==
  /\ \A id \in Ids, a \in Asked, r \in Results : Record(id, a, r) \in Records
  /\ \A rec \in Records : rec.id \in Ids
  /\ \A id, a, r : Record(id, a, r).id = id
BY DEF Records, Record

\* What KeepsNewest says of the two logs.
Newest(few, all) ==
  /\ Len(few) = IF Len(all) < Capacity THEN Len(all) ELSE Capacity
  /\ \A n \in 1..Len(few) : few[n] = all[Len(all) - Len(few) + n]

\* The whole log grows by the record.
LEMMA Grown ==
  ASSUME NEW s \in Seq(Records), NEW r \in Records
  PROVE  /\ Append(s, r) \in Seq(Records)
         /\ Len(Append(s, r)) = Len(s) + 1
         /\ \A n \in 1..Len(s) : Append(s, r)[n] = s[n]
         /\ Append(s, r)[Len(s) + 1] = r
OBVIOUS

\* One record more: the log of limited length follows the whole one.
LEMMA AddedKeeps ==
  ASSUME NEW few \in Seq(Records), NEW all \in Seq(Records), NEW r \in Records,
         Newest(few, all)
  PROVE  Added(few, r) \in Seq(Records) /\ Newest(Added(few, r), Append(all, r))
<1>1. PICK grown, full, more : /\ grown = Append(few, r) /\ full = Append(all, r)
                              /\ more = Added(few, r)
  OBVIOUS
<1>2. PICK f \in Nat, a \in Nat : f = Len(few) /\ a = Len(all)
  OBVIOUS
<1>3. /\ f = IF a < Capacity THEN a ELSE Capacity
      /\ \A n \in 1..f : few[n] = all[a - f + n]
  BY <1>2 DEF Newest
<1>4. /\ grown \in Seq(Records) /\ Len(grown) = f + 1
      /\ \A n \in 1..f : grown[n] = few[n]
      /\ grown[f + 1] = r
  BY <1>1, <1>2, Grown
<1>5. /\ Len(full) = a + 1
      /\ \A n \in 1..a : full[n] = all[n]
      /\ full[a + 1] = r
  BY <1>1, <1>2, Grown
<1>6. more = IF f + 1 - Capacity > 0 THEN SubSeq(grown, f + 1 - Capacity + 1, f + 1) ELSE grown
  <2>1. more = IF Len(grown) - Capacity > 0
               THEN SubSeq(grown, Len(grown) - Capacity + 1, Len(grown)) ELSE grown
    BY <1>1, Zenon DEF Added
  <2> QED
    BY <1>4, <2>1, CapacityIsPositive
<1>7. CASE a < Capacity
  <2>1. f = a /\ more = grown
    BY <1>3, <1>6, <1>7, CapacityIsPositive
  <2>2. Len(more) = IF a + 1 < Capacity THEN a + 1 ELSE Capacity
    BY <1>4, <1>7, <2>1, CapacityIsPositive
  <2>3. \A n \in 1..Len(more) : more[n] = full[a + 1 - Len(more) + n]
    BY <1>3, <1>4, <1>5, <2>1
  <2>4. Newest(more, full)
    BY <1>5, <2>2, <2>3, CapacityIsPositive DEF Newest
  <2> QED
    BY <1>1, <1>4, <2>1, <2>4
<1>8. CASE a >= Capacity
  <2>1. f = Capacity /\ f + 1 - Capacity = 1
    BY <1>3, <1>8, CapacityIsPositive
  <2>2. more = SubSeq(grown, 2, f + 1)
    BY <1>6, <2>1
  <2>3. \A n \in 2..f + 1 : grown[n] \in Records
    BY <1>4
  <2>4. /\ more \in Seq(Records) /\ Len(more) = f
        /\ \A n \in 1..f : more[n] = grown[n + 1]
    BY <2>1, <2>2, <2>3, SubSeqProperties, CapacityIsPositive
  <2>5. ASSUME NEW n \in 1..f
        PROVE  more[n] = full[a + 1 - f + n]
    <3>1. CASE n = f
      BY <1>4, <1>5, <2>4, <3>1
    <3>2. CASE n # f
      <4>1. n + 1 \in 1..f /\ a - f + (n + 1) \in 1..a /\ a - f + (n + 1) = a + 1 - f + n
        BY <1>8, <2>1, <3>2, CapacityIsPositive
      <4>2. more[n] = few[n + 1] /\ few[n + 1] = all[a - f + (n + 1)]
        BY <1>3, <1>4, <2>4, <4>1
      <4> QED
        BY <1>5, <4>1, <4>2
    <3> QED
      BY <3>1, <3>2
  <2>6. Len(more) = IF a + 1 < Capacity THEN a + 1 ELSE Capacity
    BY <1>8, <2>1, <2>4, CapacityIsPositive
  <2>7. Newest(more, full)
    <3>1. Len(more) = IF Len(full) < Capacity THEN Len(full) ELSE Capacity
      BY <1>5, <2>6
    <3>2. \A n \in 1..Len(more) : more[n] = full[Len(full) - Len(more) + n]
      BY <1>5, <2>4, <2>5
    <3> QED
      BY <3>1, <3>2, Zenon DEF Newest
  <2> QED
    BY <1>1, <2>4, <2>7
<1> QED
  BY <1>7, <1>8, CapacityIsPositive

-----------------------------------------------------------------------------
\* What addAudit adds is a record of its request, which had none.
LEMMA RecordedNow ==
  ASSUME IInv, NEW c \in Clients, AddAudit(c)
  PROVE  \E id \in Ids, r \in Records :
           /\ id = current[c] /\ r = Record(id, asked[id], result[id]) /\ r.id = id
           /\ asked[id] # Malformed /\ ~OnRecord(id) /\ id \notin answered
           /\ items' = Added(items, r) /\ log' = Append(log, r)
           /\ DOMAIN log = 1..Len(log) /\ Len(log) \in Nat
           /\ DOMAIN log' = 1..(Len(log) + 1)
           /\ \A n \in DOMAIN log : log'[n] = log[n]
           /\ log'[Len(log) + 1] = r
           /\ \A x : OnRecord(x)' <=> OnRecord(x) \/ x = id
<1>1. /\ pc[c] = "record" /\ current[c] \in Ids
      /\ asked[current[c]] \in Asked /\ result[current[c]] \in Results
      /\ ~OnRecord(current[c]) /\ current[c] \notin answered
      /\ asked[current[c]] # Malformed
  BY ConstantsOK DEF IInv, TypeOK, Placed, Served, AddAudit, Ids
<1>2. PICK id \in Ids : id = current[c]
  BY <1>1
<1>3. PICK r \in Records : r = Record(id, asked[id], result[id]) /\ r.id = id
  BY <1>1, <1>2, RecordFields
<1>4. items' = Added(items, r) /\ log' = Append(log, r)
  BY <1>2, <1>3 DEF AddAudit
<1>5. /\ Len(log) \in Nat /\ DOMAIN log = 1..Len(log)
      /\ DOMAIN log' = 1..(Len(log) + 1)
      /\ \A n \in DOMAIN log : log'[n] = log[n]
      /\ log'[Len(log) + 1] = r
  BY <1>4, Grown DEF IInv, TypeOK
<1>6. ASSUME NEW x
      PROVE  OnRecord(x)' <=> OnRecord(x) \/ x = id
  BY <1>3, <1>5 DEF OnRecord
<1> QED
  BY <1>1, <1>2, <1>3, <1>4, <1>5, <1>6

\* A step that adds no record leaves what is on record.
LEMMA LogStays ==
  ASSUME IInv, UNCHANGED <<items, log>>
  PROVE  KeepsNewest' /\ \A x : OnRecord(x)' <=> OnRecord(x)
BY DEF IInv, KeepsNewest, OnRecord

\* A request comes: its number is new.
LEMMA BeginStep ==
  ASSUME IInv, NEW c \in Clients, NEW a \in Asked \union {Malformed}, Begin(c, a)
  PROVE  IInv'
<1>1. PICK id \in Ids : id = begun + 1
  BY ConstantsOK DEF IInv, TypeOK, Begin, Ids
<1>2. /\ pc[c] = "idle" /\ begun' = id /\ begun \in Nat
      /\ current' = [current EXCEPT ![c] = id]
      /\ asked' = [asked EXCEPT ![id] = a]
      /\ prior' = [prior EXCEPT ![id] = answered]
      /\ pc' = [pc EXCEPT ![c] = IF a = Malformed THEN "reply" ELSE "call"]
      /\ UNCHANGED <<items, log, result, answered>>
  BY <1>1 DEF Begin, IInv, TypeOK
<1>3. id \notin answered /\ ~OnRecord(id) /\ \A d \in Clients : current[d] # id
  BY <1>1, <1>2 DEF IInv, TypeOK, Future, Served, OnRecord, Ids
<1>4. KeepsNewest' /\ \A x : OnRecord(x)' <=> OnRecord(x)
  BY <1>2, LogStays
<1>5. TypeOK'
  BY <1>1, <1>2, ConstantsOK DEF IInv, TypeOK, Ids
<1>6. Served'
  BY <1>1, <1>2, <1>3 DEF IInv, TypeOK, Served, Ids
<1>7. Future'
  BY <1>1, <1>2, <1>3 DEF IInv, TypeOK, Future, Ids, Records, Record
<1>8. Placed'
  BY <1>1, <1>2, <1>3, <1>4 DEF IInv, TypeOK, Placed, Served
<1>9. \A n \in DOMAIN log : log[n].id # id
  BY <1>3 DEF OnRecord
<1>10. Recorded'
  BY <1>2, <1>3, <1>4, <1>9 DEF IInv, TypeOK, Recorded
<1>11. RecordsKeepOrder'
  BY <1>2, <1>9 DEF IInv, TypeOK, RecordsKeepOrder
<1> QED
  BY <1>4, <1>5, <1>6, <1>7, <1>8, <1>10, <1>11 DEF IInv

LEMMA CallStep ==
  ASSUME IInv, NEW c \in Clients, Call(c)
  PROVE  IInv'
<1>1. PICK id \in Ids : id = current[c]
  BY DEF IInv, TypeOK, Call, Served, Ids
<1>2. PICK r \in Results :
        /\ pc[c] = "call" /\ result' = [result EXCEPT ![id] = r]
        /\ pc' = [pc EXCEPT ![c] = "record"]
        /\ UNCHANGED <<items, log, begun, current, asked, answered, prior>>
  BY <1>1 DEF Call
<1>3. ~OnRecord(id) /\ asked[id] # Malformed
  BY <1>1, <1>2 DEF IInv, Placed
<1>4. KeepsNewest' /\ \A x : OnRecord(x)' <=> OnRecord(x)
  BY <1>2, LogStays
<1>5. TypeOK'
  BY <1>1, <1>2 DEF IInv, TypeOK
<1>6. Served'
  BY <1>2 DEF IInv, TypeOK, Served
<1>7. Future'
  BY <1>2 DEF IInv, Future
<1>8. Placed'
  BY <1>1, <1>2, <1>3, <1>4 DEF IInv, TypeOK, Placed, Served
<1>9. \A n \in DOMAIN log : log[n].id # id
  BY <1>3 DEF OnRecord
<1>10. Recorded'
  BY <1>2, <1>4, <1>9 DEF IInv, TypeOK, Recorded
<1>11. RecordsKeepOrder'
  BY <1>2 DEF IInv, RecordsKeepOrder
<1> QED
  BY <1>4, <1>5, <1>6, <1>7, <1>8, <1>10, <1>11 DEF IInv

LEMMA AddAuditStep ==
  ASSUME IInv, NEW c \in Clients, AddAudit(c)
  PROVE  IInv'
<1>1. PICK id \in Ids, r \in Records :
        /\ id = current[c] /\ r = Record(id, asked[id], result[id]) /\ r.id = id
        /\ asked[id] # Malformed /\ ~OnRecord(id) /\ id \notin answered
        /\ items' = Added(items, r) /\ log' = Append(log, r)
        /\ DOMAIN log = 1..Len(log) /\ Len(log) \in Nat
        /\ DOMAIN log' = 1..(Len(log) + 1)
        /\ \A n \in DOMAIN log : log'[n] = log[n]
        /\ log'[Len(log) + 1] = r
        /\ \A x : OnRecord(x)' <=> OnRecord(x) \/ x = id
  BY RecordedNow
<1>2. /\ pc[c] = "record" /\ pc' = [pc EXCEPT ![c] = "reply"]
      /\ UNCHANGED <<begun, current, asked, result, answered, prior>>
  BY DEF AddAudit
<1>3. TypeOK' /\ KeepsNewest'
  <2>1. /\ items \in Seq(Records) /\ log \in Seq(Records)
        /\ Newest(items, log)
    BY DEF IInv, TypeOK, KeepsNewest, Newest
  <2>2. /\ items' \in Seq(Records) /\ log' \in Seq(Records)
        /\ Newest(items', log')
    BY <1>1, <2>1, AddedKeeps, Grown
  <2>3. KeepsNewest' /\ Len(items') <= Capacity
    <3>1. DOMAIN items' = 1..Len(items') /\ Len(log') \in Nat
      BY <2>2
    <3>2. Len(items') <= Capacity
      BY <2>2, <3>1, CapacityIsPositive DEF Newest
    <3>3. KeepsNewest'
      BY <2>2, <3>1, Zenon DEF KeepsNewest, Newest
    <3> QED
      BY <3>2, <3>3
  <2> QED
    BY <1>2, <2>2, <2>3 DEF IInv, TypeOK
<1>4. Served'
  BY <1>2 DEF IInv, TypeOK, Served
<1>5. Future'
  BY <1>1, <1>2 DEF IInv, TypeOK, Future, Served
<1>6. Placed'
  BY <1>1, <1>2 DEF IInv, TypeOK, Placed, Served
<1>7. \A n \in DOMAIN log : log[n].id # id
  BY <1>1 DEF OnRecord
<1>8. Recorded'
  <2>1. ASSUME NEW m \in DOMAIN log', NEW n \in DOMAIN log', log'[m].id = log'[n].id
        PROVE  m = n
    <3>1. \A i, j \in DOMAIN log : log[i].id = log[j].id => i = j
      BY DEF IInv, Recorded
    <3> QED
      BY <1>1, <1>7, <2>1, <3>1
  <2>2. \A n \in DOMAIN log' :
          /\ asked[log'[n].id] # Malformed
          /\ log'[n] = Record(log'[n].id, asked[log'[n].id], result[log'[n].id])
    BY <1>1 DEF IInv, Recorded
  <2>3. ASSUME NEW a \in answered'
        PROVE  asked'[a] = Malformed <=> ~OnRecord(a)'
    <3>1. a \in answered /\ asked' = asked /\ a # id
      BY <1>1, <1>2
    <3>2. asked[a] = Malformed <=> ~OnRecord(a)
      BY <3>1 DEF IInv, Recorded
    <3>3. OnRecord(a)' <=> OnRecord(a)
      BY <1>1, <3>1
    <3> QED
      BY <3>1, <3>2, <3>3
  <2>4. \A a \in answered' : asked'[a] = Malformed <=> ~OnRecord(a)'
    BY <2>3
  <2> QED
    BY <1>2, <2>1, <2>2, <2>4, Zenon DEF Recorded
<1>9. RecordsKeepOrder'
  <2> SUFFICES ASSUME NEW m \in DOMAIN log', NEW n \in DOMAIN log', m < n
               PROVE  log'[n].id \notin prior[log'[m].id]
    BY <1>2 DEF RecordsKeepOrder
  <2>1. m \in DOMAIN log
    BY <1>1
  <2>2. log'[m] = log[m] /\ log[m].id \in Ids
    BY <1>1, <2>1, RecordFields DEF IInv, TypeOK
  <2>3. prior[log[m].id] \subseteq answered
    BY <2>2 DEF IInv, Future
  <2>4. CASE n \in DOMAIN log
    BY <1>1, <2>1, <2>2, <2>4 DEF IInv, RecordsKeepOrder
  <2>5. CASE n = Len(log) + 1
    BY <1>1, <2>2, <2>3, <2>5
  <2> QED
    BY <1>1, <2>4, <2>5
<1> QED
  BY <1>3, <1>4, <1>5, <1>6, <1>8, <1>9 DEF IInv

LEMMA ReplyStep ==
  ASSUME IInv, NEW c \in Clients, Reply(c)
  PROVE  IInv'
<1>1. PICK id \in Ids : id = current[c]
  BY DEF IInv, TypeOK, Reply, Served, Ids
<1>2. /\ pc[c] = "reply" /\ answered' = answered \union {id}
      /\ pc' = [pc EXCEPT ![c] = "idle"] /\ current' = [current EXCEPT ![c] = 0]
      /\ UNCHANGED <<items, log, begun, asked, result, prior>>
  BY <1>1 DEF Reply
<1>3. id <= begun /\ (asked[id] = Malformed <=> ~OnRecord(id))
  BY <1>1, <1>2 DEF IInv, TypeOK, Placed, Served
<1>4. KeepsNewest' /\ \A x : OnRecord(x)' <=> OnRecord(x)
  BY <1>2, LogStays
<1>5. TypeOK'
  <2>1. 0 \in 0..MaxRequests
    BY ConstantsOK
  <2>2. TypeOK
    BY DEF IInv
  <2>3. current' \in [Clients -> 0..MaxRequests]
    BY <1>2, <2>1, <2>2 DEF TypeOK
  <2> QED
    BY <1>1, <1>2, <2>2, <2>3 DEF TypeOK
<1>6. Served'
  <2>1. 0 \notin answered' /\ 0 \in 0..begun
    BY <1>1, <1>2 DEF IInv, TypeOK, Ids
  <2>2. \A d \in Clients : d # c => current[d] # id
    BY <1>1, <1>2 DEF IInv, Served
  <2>3. current'[c] = 0 /\ \A d \in Clients : d # c => current'[d] = current[d]
    BY <1>2 DEF IInv, TypeOK
  <2>4. pc'[c] = "idle" /\ \A d \in Clients : d # c => pc'[d] = pc[d]
    BY <1>2 DEF IInv, TypeOK
  <2> QED
    BY <1>2, <2>1, <2>2, <2>3, <2>4 DEF IInv, Served
<1>7. Future'
  BY <1>2, <1>3 DEF IInv, TypeOK, Future
<1>8. Placed'
  BY <1>2, <1>4 DEF IInv, TypeOK, Placed
<1>9. Recorded'
  BY <1>2, <1>3, <1>4 DEF IInv, TypeOK, Recorded
<1>10. RecordsKeepOrder'
  BY <1>2 DEF IInv, RecordsKeepOrder
<1> QED
  BY <1>4, <1>5, <1>6, <1>7, <1>8, <1>9, <1>10 DEF IInv

\* Whatever starts with an empty log and no request has the invariant.
LEMMA InitHolds == Init => IInv
<1> SUFFICES ASSUME Init PROVE IInv
  OBVIOUS
<1> USE DEF Init
<1>1. items = <<>> /\ log = <<>> /\ DOMAIN log = {} /\ DOMAIN items = {}
  OBVIOUS
<1>2. TypeOK
  BY <1>1, ConstantsOK, CapacityIsPositive DEF TypeOK, Ids
<1>3. KeepsNewest
  BY <1>1, CapacityIsPositive DEF KeepsNewest
<1>4. Served /\ Future /\ Placed /\ Recorded
  BY <1>1 DEF Served, Future, Placed, Recorded, OnRecord
<1>5. RecordsKeepOrder
  BY <1>1 DEF RecordsKeepOrder
<1> QED
  BY <1>2, <1>3, <1>4, <1>5 DEF IInv

\* So does a crash, which leaves what Init starts with.
LEMMA CrashStep ==
  ASSUME Crash
  PROVE  IInv'
<1>1. Init'
  BY DEF Crash, Init
<1> QED
  BY <1>1, InitHolds, PTL

-----------------------------------------------------------------------------
\* The invariant is kept, whatever step the log and the handlers take.
THEOREM Invariance == Spec => []IInv
<1>1. ASSUME IInv, [Next]_vars
      PROVE  IInv'
  <2>1. ASSUME NEW c \in Clients, NEW a \in Asked \union {Malformed}, Begin(c, a)
        PROVE  IInv'
    BY <1>1, <2>1, BeginStep
  <2>2. ASSUME NEW c \in Clients, Call(c)
        PROVE  IInv'
    BY <1>1, <2>2, CallStep
  <2>3. ASSUME NEW c \in Clients, AddAudit(c)
        PROVE  IInv'
    BY <1>1, <2>3, AddAuditStep
  <2>4. ASSUME NEW c \in Clients, Reply(c)
        PROVE  IInv'
    BY <1>1, <2>4, ReplyStep
  <2>5. CASE Crash
    BY <2>5, CrashStep
  <2>6. CASE UNCHANGED vars
    BY <1>1, <2>6 DEF vars, IInv, TypeOK, KeepsNewest, Served, Future, Placed,
                      Recorded, RecordsKeepOrder, OnRecord
  <2> QED
    BY <1>1, <2>1, <2>2, <2>3, <2>4, <2>5, <2>6 DEF Next
<1> QED
  BY <1>1, InitHolds, PTL DEF Spec

\* Every variable has its type; what the log takes in memory is bounded by the
\* capacity, also where the one configured is of no use (NewLogger, Logger.Add).
THEOREM TypeCorrect == Spec => []TypeOK
<1>1. IInv => TypeOK
  BY DEF IInv
<1> QED
  BY <1>1, Invariance, PTL

\* The log has the newest records, for every capacity and however many
\* handlers add to it at a time (Logger.Add).
THEOREM LogKeepsNewest == Spec => []KeepsNewest
<1>1. IInv => KeepsNewest
  BY DEF IInv
<1> QED
  BY <1>1, Invariance, PTL

\* A change that was answered is on record once, and as what it came to; one
\* whose body was refused is not (addAudit in the handlers of changes).
THEOREM AnswersAreOnRecord == Spec => []AnsweredIsOnRecord
<1>1. ASSUME IInv
      PROVE  AnsweredIsOnRecord
  <2> SUFFICES ASSUME NEW id \in answered,
                      NEW mine, mine = {n \in DOMAIN log : log[n].id = id}
               PROVE  IF asked[id] = Malformed
                      THEN mine = {}
                      ELSE /\ Cardinality(mine) = 1
                           /\ \A n \in mine : log[n] = Record(id, asked[id], result[id])
    BY DEF AnsweredIsOnRecord
  <2>1. asked[id] = Malformed <=> mine = {}
    BY <1>1 DEF IInv, Recorded, OnRecord
  <2>2. \A n \in mine : log[n] = Record(id, asked[id], result[id])
    BY <1>1 DEF IInv, Recorded
  <2>3. ASSUME NEW n \in mine
        PROVE  Cardinality(mine) = 1
    <3>1. mine = {n}
      BY <1>1, <2>3 DEF IInv, Recorded
    <3> QED
      BY <3>1, FS_Singleton
  <2> QED
    BY <2>1, <2>2, <2>3
<1> QED
  BY <1>1, Invariance, PTL

\* Where one request was answered before another came, its record is the older
\* one (addAudit runs outside the mutexes of the services).
THEOREM RecordsInOrder == Spec => []RecordsKeepOrder
<1>1. IInv => RecordsKeepOrder
  BY DEF IInv
<1> QED
  BY <1>1, Invariance, PTL

-----------------------------------------------------------------------------
\* Every set of natural numbers with something in it has a least one: the
\* intervals up to its members have one that no other is a part of.
LEMMA LeastOf ==
  ASSUME NEW B \in SUBSET Nat, B # {}
  PROVE  \E m \in B : \A k \in B : m <= k
<1>1. PICK T : T = {0..m : m \in B}
  OBVIOUS
<1>2. T \subseteq FiniteSubsetsOf(Nat) /\ T # {}
  <2>1. \A m \in B : IsFiniteSet(0..m) /\ 0..m \in SUBSET Nat
    BY FS_Interval
  <2> QED
    BY <1>1, <2>1 DEF FiniteSubsetsOf
<1>3. IsWellFoundedOn(StrictSubsetOrdering(Nat), FiniteSubsetsOf(Nat))
  BY FS_StrictSubsetOrderingWellFounded
<1>4. PICK S \in T : \A U \in T : ~ (<<U, S>> \in StrictSubsetOrdering(Nat))
  BY <1>2, <1>3, WFMin
<1>5. PICK m \in B : S = 0..m
  BY <1>1
<1>6. ASSUME NEW k \in B, k < m
      PROVE  FALSE
  <2>1. 0..k \in T /\ 0..k \in SUBSET Nat /\ 0..m \in SUBSET Nat
    BY <1>1
  <2>2. 0..k \subseteq 0..m /\ 0..k # 0..m
    BY <1>6
  <2>3. <<0..k, 0..m>> \in StrictSubsetOrdering(Nat)
    BY <2>1, <2>2 DEF StrictSubsetOrdering
  <2> QED
    BY <1>4, <1>5, <2>1, <2>3
<1> QED
  BY <1>6

\* Induction over the natural numbers, by the least one that is left out.
LEMMA Inductive ==
  ASSUME NEW S \in SUBSET Nat, 0 \in S, \A n \in Nat : n \in S => n + 1 \in S
  PROVE  S = Nat
<1> SUFFICES ASSUME Nat \ S # {} PROVE FALSE
  OBVIOUS
<1>1. PICK m \in Nat \ S : \A k \in Nat \ S : m <= k
  BY LeastOf
<1>2. m - 1 \in Nat /\ m - 1 \in S
  BY <1>1
<1> QED
  BY <1>2

\* The two facts about Max that the folds of the library go by.
LEMMA MaxOfInterval ==
  ASSUME NEW m \in Nat \ {0}
  PROVE  Max(1..m) = m
<1>1. m \in 1..m /\ \A x \in 1..m : (\A y \in 1..m : x >= y) <=> x = m
  OBVIOUS
<1> QED
  BY <1>1, Zenon DEF Max

LEMMA MaxIsIn ==
  ASSUME NEW n \in Nat, NEW s \in SUBSET (1..n), s # {}
  PROVE  Max(s) \in s
<1>1. PICK B : B = {b \in Nat : \A y \in s : b >= y}
  OBVIOUS
<1>2. n \in B /\ B \in SUBSET Nat
  BY <1>1
<1>3. PICK m \in B : \A k \in B : m <= k
  BY <1>2, LeastOf
<1>4. m \in s
  <2> SUFFICES ASSUME m \notin s PROVE FALSE
    OBVIOUS
  <2>1. \A y \in s : y \in Nat /\ 1 <= y /\ y <= m /\ y # m
    BY <1>1, <1>3
  <2>2. m - 1 \in Nat /\ \A y \in s : m - 1 >= y
    <3>1. PICK y \in s : TRUE
      OBVIOUS
    <3>2. m \in Nat
      BY <1>2
    <3>3. m - 1 \in Nat
      BY <2>1, <3>1, <3>2
    <3>4. ASSUME NEW z \in s
          PROVE  m - 1 >= z
      BY <2>1, <3>2
    <3> QED
      BY <3>3, <3>4
  <2> QED
    BY <1>1, <1>2, <1>3, <2>2
<1>5. \E x \in s : \A y \in s : x >= y
  BY <1>1, <1>4
<1> QED
  BY <1>5 DEF Max

\* it folds G over the sets of indices up to m, by their greatest member.
Folds(it, m, V, base, G) ==
  /\ it \in [SUBSET (1..m) -> V]
  /\ \A s \in SUBSET (1..m) :
       it[s] = IF s = {} THEN base ELSE G[<<Max(s), it[s \ {Max(s)}]>>]

\* There is such a function, by induction on m.
LEMMA FoldDefined ==
  ASSUME NEW n \in Nat, NEW V, NEW base \in V, NEW G \in [(1..n) \X V -> V]
  PROVE  \E it : Folds(it, n, V, base, G)
<1>1. PICK S : S = {m \in Nat : m <= n => \E it : Folds(it, m, V, base, G)}
  OBVIOUS
<1>2. 0 \in S
  <2>1. 1..0 = {}
    OBVIOUS
  <2>2. PICK it : it = [s \in SUBSET (1..0) |-> base]
    OBVIOUS
  <2>3. Folds(it, 0, V, base, G)
    BY <2>1, <2>2 DEF Folds
  <2> QED
    BY <1>1, <2>3
<1>3. ASSUME NEW m \in Nat, m \in S
      PROVE  m + 1 \in S
  <2> SUFFICES ASSUME m + 1 <= n
               PROVE  \E it : Folds(it, m + 1, V, base, G)
    BY <1>1
  <2>1. PICK it : Folds(it, m, V, base, G)
    BY <1>1, <1>3
  <2>2. PICK j : j = [s \in SUBSET (1..(m + 1)) |->
                        IF m + 1 \in s THEN G[<<m + 1, it[s \ {m + 1}]>>] ELSE it[s]]
    OBVIOUS
  <2>3. ASSUME NEW s \in SUBSET (1..(m + 1)), m + 1 \in s
        PROVE  /\ Max(s) = m + 1 /\ s \ {m + 1} \in SUBSET (1..m) /\ m + 1 \notin s \ {m + 1}
               /\ s \ {m + 1} \in SUBSET (1..(m + 1))
    <3>1. \A y \in s : y \in Nat /\ m + 1 >= y
      OBVIOUS
    <3>2. \A x \in s : (\A y \in s : x >= y) <=> x = m + 1
      BY <2>3, <3>1
    <3>3. Max(s) = m + 1
      BY <2>3, <3>2, Zenon DEF Max
    <3>4. \A y \in s : y # m + 1 => y \in 1..m
      BY <3>1
    <3> QED
      BY <3>3, <3>4
  <2>4. ASSUME NEW s \in SUBSET (1..(m + 1)), m + 1 \notin s
        PROVE  s \in SUBSET (1..m) /\ \A x : s \ {x} \in SUBSET (1..m) /\ m + 1 \notin s \ {x}
    <3>1. \A y \in s : y \in 1..m
      BY <2>4
    <3> QED
      BY <2>4, <3>1
  <2>5. \A s \in SUBSET (1..m) : s \in SUBSET (1..(m + 1)) /\ m + 1 \notin s /\ j[s] = it[s]
    BY <2>2
  <2>6. ASSUME NEW s \in SUBSET (1..(m + 1))
        PROVE  j[s] \in V /\ j[s] = IF s = {} THEN base ELSE G[<<Max(s), j[s \ {Max(s)}]>>]
    <3>1. CASE m + 1 \in s
      <4>1. j[s] = G[<<m + 1, it[s \ {m + 1}]>>]
        BY <2>2, <3>1
      <4>2. it[s \ {m + 1}] \in V /\ j[s \ {m + 1}] = it[s \ {m + 1}]
        BY <2>1, <2>3, <2>5, <3>1 DEF Folds
      <4>3. m + 1 \in 1..n
        OBVIOUS
      <4> QED
        BY <2>3, <3>1, <4>1, <4>2, <4>3
    <3>2. CASE m + 1 \notin s
      <4>1. j[s] = it[s] /\ s \in SUBSET (1..m)
        BY <2>4, <2>5, <3>2
      <4>2. j[s \ {Max(s)}] = it[s \ {Max(s)}]
        BY <2>4, <2>5, <3>2
      <4> QED
        BY <2>1, <4>1, <4>2 DEF Folds
    <3> QED
      BY <3>1, <3>2
  <2>7. j \in [SUBSET (1..(m + 1)) -> V]
    BY <2>2, <2>6
  <2> QED
    BY <2>6, <2>7 DEF Folds
<1>4. S = Nat
  BY <1>1, <1>2, <1>3, Inductive
<1>5. \E it : Folds(it, n, V, base, G)
  BY <1>1, <1>4
<1> QED
  BY <1>5

\* r is how a listing comes about, record by record and from the newest on.
Unfolds(r, q, f) ==
  /\ r[0] = <<>> /\ r[Len(q)] = List(q, f)
  /\ \A m \in 1..Len(q) :
       r[m] = IF Len(r[m - 1]) < Limit(f.limit) /\ Matches(q[Len(q) - m + 1], f)
              THEN Append(r[m - 1], q[Len(q) - m + 1]) ELSE r[m - 1]

\* Such an r exists: List is what the fold of the library comes to, and
\* FoldDefined tells that what the library chooses is there.
LEMMA ListUnfolds ==
  ASSUME NEW q \in Seq(Records), NEW f
  PROVE  \E r : Unfolds(r, q, f)
<1>1. PICK n \in Nat : n = Len(q)
  BY LenProperties
<1>2. PICK p : p = Reverse(q)
  OBVIOUS
<1>3. p \in Seq(Records) /\ DOMAIN p = 1..n /\ \A i \in 1..n : p[i] = q[n - i + 1]
  BY <1>1, <1>2 DEF Reverse
<1> DEFINE op(out, x) == IF Len(out) < Limit(f.limit) /\ Matches(x, f) THEN Append(out, x) ELSE out
           Eq(g) == g = [s \in SUBSET (1..n) |->
                          IF s = {} THEN <<>> ELSE op(g[s \ {Max(s)}], p[Max(s)])]
<1>4. PICK V : V = Seq(Records)
  OBVIOUS
<1>5. PICK G : G = [iv \in (1..n) \X V |-> op(iv[2], p[iv[1]])]
  OBVIOUS
<1>6. G \in [(1..n) \X V -> V]
  BY <1>3, <1>4, <1>5
<1>7. PICK it : Folds(it, n, V, <<>>, G)
  <2>1. <<>> \in V
    BY <1>4
  <2> QED
    BY <1>6, <2>1, FoldDefined
<1>8. PICK iter : iter = CHOOSE g : Eq(g)
  OBVIOUS
<1>9. List(q, f) = iter[1..n]
  BY <1>2, <1>3, <1>8 DEF List, FoldLeft, MapThenFoldSet
<1>10. Eq(it)
  <2>1. ASSUME NEW s \in SUBSET (1..n), s # {}
        PROVE  it[s] = op(it[s \ {Max(s)}], p[Max(s)])
    <3>1. Max(s) \in 1..n
      BY <2>1, MaxIsIn
    <3>2. it[s] = G[<<Max(s), it[s \ {Max(s)}]>>]
      BY <1>7, <2>1 DEF Folds
    <3>3. it[s \ {Max(s)}] \in V
      BY <1>7 DEF Folds
    <3> QED
      BY <1>5, <3>1, <3>2, <3>3
  <2>2. it = [s \in SUBSET (1..n) |-> it[s]] /\ it[{}] = <<>>
    BY <1>7 DEF Folds
  <2> QED
    BY <2>1, <2>2
<1>11. Eq(iter)
  BY <1>8, <1>10
<1>12. PICK r : r = [m \in 0..n |-> iter[1..m]]
  OBVIOUS
<1>13. ASSUME NEW m \in 1..n
       PROVE  r[m] = op(r[m - 1], p[m])
  <2>1. Max(1..m) = m /\ (1..m) \ {m} = 1..(m - 1) /\ 1..m # {} /\ 1..m \in SUBSET (1..n)
    <3>1. m \in Nat \ {0} /\ n \in Nat /\ m <= n
      BY <1>1
    <3>2. (1..m) \ {m} = 1..(m - 1) /\ m \in 1..m
      BY <3>1
    <3>3. 1..m \in SUBSET (1..n)
      BY <3>1
    <3> QED
      BY <3>1, <3>2, <3>3, MaxOfInterval
  <2>2. iter[1..m] = op(iter[(1..m) \ {Max(1..m)}], p[Max(1..m)])
    BY <1>11, <2>1
  <2>3. r[m] = iter[1..m] /\ r[m - 1] = iter[1..(m - 1)]
    BY <1>12
  <2> QED
    BY <2>1, <2>2, <2>3
<1>14. r[0] = <<>> /\ r[n] = List(q, f)
  <2>1. iter[{}] = <<>> /\ 1..0 = {}
    BY <1>11
  <2> QED
    BY <1>9, <1>12, <2>1
<1>15. \A m \in 1..n :
         r[m] = IF Len(r[m - 1]) < Limit(f.limit) /\ Matches(q[n - m + 1], f)
                THEN Append(r[m - 1], q[n - m + 1]) ELSE r[m - 1]
  BY <1>3, <1>13
<1>16. Unfolds(r, q, f)
  BY <1>1, <1>14, <1>15 DEF Unfolds
<1> QED
  BY <1>16

\* Where the limit is one that a client or the page may ask for, it is positive.
LEMMA LimitIsPositive ==
  ASSUME NEW f \in Filters
  PROVE  Limit(f.limit) \in Nat \ {0}
<1>1. f.limit \in -1..(LimitCap + 1)
  BY DEF Filters
<1> QED
  BY <1>1, ConstantsOK DEF Limit

\* As many as there may be of the newest: the k-th is one with k from it on.
ShowsNewest(shown, q, all, size, matching, enough) ==
  /\ shown \in Seq(Records)
  /\ Len(shown) = IF matching < enough THEN matching ELSE enough
  /\ \A k \in 1..Len(shown) : \E n \in all : shown[k] = q[n] /\ size[n] = k

\* What ListIsNewestFirst says of one listing.
IsNewest(shown, q, all, enough) ==
  /\ Len(shown) = IF Cardinality(all) < enough THEN Cardinality(all) ELSE enough
  /\ \A k \in DOMAIN shown : \E n \in all :
       /\ shown[k] = q[n]
       /\ Cardinality({m \in all : m >= n}) = k

\* By induction on how many records have been looked at: the listing then has as
\* many of the matching ones among them as there may be (ShowsNewest).
LEMMA ListIsRight ==
  ASSUME NEW q \in Seq(Records), NEW f \in Filters,
         NEW all, all = {n \in DOMAIN q : Matches(q[n], f)}
  PROVE  IsNewest(List(q, f), q, all, Limit(f.limit))
<1>1. PICK l \in Nat : l = Len(q) /\ DOMAIN q = 1..l
  BY LenProperties
<1>2. PICK enough \in Nat \ {0} : enough = Limit(f.limit)
  BY LimitIsPositive
<1>3. all = {n \in DOMAIN q : Matches(q[n], f)}
  OBVIOUS
<1>4. PICK r : /\ r[0] = <<>> /\ r[l] = List(q, f)
              /\ \A m \in 1..l :
                   r[m] = IF Len(r[m - 1]) < enough /\ Matches(q[l - m + 1], f)
                          THEN Append(r[m - 1], q[l - m + 1]) ELSE r[m - 1]
  <2>1. PICK r : Unfolds(r, q, f)
    BY ListUnfolds
  <2>2. /\ r[0] = <<>> /\ r[l] = List(q, f)
        /\ \A m \in 1..l :
             r[m] = IF Len(r[m - 1]) < enough /\ Matches(q[l - m + 1], f)
                    THEN Append(r[m - 1], q[l - m + 1]) ELSE r[m - 1]
    BY <1>1, <1>2, <2>1 DEF Unfolds
  <2> QED
    BY <2>2
\* from[n]: the matching records that are not older than record n.
<1>5. PICK from : from = [n \in 1..(l + 1) |-> {m \in all : m >= n}]
  OBVIOUS
<1>6. PICK size : size = [n \in 1..(l + 1) |-> Cardinality(from[n])]
  OBVIOUS
<1>7. /\ size[l + 1] = 0
      /\ \A n \in 1..l : size[n] = IF n \in all THEN size[n + 1] + 1 ELSE size[n + 1]
      /\ \A n \in 1..(l + 1) : size[n] \in Nat
  <2>1. \A n \in 1..(l + 1) : IsFiniteSet(from[n]) /\ size[n] = Cardinality(from[n])
    <3>1. IsFiniteSet(1..l)
      BY FS_Interval
    <3>2. \A n \in 1..(l + 1) : from[n] \in SUBSET (1..l)
      BY <1>1, <1>3, <1>5
    <3> QED
      BY <1>6, <3>1, <3>2, FS_Subset
  <2>2. \A n \in 1..(l + 1) : size[n] \in Nat
    BY <2>1, FS_CardinalityType
  <2>3. from[l + 1] = {}
    BY <1>1, <1>3, <1>5
  <2>4. size[l + 1] = 0
    BY <2>1, <2>3, FS_EmptySet
  <2>5. ASSUME NEW n \in 1..l
        PROVE  size[n] = IF n \in all THEN size[n + 1] + 1 ELSE size[n + 1]
    <3>1. n + 1 \in 1..(l + 1) /\ n \in 1..(l + 1)
      OBVIOUS
    <3>2. \A m \in all : m >= n <=> m = n \/ m >= n + 1
      BY <1>1, <1>3
    <3>3. CASE n \in all
      <4>1. from[n] = from[n + 1] \union {n} /\ n \notin from[n + 1]
        <5>1. /\ \A x : x \in from[n] <=> x \in all /\ x >= n
              /\ \A x : x \in from[n + 1] <=> x \in all /\ x >= n + 1
          BY <1>5, <3>1
        <5>2. n >= n /\ ~(n >= n + 1)
          OBVIOUS
        <5> QED
          BY <3>2, <3>3, <5>1, <5>2
      <4> QED
        BY <2>1, <3>1, <3>3, <4>1, FS_AddElement
    <3>4. CASE n \notin all
      <4>1. from[n] = from[n + 1]
        BY <1>5, <3>1, <3>2, <3>4
      <4> QED
        BY <2>1, <3>1, <3>4, <4>1
    <3> QED
      BY <3>3, <3>4
  <2> QED
    BY <2>2, <2>4, <2>5
\* What the listing has after m records, from the newest on.
<1>8. PICK S : S = {m \in Nat : m <= l => ShowsNewest(r[m], q, all, size, size[l + 1 - m], enough)}
  OBVIOUS
<1>9. 0 \in S
  <2>1. r[0] \in Seq(Records) /\ Len(r[0]) = 0
    BY <1>4
  <2>2. size[l + 1 - 0] = 0
    BY <1>7
  <2> QED
    BY <1>2, <1>8, <2>1, <2>2 DEF ShowsNewest
<1>10. ASSUME NEW m \in Nat, m \in S
       PROVE  m + 1 \in S
  <2> SUFFICES ASSUME m + 1 <= l
               PROVE  ShowsNewest(r[m + 1], q, all, size, size[l - m], enough)
    <3>1. l + 1 - (m + 1) = l - m
      OBVIOUS
    <3> QED
      BY <1>8, <3>1
  <2>1. PICK t \in Seq(Records) :
          /\ t = r[m]
          /\ Len(t) = IF size[l - m + 1] < enough THEN size[l - m + 1] ELSE enough
          /\ \A k \in 1..Len(t) : \E n \in all : t[k] = q[n] /\ size[n] = k
    <3>1. l + 1 - m = l - m + 1 /\ m <= l
      OBVIOUS
    <3>2. ShowsNewest(r[m], q, all, size, size[l - m + 1], enough)
      BY <1>8, <1>10, <3>1
    <3> QED
      BY <3>2, Zenon DEF ShowsNewest
  <2>2. PICK a \in 1..l : a = l - m
    OBVIOUS
  <2>3. r[m + 1] = IF Len(t) < enough /\ Matches(q[a], f) THEN Append(t, q[a]) ELSE t
    <3>1. m + 1 \in 1..l /\ l - (m + 1) + 1 = a /\ (m + 1) - 1 = m
      BY <2>2
    <3> QED
      BY <1>4, <2>1, <3>1
  <2>4. /\ size[a] = IF a \in all THEN size[a + 1] + 1 ELSE size[a + 1]
        /\ size[a] \in Nat /\ size[a + 1] \in Nat
        /\ a \in all <=> Matches(q[a], f)
        /\ Len(t) = IF size[a + 1] < enough THEN size[a + 1] ELSE enough
    <3>1. a \in 1..(l + 1) /\ a + 1 \in 1..(l + 1)
      OBVIOUS
    <3>2. a \in all <=> Matches(q[a], f)
      BY <1>1, <1>3
    <3> QED
      BY <1>7, <2>1, <2>2, <3>1, <3>2
  <2>5. CASE Len(t) < enough /\ Matches(q[a], f)
    <3>1. PICK b \in Seq(Records) : b = Append(t, q[a])
      <4>1. q[a] \in Records
        BY <1>1
      <4>2. Append(t, q[a]) \in Seq(Records)
        BY <4>1
      <4> QED
        BY <4>2
    <3>2. /\ Len(b) = Len(t) + 1 /\ b[Len(t) + 1] = q[a]
          /\ \A k \in 1..Len(t) : b[k] = t[k]
      BY <3>1
    <3>3. Len(t) = size[a + 1] /\ size[a] = Len(t) + 1 /\ a \in all
      BY <2>4, <2>5
    <3>4. ASSUME NEW k \in 1..Len(b)
          PROVE  \E n \in all : b[k] = q[n] /\ size[n] = k
      <4>1. CASE k = Len(t) + 1
        BY <3>2, <3>3, <4>1
      <4>2. CASE k # Len(t) + 1
        <5>1. k \in 1..Len(t)
          BY <3>2, <4>2
        <5>2. PICK n \in all : t[k] = q[n] /\ size[n] = k
          BY <2>1, <5>1
        <5>3. b[k] = q[n]
          BY <3>2, <5>1, <5>2
        <5> QED
          BY <5>2, <5>3
      <4> QED
        BY <4>1, <4>2
    <3>5. Len(b) = IF size[a] < enough THEN size[a] ELSE enough
      BY <2>4, <2>5, <3>2, <3>3
    <3> QED
      BY <2>2, <2>3, <2>5, <3>1, <3>4, <3>5 DEF ShowsNewest
  <2>6. CASE ~(Len(t) < enough /\ Matches(q[a], f))
    <3>1. r[m + 1] = t
      BY <2>3, <2>6
    <3>2. Len(t) = IF size[a] < enough THEN size[a] ELSE enough
      BY <2>4, <2>6
    <3> QED
      BY <2>1, <2>2, <3>1, <3>2 DEF ShowsNewest
  <2> QED
    BY <2>5, <2>6
<1>11. l \in S
  BY <1>8, <1>9, <1>10, Inductive
<1>12. /\ r[l] \in Seq(Records)
       /\ Len(r[l]) = IF size[1] < enough THEN size[1] ELSE enough
       /\ \A k \in 1..Len(r[l]) : \E n \in all : r[l][k] = q[n] /\ size[n] = k
  <2>1. l + 1 - l = 1
    OBVIOUS
  <2> QED
    BY <1>8, <1>11, <2>1 DEF ShowsNewest
<1>13. size[1] = Cardinality(all)
  <2>1. 1 \in 1..(l + 1) /\ \A m \in all : m >= 1
    BY <1>1, <1>3
  <2>2. from[1] = all
    BY <1>5, <2>1
  <2> QED
    BY <1>6, <2>1, <2>2
<1>14. \A n \in all : size[n] = Cardinality({m \in all : m >= n})
  BY <1>1, <1>3, <1>5, <1>6
<1>15. DOMAIN r[l] = 1..Len(r[l])
  BY <1>12
<1>16. Len(r[l]) = IF Cardinality(all) < enough THEN Cardinality(all) ELSE enough
  BY <1>12, <1>13
<1>17. ASSUME NEW k \in DOMAIN r[l]
       PROVE  \E n \in all : r[l][k] = q[n] /\ Cardinality({m \in all : m >= n}) = k
  <2>1. PICK n \in all : r[l][k] = q[n] /\ size[n] = k
    BY <1>12, <1>15
  <2> QED
    BY <1>14, <2>1
<1>18. IsNewest(r[l], q, all, enough)
  BY <1>16, <1>17, Zenon DEF IsNewest
<1>19. r[l] = List(q, f)
  BY <1>4
<1> QED
  BY <1>2, <1>18, <1>19

\* A listing has the newest records that match, newest first and as many as its
\* limit lets through, whatever was dropped before (Logger.List).
THEOREM ListingsAreNewestFirst == Spec => []ListIsNewestFirst
<1>1. ASSUME TypeOK
      PROVE  ListIsNewestFirst
  <2>1. items \in Seq(Records)
    BY <1>1 DEF TypeOK
  <2> SUFFICES ASSUME NEW f \in Filters,
                      NEW all, all = {n \in DOMAIN items : Matches(items[n], f)}
               PROVE  IsNewest(List(items, f), items, all, Limit(f.limit))
    BY DEF ListIsNewestFirst, IsNewest
  <2> QED
    BY <2>1, ListIsRight
<1> QED
  BY <1>1, TypeCorrect, PTL
=============================================================================
