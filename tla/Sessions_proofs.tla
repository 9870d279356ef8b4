-------------------------- MODULE Sessions_proofs --------------------------
(***************************************************************************)
(* What a listing of the sessions answers is of sessions that were there,  *)
(* and where it knew the targets it is right and complete, for any sets of *)
(* targets and sessions.                                                   *)
(*                                                                         *)
(* The output of one command is read by two folds: one over the sessions   *)
(* that prints, one over the lines that reads.  What they come to is shown *)
(* by induction: once the lines of one session have been read there is a   *)
(* row of it more (OutputRead).  The invariant then follows the sessions   *)
(* that a command showed to the answer.                                    *)
(***************************************************************************)
EXTENDS Sessions, SequenceTheorems, FiniteSetTheorems, TLAPS

-----------------------------------------------------------------------------
\* Induction and folds.

\* A set of numbers has a least one.
LEMMA LeastOf ==
  ASSUME NEW B \in SUBSET Nat, B # {}
  PROVE  \E m \in B : \A k \in B : m <= k
<1>1. PICK T : T = {0..m : m \in B}
  OBVIOUS
<1>2. T \subseteq FiniteSubsetsOf(Nat) /\ T # {}
  <2>1. \A m \in B : IsFiniteSet(0..m) /\ 0..m \in SUBSET Nat
    BY FS_Interval
  <2> QED
    BY <1>1, <2>1 DEF FiniteSubsetsOf
<1>3. IsWellFoundedOn(StrictSubsetOrdering(Nat), FiniteSubsetsOf(Nat))
  BY FS_StrictSubsetOrderingWellFounded
<1>4. PICK S \in T : \A U \in T : ~ (<<U, S>> \in StrictSubsetOrdering(Nat))
  BY <1>2, <1>3, WFMin
<1>5. PICK m \in B : S = 0..m
  BY <1>1
<1>6. ASSUME NEW k \in B, k < m
      PROVE  FALSE
  <2>1. 0..k \in T /\ 0..k \in SUBSET Nat /\ 0..m \in SUBSET Nat
    BY <1>1
  <2>2. 0..k \subseteq 0..m /\ 0..k # 0..m
    BY <1>6
  <2>3. <<0..k, 0..m>> \in StrictSubsetOrdering(Nat)
    BY <2>1, <2>2 DEF StrictSubsetOrdering
  <2> QED
    BY <1>4, <1>5, <2>1, <2>3
<1> QED
  BY <1>6

\* A set of numbers with 0 and every successor is that of all of them.
LEMMA Inductive ==
  ASSUME NEW S \in SUBSET Nat, 0 \in S, \A n \in Nat : n \in S => n + 1 \in S
  PROVE  S = Nat
<1> SUFFICES ASSUME Nat \ S # {} PROVE FALSE
  OBVIOUS
<1>1. PICK m \in Nat \ S : \A k \in Nat \ S : m <= k
  BY LeastOf
<1>2. m - 1 \in Nat /\ m - 1 \in S
  BY <1>1
<1> QED
  BY <1>2

\* The last number of 1..m.
LEMMA MaxOfInterval ==
  ASSUME NEW m \in Nat \ {0}
  PROVE  Max(1..m) = m
<1>1. m \in 1..m /\ \A x \in 1..m : (\A y \in 1..m : x >= y) <=> x = m
  OBVIOUS
<1> QED
  BY <1>1, Zenon DEF Max

\* The greatest of a set of numbers up to n is one of them.
LEMMA MaxIsIn ==
  ASSUME NEW n \in Nat, NEW s \in SUBSET (1..n), s # {}
  PROVE  Max(s) \in s
<1>1. PICK B : B = {b \in Nat : \A y \in s : b >= y}
  OBVIOUS
<1>2. n \in B /\ B \in SUBSET Nat
  BY <1>1
<1>3. PICK m \in B : \A k \in B : m <= k
  BY <1>2, LeastOf
<1>4. m \in s
  <2> SUFFICES ASSUME m \notin s PROVE FALSE
    OBVIOUS
  <2>1. \A y \in s : y \in Nat /\ 1 <= y /\ y <= m /\ y # m
    BY <1>1, <1>3
  <2>2. m - 1 \in Nat /\ \A y \in s : m - 1 >= y
    <3>1. PICK y \in s : TRUE
      OBVIOUS
    <3>2. m \in Nat
      BY <1>2
    <3>3. m - 1 \in Nat
      BY <2>1, <3>1, <3>2
    <3>4. ASSUME NEW z \in s
          PROVE  m - 1 >= z
      BY <2>1, <3>2
    <3> QED
      BY <3>3, <3>4
  <2> QED
    BY <1>1, <1>2, <1>3, <2>2
<1>5. \E x \in s : \A y \in s : x >= y
  BY <1>1, <1>4
<1> QED
  BY <1>5 DEF Max

\* The function by which a fold over 1..m is defined.
Folds(it, m, V, base, G) ==
  /\ it \in [SUBSET (1..m) -> V]
  /\ \A s \in SUBSET (1..m) :
       it[s] = IF s = {} THEN base ELSE G[<<Max(s), it[s \ {Max(s)}]>>]

\* There is such a function.
LEMMA FoldDefined ==
  ASSUME NEW n \in Nat, NEW V, NEW base \in V, NEW G \in [(1..n) \X V -> V]
  PROVE  \E it : Folds(it, n, V, base, G)
<1>1. PICK S : S = {m \in Nat : m <= n => \E it : Folds(it, m, V, base, G)}
  OBVIOUS
<1>2. 0 \in S
  <2>1. 1..0 = {}
    OBVIOUS
  <2>2. PICK it : it = [s \in SUBSET (1..0) |-> base]
    OBVIOUS
  <2>3. Folds(it, 0, V, base, G)
    BY <2>1, <2>2 DEF Folds
  <2> QED
    BY <1>1, <2>3
<1>3. ASSUME NEW m \in Nat, m \in S
      PROVE  m + 1 \in S
  <2> SUFFICES ASSUME m + 1 <= n
               PROVE  \E it : Folds(it, m + 1, V, base, G)
    BY <1>1
  <2>1. PICK it : Folds(it, m, V, base, G)
    BY <1>1, <1>3
  <2>2. PICK j : j = [s \in SUBSET (1..(m + 1)) |->
                        IF m + 1 \in s THEN G[<<m + 1, it[s \ {m + 1}]>>] ELSE it[s]]
    OBVIOUS
  <2>3. ASSUME NEW s \in SUBSET (1..(m + 1)), m + 1 \in s
        PROVE  /\ Max(s) = m + 1 /\ s \ {m + 1} \in SUBSET (1..m) /\ m + 1 \notin s \ {m + 1}
               /\ s \ {m + 1} \in SUBSET (1..(m + 1))
    <3>1. \A y \in s : y \in Nat /\ m + 1 >= y
      OBVIOUS
    <3>2. \A x \in s : (\A y \in s : x >= y) <=> x = m + 1
      BY <2>3, <3>1
    <3>3. Max(s) = m + 1
      BY <2>3, <3>2, Zenon DEF Max
    <3>4. \A y \in s : y # m + 1 => y \in 1..m
      BY <3>1
    <3> QED
      BY <3>3, <3>4
  <2>4. ASSUME NEW s \in SUBSET (1..(m + 1)), m + 1 \notin s
        PROVE  s \in SUBSET (1..m) /\ \A x : s \ {x} \in SUBSET (1..m) /\ m + 1 \notin s \ {x}
    <3>1. \A y \in s : y \in 1..m
      BY <2>4
    <3> QED
      BY <2>4, <3>1
  <2>5. \A s \in SUBSET (1..m) : s \in SUBSET (1..(m + 1)) /\ m + 1 \notin s /\ j[s] = it[s]
    BY <2>2
  <2>6. ASSUME NEW s \in SUBSET (1..(m + 1))
        PROVE  j[s] \in V /\ j[s] = IF s = {} THEN base ELSE G[<<Max(s), j[s \ {Max(s)}]>>]
    <3>1. CASE m + 1 \in s
      <4>1. j[s] = G[<<m + 1, it[s \ {m + 1}]>>]
        BY <2>2, <3>1
      <4>2. it[s \ {m + 1}] \in V /\ j[s \ {m + 1}] = it[s \ {m + 1}]
        BY <2>1, <2>3, <2>5, <3>1 DEF Folds
      <4>3. m + 1 \in 1..n
        OBVIOUS
      <4> QED
        BY <2>3, <3>1, <4>1, <4>2, <4>3
    <3>2. CASE m + 1 \notin s
      <4>1. j[s] = it[s] /\ s \in SUBSET (1..m)
        BY <2>4, <2>5, <3>2
      <4>2. j[s \ {Max(s)}] = it[s \ {Max(s)}]
        BY <2>4, <2>5, <3>2
      <4> QED
        BY <2>1, <4>1, <4>2 DEF Folds
    <3> QED
      BY <3>1, <3>2
  <2>7. j \in [SUBSET (1..(m + 1)) -> V]
    BY <2>2, <2>6
  <2> QED
    BY <2>6, <2>7 DEF Folds
<1>4. S = Nat
  BY <1>1, <1>2, <1>3, Inductive
<1>5. \E it : Folds(it, n, V, base, G)
  BY <1>1, <1>4
<1> QED
  BY <1>5

\* Induction up to a bound.
LEMMA UpTo ==
  ASSUME NEW n \in Nat, NEW P, 0 \in P, \A m \in 1..n : m - 1 \in P => m \in P
  PROVE  \A m \in 0..n : m \in P
<1>1. PICK S \in SUBSET Nat : S = {m \in Nat : m <= n => m \in P}
  OBVIOUS
<1>2. ASSUME NEW m \in Nat, m \in S
      PROVE  m + 1 \in S
  <2> SUFFICES ASSUME m + 1 <= n PROVE m + 1 \in P
    BY <1>1
  <2>1. m \in P /\ m + 1 \in 1..n /\ (m + 1) - 1 = m
    BY <1>1, <1>2
  <2> QED
    BY <2>1
<1>3. S = Nat
  BY <1>1, <1>2, Inductive
<1> QED
  BY <1>1, <1>3

\* The last index of 1..m, and those before it.
LEMMA LastOfInterval ==
  ASSUME NEW n \in Nat, NEW m \in 1..n
  PROVE  /\ Max(1..m) = m /\ (1..m) \ {m} = 1..(m - 1) /\ 1..m # {}
         /\ 1..m \in SUBSET (1..n)
<1>1. m \in Nat \ {0} /\ m <= n
  OBVIOUS
<1>2. (1..m) \ {m} = 1..(m - 1) /\ m \in 1..m
  BY <1>1
<1>3. 1..m \in SUBSET (1..n)
  BY <1>1
<1> QED
  BY <1>1, <1>2, <1>3, MaxOfInterval

-----------------------------------------------------------------------------
\* The names that may be printed of a session.
Iqns     == {x.target : x \in Universe} \union {x.initiator : x \in Universe}
IqnLists == {<<>>} \union {<<a>> : a \in Iqns}
            \union {<<x.target, x.initiator>> : x \in Universe}
            \union {<<x.initiator, x.target>> : x \in Universe}
Lines    == [sid : Printable("sid"), state : {"logged_in", Unknown}, ip : Printable("ip"),
             iqns : IqnLists]

\* One line, as Parse reads it: the rows that are complete, and the one that is not.
States == [all : Seq(Rows), row : Rows]
Read(acc, line, known_) ==
  IF EndsRow(line)
  THEN [all |-> AppendIfValid(acc.all, acc.row), row |-> Added(EmptyRow, line, known_)]
  ELSE [acc EXCEPT !.row = Added(@, line, known_)]

\* A row is of session x: it has nothing of another, and each name where it
\* belongs if those in known_ are targets, that of x among them.
RowOf(row, x, known_) ==
  /\ SameNumber(row, x)
  /\ {row.target, row.initiator} \subseteq {x.target, x.initiator, Unknown}
  /\ known_ \subseteq Targets /\ x.target \in known_ =>
       row.target \in {x.target, Unknown} /\ row.initiator \in {x.initiator, Unknown}

\* The rows that have been found, with the one that is not complete.
Found(acc) == ToSet(acc.all) \union ({acc.row} \ {EmptyRow})

\* The least of a set of at most two.
LEMMA MinOfTwo ==
  ASSUME NEW s \in SUBSET {1, 2}
  PROVE  /\ 1 \in s => Min(s) = 1
         /\ s = {2} => Min(s) = 2
<1>1. CASE 1 \in s
  <2>1. \A x \in s : (\A y \in s : x <= y) <=> x = 1
    BY <1>1
  <2> QED
    BY <1>1, <2>1, Zenon DEF Min
<1>2. CASE s = {2}
  <2>1. \A x \in s : (\A y \in s : x <= y) <=> x = 2
    BY <1>2
  <2>2. 1 \notin s /\ 2 \in s
    BY <1>2
  <2> QED
    BY <2>1, <2>2, Zenon DEF Min
<1> QED
  BY <1>1, <1>2

\* What becomes of one name.
LEMMA OneName ==
  ASSUME NEW a, NEW known_
  PROVE  Classify(<<a>>, known_) =
           IF a \in known_ THEN [target |-> a, initiator |-> Unknown]
           ELSE [target |-> Unknown, initiator |-> a]
<1>1. PICK l : l = <<a>>
  OBVIOUS
<1>2. DOMAIN l = {1} /\ Len(l) = 1 /\ l[1] = a
  BY <1>1
<1>3. PICK hits : hits = {n \in DOMAIN l : l[n] \in known_}
  OBVIOUS
<1>4. CASE a \in known_
  <2>1. hits = {1}
    BY <1>2, <1>3, <1>4
  <2>2. Min(hits) = 1
    BY <2>1, MinOfTwo
  <2>3. {n \in DOMAIN l : l[n] # l[Min(hits)]} = {}
    BY <1>2, <2>2
  <2> QED
    BY <1>1, <1>2, <1>3, <1>4, <2>1, <2>2, <2>3 DEF Classify
<1>5. CASE a \notin known_
  <2>1. hits = {}
    BY <1>2, <1>3, <1>5
  <2> QED
    BY <1>1, <1>2, <1>3, <1>5, <2>1 DEF Classify
<1> QED
  BY <1>4, <1>5

\* Of two names.
LEMMA TwoNames ==
  ASSUME NEW a, NEW b, a # b, NEW known_
  PROVE  Classify(<<a, b>>, known_) =
           IF b \in known_ /\ a \notin known_ THEN [target |-> b, initiator |-> a]
           ELSE [target |-> a, initiator |-> b]
<1>1. PICK l : l = <<a, b>>
  OBVIOUS
<1>2. DOMAIN l = {1, 2} /\ Len(l) = 2 /\ l[1] = a /\ l[2] = b
  BY <1>1
<1>3. PICK hits : hits = {n \in DOMAIN l : l[n] \in known_}
  OBVIOUS
<1>4. CASE a \in known_
  <2>1. 1 \in hits /\ hits \in SUBSET {1, 2} /\ hits # {}
    BY <1>2, <1>3, <1>4
  <2>2. Min(hits) = 1
    BY <2>1, MinOfTwo
  <2>3. {n \in DOMAIN l : l[n] # l[Min(hits)]} = {2}
    BY <1>2, <2>2
  <2>4. Min({2}) = 2 /\ {2} # {}
    BY MinOfTwo
  <2> QED
    BY <1>1, <1>2, <1>3, <1>4, <2>1, <2>2, <2>3, <2>4 DEF Classify
<1>5. CASE a \notin known_ /\ b \in known_
  <2>1. hits = {2}
    BY <1>2, <1>3, <1>5
  <2>2. Min(hits) = 2
    BY <2>1, MinOfTwo
  <2>3. {n \in DOMAIN l : l[n] # l[Min(hits)]} = {1}
    BY <1>2, <2>2
  <2>4. Min({1}) = 1 /\ {1} # {}
    BY MinOfTwo
  <2> QED
    BY <1>1, <1>2, <1>3, <1>5, <2>1, <2>2, <2>3, <2>4 DEF Classify
<1>6. CASE a \notin known_ /\ b \notin known_
  <2>1. hits = {}
    BY <1>2, <1>3, <1>6
  <2> QED
    BY <1>1, <1>2, <1>3, <1>6, <2>1 DEF Classify
<1> QED
  BY <1>4, <1>5, <1>6

\* The lines that are printed of a session.
LEMMA LinesTyped ==
  ASSUME NEW x \in Universe
  PROVE  /\ Line(x.sid, "logged_in", Unknown, <<>>) \in Lines
         /\ Line(x.sid, Unknown, x.ip, <<x.target, x.initiator>>) \in Lines
         /\ Line(x.sid, Unknown, x.ip, <<x.initiator, x.target>>) \in Lines
         /\ Names(<<x.target>>) \in Lines /\ Names(<<x.initiator>>) \in Lines
         /\ Address(x.ip) \in Lines /\ Blank \in Lines
<1>1. /\ x.sid \in Printable("sid") /\ x.ip \in Printable("ip") /\ Unknown \in Printable("sid")
      /\ Unknown \in Printable("ip")
  BY DEF Printable
<1>2. /\ <<>> \in IqnLists /\ <<x.target>> \in IqnLists /\ <<x.initiator>> \in IqnLists
      /\ <<x.target, x.initiator>> \in IqnLists /\ <<x.initiator, x.target>> \in IqnLists
  BY DEF IqnLists, Iqns
<1>3. \A sid \in Printable("sid"), state \in {"logged_in", Unknown}, ip \in Printable("ip"),
         iqns \in IqnLists : Line(sid, state, ip, iqns) \in Lines
  BY DEF Line, Lines
<1> QED
  BY <1>1, <1>2, <1>3 DEF Names, Address, Blank

\* How many they are in each format.
LEMMA PrintedTyped ==
  ASSUME NEW x \in Universe, NEW f \in Formats
  PROVE  /\ Printed(x, f) \in Seq(Lines)
         /\ Len(Printed(x, f)) = CASE f = "detail" -> 3 [] f = "blocks" -> 4 [] OTHER -> 1
<1>1. CASE f = "detail"
  <2>1. Printed(x, f) = <<Line(x.sid, "logged_in", Unknown, <<>>),
                          Names(<<x.initiator>>), Address(x.ip)>>
    BY <1>1, Zenon DEF Printed
  <2>2. PICK k, l, m \in Lines : Printed(x, f) = <<k, l, m>>
    BY <2>1, LinesTyped
  <2>3. <<k, l, m>> \in Seq(Lines) /\ Len(<<k, l, m>>) = 3
    OBVIOUS
  <2> QED
    BY <1>1, <2>2, <2>3, Zenon
<1>2. CASE f = "blocks"
  <2>1. Printed(x, f) = <<Names(<<x.target>>), Names(<<x.initiator>>), Address(x.ip), Blank>>
    BY <1>2, Zenon DEF Printed
  <2>2. PICK k, l, m, n \in Lines : Printed(x, f) = <<k, l, m, n>>
    BY <2>1, LinesTyped
  <2>3. <<k, l, m, n>> \in Seq(Lines) /\ Len(<<k, l, m, n>>) = 4
    OBVIOUS
  <2>4. f # "detail"
    BY <1>2
  <2> QED
    BY <1>2, <2>2, <2>3, <2>4, Zenon
<1>3. CASE f \notin {"detail", "blocks"}
  <2>1. PICK line \in Lines : Printed(x, f) = <<line>>
    BY <1>3, LinesTyped DEF Printed, Formats
  <2> QED
    BY <1>3, <2>1
<1> QED
  BY <1>1, <1>2, <1>3

\* A row stays one when a line is added.
LEMMA AddedTyped ==
  ASSUME NEW row \in Rows, NEW line \in Lines, NEW known_
  PROVE  Added(row, line, known_) \in Rows
<1>1. PICK names : names = Printable("target") \union Printable("initiator")
  OBVIOUS
<1>2. Iqns \subseteq names /\ Unknown \in names
  BY <1>1 DEF Iqns, Printable
<1>3. line.iqns # <<>> => /\ Classify(line.iqns, known_).target \in names
                          /\ Classify(line.iqns, known_).initiator \in names
  <2> SUFFICES ASSUME line.iqns # <<>>
               PROVE  /\ Classify(line.iqns, known_).target \in names
                      /\ Classify(line.iqns, known_).initiator \in names
    OBVIOUS
  <2>1. line.iqns \in IqnLists
    BY DEF Lines
  <2>2. CASE \E a \in Iqns : line.iqns = <<a>>
    <3>1. PICK a \in Iqns : line.iqns = <<a>>
      BY <2>2
    <3>2. \/ Classify(line.iqns, known_) = [target |-> a, initiator |-> Unknown]
          \/ Classify(line.iqns, known_) = [target |-> Unknown, initiator |-> a]
      BY <3>1, OneName, Zenon
    <3> QED
      BY <1>2, <3>2
  <2>3. CASE \E a, b \in Iqns : a # b /\ line.iqns = <<a, b>>
    <3>1. PICK a, b \in Iqns : a # b /\ line.iqns = <<a, b>>
      BY <2>3
    <3>2. \/ Classify(line.iqns, known_) = [target |-> a, initiator |-> b]
          \/ Classify(line.iqns, known_) = [target |-> b, initiator |-> a]
      BY <3>1, TwoNames, Zenon
    <3> QED
      BY <1>2, <3>2
  <2>4. \A x \in Universe : x.target \in Iqns /\ x.initiator \in Iqns /\ x.target # x.initiator
    BY ConstantsOK DEF Iqns
  <2> QED
    BY <2>1, <2>2, <2>3, <2>4 DEF IqnLists
<1>4. EmptyRow.target = Unknown /\ EmptyRow.initiator = Unknown
  BY DEF EmptyRow
<1>5. /\ row.target \in names /\ row.initiator \in names
      /\ row.sid \in Printable("sid") /\ row.ip \in Printable("ip")
      /\ row.state \in {"logged_in", Unknown}
      /\ line.sid \in Printable("sid") /\ line.ip \in Printable("ip")
      /\ line.state \in {"logged_in", Unknown}
  BY <1>1 DEF Rows, Lines
<1> QED
  BY <1>1, <1>2, <1>3, <1>4, <1>5 DEF Added, Or, Rows

\* So is the empty one.
LEMMA EmptyTyped == EmptyRow \in Rows
BY DEF EmptyRow, Rows, Printable

\* One row more.
LEMMA OneMore ==
  ASSUME NEW all \in Seq(Rows), NEW row \in Rows
  PROVE  Append(all, row) \in Seq(Rows) /\ ToSet(Append(all, row)) = ToSet(all) \union {row}
<1>1. /\ DOMAIN all = 1..Len(all) /\ Len(all) \in Nat
      /\ DOMAIN Append(all, row) = 1..(Len(all) + 1)
      /\ \A i \in 1..Len(all) : Append(all, row)[i] = all[i]
      /\ Append(all, row)[Len(all) + 1] = row
  OBVIOUS
<1>2. \A v : v \in ToSet(Append(all, row)) <=> \E i \in 1..(Len(all) + 1) : Append(all, row)[i] = v
  BY <1>1, Zenon DEF ToSet
<1>3. \A v : v \in ToSet(all) <=> \E i \in 1..Len(all) : all[i] = v
  BY <1>1, Zenon DEF ToSet
<1>4. \A i : i \in 1..(Len(all) + 1) <=> i \in 1..Len(all) \/ i = Len(all) + 1
  BY <1>1
<1> QED
  BY <1>1, <1>2, <1>3, <1>4

\* What a list of rows has after one more, that may be empty.
LEMMA Appended ==
  ASSUME NEW all \in Seq(Rows), NEW row \in Rows
  PROVE  /\ AppendIfValid(all, row) \in Seq(Rows)
         /\ ToSet(AppendIfValid(all, row)) = ToSet(all) \union ({row} \ {EmptyRow})
BY OneMore DEF AppendIfValid

\* What one line does to what has been found.
LEMMA LineRead ==
  ASSUME NEW acc \in States, NEW line \in Lines, NEW known_
  PROVE  /\ Read(acc, line, known_) \in States
         /\ EndsRow(line) =>
              /\ ToSet(Read(acc, line, known_).all) = Found(acc)
              /\ Read(acc, line, known_).row = Added(EmptyRow, line, known_)
         /\ ~EndsRow(line) =>
              /\ Read(acc, line, known_).all = acc.all
              /\ Read(acc, line, known_).row = Added(acc.row, line, known_)
<1>1. acc.all \in Seq(Rows) /\ acc.row \in Rows
  BY DEF States
<1>2. Added(EmptyRow, line, known_) \in Rows /\ Added(acc.row, line, known_) \in Rows
  BY <1>1, AddedTyped, EmptyTyped
<1>3. CASE EndsRow(line)
  <2>1. Read(acc, line, known_) =
          [all |-> AppendIfValid(acc.all, acc.row), row |-> Added(EmptyRow, line, known_)]
    BY <1>3 DEF Read
  <2>2. /\ AppendIfValid(acc.all, acc.row) \in Seq(Rows)
        /\ ToSet(AppendIfValid(acc.all, acc.row)) = Found(acc)
    BY <1>1, Appended DEF Found
  <2> QED
    BY <1>2, <1>3, <2>1, <2>2 DEF States
<1>4. CASE ~EndsRow(line)
  <2>1. Read(acc, line, known_) = [acc EXCEPT !.row = Added(acc.row, line, known_)]
    BY <1>4 DEF Read
  <2> QED
    BY <1>1, <1>2, <1>4, <2>1 DEF States
<1> QED
  BY <1>3, <1>4

-----------------------------------------------------------------------------
\* A row, field by field.
Row(sid, state, target, initiator, ip) ==
  [sid |-> sid, state |-> state, target |-> target, initiator |-> initiator, ip |-> ip]

\* The sorts of lines, and what each makes of a row.
LEMMA LineAdded ==
  /\ EmptyRow = Row(Unknown, Unknown, Unknown, Unknown, Unknown)
  /\ \A sid, state, t, i, ip, a, known_ :
       Added(Row(sid, state, t, i, ip), Address(a), known_) =
         Row(sid, state, t, i, IF a = Unknown THEN ip ELSE a)
  /\ \A sid, state, t, i, ip, a, known_ :
       Added(Row(sid, state, t, i, ip), Names(<<a>>), known_) =
         IF a \in known_
         THEN Row(sid, state, IF t = Unknown THEN a ELSE t, i, ip)
         ELSE Row(sid, state, t, IF i = Unknown THEN a ELSE i, ip)
  /\ \A sid, state, ip, known_ :
       Added(EmptyRow, Line(sid, state, ip, <<>>), known_) = Row(sid, state, Unknown, Unknown, ip)
  /\ \A sid, state, ip, a, b, known_ :
       a # b => Added(EmptyRow, Line(sid, state, ip, <<a, b>>), known_) =
                  IF b \in known_ /\ a \notin known_ THEN Row(sid, state, b, a, ip)
                  ELSE Row(sid, state, a, b, ip)
<1>1. EmptyRow = Row(Unknown, Unknown, Unknown, Unknown, Unknown)
  BY DEF EmptyRow, Row
<1>2. \A sid, state, t, i, ip, a, known_ :
        Added(Row(sid, state, t, i, ip), Address(a), known_) =
          Row(sid, state, t, i, IF a = Unknown THEN ip ELSE a)
  BY <1>1 DEF Added, Or, Address, Line, Row
<1>3. \A sid, state, ip, known_ :
        Added(EmptyRow, Line(sid, state, ip, <<>>), known_) = Row(sid, state, Unknown, Unknown, ip)
  BY <1>1 DEF Added, Or, Line, Row
<1>4. ASSUME NEW sid, NEW state, NEW t, NEW i, NEW ip, NEW a, NEW known_
      PROVE  Added(Row(sid, state, t, i, ip), Names(<<a>>), known_) =
               IF a \in known_
               THEN Row(sid, state, IF t = Unknown THEN a ELSE t, i, ip)
               ELSE Row(sid, state, t, IF i = Unknown THEN a ELSE i, ip)
  <2>1. PICK roles : roles = Classify(<<a>>, known_)
    OBVIOUS
  <2>2. roles = IF a \in known_ THEN [target |-> a, initiator |-> Unknown]
                ELSE [target |-> Unknown, initiator |-> a]
    BY <2>1, OneName
  <2>3. Added(Row(sid, state, t, i, ip), Names(<<a>>), known_) =
          Row(sid, state, Or(t, roles.target), Or(i, roles.initiator), ip)
    BY <2>1 DEF Added, Names, Line, Row, Or
  <2> QED
    BY <2>2, <2>3 DEF Or
<1>5. ASSUME NEW sid, NEW state, NEW ip, NEW a, NEW b, a # b, NEW known_
      PROVE  Added(EmptyRow, Line(sid, state, ip, <<a, b>>), known_) =
               IF b \in known_ /\ a \notin known_ THEN Row(sid, state, b, a, ip)
               ELSE Row(sid, state, a, b, ip)
  <2>1. PICK roles : roles = Classify(<<a, b>>, known_)
    OBVIOUS
  <2>2. roles = IF b \in known_ /\ a \notin known_ THEN [target |-> b, initiator |-> a]
                ELSE [target |-> a, initiator |-> b]
    BY <1>5, <2>1, TwoNames
  <2>3. Added(EmptyRow, Line(sid, state, ip, <<a, b>>), known_) =
          Row(sid, state, roles.target, roles.initiator, ip)
    BY <1>1, <2>1 DEF Added, Line, Row, Or
  <2> QED
    BY <2>2, <2>3
<1> QED
  BY <1>1, <1>2, <1>3, <1>4, <1>5

\* Which of them end a row.
LEMMA LineEnds ==
  /\ \A sid, state, ip, iqns : sid # Unknown => EndsRow(Line(sid, state, ip, iqns))
  /\ EndsRow(Blank)
  /\ \A a : ~EndsRow(Names(<<a>>))
  /\ \A ip : ip # Unknown => ~EndsRow(Address(ip))
BY DEF EndsRow, Line, Blank, Names, Address

\* A line with the number of a session.
LEMMA NumberRead ==
  ASSUME NEW x \in Universe, NEW acc \in States, NEW known_, NEW next,
         next = Read(acc, Line(x.sid, "logged_in", Unknown, <<>>), known_)
  PROVE  /\ next \in States /\ ToSet(next.all) = Found(acc)
         /\ next.row = Row(x.sid, "logged_in", Unknown, Unknown, Unknown)
<1>1. PICK l \in Lines : l = Line(x.sid, "logged_in", Unknown, <<>>) /\ EndsRow(l)
  BY ConstantsOK, LinesTyped, LineEnds
<1>2. Added(EmptyRow, l, known_) = Row(x.sid, "logged_in", Unknown, Unknown, Unknown)
  BY <1>1, LineAdded
<1> QED
  BY <1>1, <1>2, LineRead

\* A line with a name.
LEMMA NamesRead ==
  ASSUME NEW n \in Iqns, NEW acc \in States, NEW known_, NEW next,
         next = Read(acc, Names(<<n>>), known_)
  PROVE  next \in States /\ next.all = acc.all /\ next.row = Added(acc.row, Names(<<n>>), known_)
<1>1. PICK l \in Lines : l = Names(<<n>>) /\ ~EndsRow(l)
  <2>1. <<n>> \in IqnLists /\ Unknown \in Printable("sid") /\ Unknown \in Printable("ip")
    BY DEF IqnLists, Printable
  <2>2. Names(<<n>>) \in Lines
    BY <2>1 DEF Names, Line, Lines
  <2> QED
    BY <2>2, LineEnds
<1> QED
  BY <1>1, LineRead

\* A line with an address.
LEMMA AddressRead ==
  ASSUME NEW x \in Universe, NEW acc \in States, NEW known_, NEW next,
         next = Read(acc, Address(x.ip), known_)
  PROVE  next \in States /\ next.all = acc.all /\ next.row = Added(acc.row, Address(x.ip), known_)
<1>1. PICK l \in Lines : l = Address(x.ip) /\ ~EndsRow(l)
  BY ConstantsOK, LinesTyped, LineEnds
<1> QED
  BY <1>1, LineRead

\* A blank line.
LEMMA BlankRead ==
  ASSUME NEW x \in Universe, NEW acc \in States, NEW known_, NEW next,
         next = Read(acc, Blank, known_)
  PROVE  next \in States /\ ToSet(next.all) = Found(acc) /\ next.row = EmptyRow
<1>1. PICK l \in Lines : l = Blank /\ EndsRow(l)
  BY LinesTyped, LineEnds
<1>2. Added(EmptyRow, l, known_) = EmptyRow
  <2>1. l = Line(Unknown, Unknown, Unknown, <<>>)
    BY <1>1 DEF Blank, Names
  <2> QED
    BY <2>1, LineAdded
<1> QED
  BY <1>1, <1>2, LineRead

\* What is found once the lines of one session have been read: a row of it.
Gains(acc, next, x, known_) ==
  /\ next \in States
  /\ \E w \in Rows \ {EmptyRow} : RowOf(w, x, known_) /\ Found(next) = Found(acc) \union {w}

\* Formats of one line.
LEMMA OneLineRead ==
  ASSUME NEW x \in Universe, NEW known_, NEW acc \in States,
         NEW line \in {Line(x.sid, "logged_in", Unknown, <<>>),
                       Line(x.sid, Unknown, x.ip, <<x.target, x.initiator>>),
                       Line(x.sid, Unknown, x.ip, <<x.initiator, x.target>>)},
         line \in Lines
  PROVE  Gains(acc, Read(acc, line, known_), x, known_)
<1>1. PICK w : w = Added(EmptyRow, line, known_)
  OBVIOUS
<1>2. /\ x.sid # Unknown /\ x.target # x.initiator
      /\ x.target \in Targets /\ x.initiator \notin Targets
  BY ConstantsOK
<1>3. EndsRow(line)
  BY <1>2, LineEnds
<1>4. PICK next : next = Read(acc, line, known_)
  OBVIOUS
<1>5. next \in States /\ ToSet(next.all) = Found(acc) /\ next.row = w
  BY <1>1, <1>3, <1>4, LineRead
<1>6. RowOf(w, x, known_) /\ w.sid = x.sid
  <2>1. CASE line = Line(x.sid, "logged_in", Unknown, <<>>)
    <3>1. w = Row(x.sid, "logged_in", Unknown, Unknown, Unknown)
      BY <1>1, <2>1, LineAdded
    <3> QED
      BY <3>1 DEF RowOf, Row, SameNumber
  <2>2. CASE line # Line(x.sid, "logged_in", Unknown, <<>>)
    <3>1. \/ w = Row(x.sid, Unknown, x.target, x.initiator, x.ip)
          \/ w = Row(x.sid, Unknown, x.initiator, x.target, x.ip)
      BY <1>1, <1>2, <2>2, LineAdded
    <3>2. w = Row(x.sid, Unknown, x.initiator, x.target, x.ip)
            => ~(known_ \subseteq Targets /\ x.target \in known_)
      <4>1. CASE x.target \in known_ /\ x.initiator \notin known_
        <5>1. w = Row(x.sid, Unknown, x.target, x.initiator, x.ip)
          BY <1>1, <1>2, <2>2, <4>1, LineAdded
        <5> QED
          BY <1>2, <5>1 DEF Row
      <4> QED
        BY <1>2, <4>1
    <3> QED
      BY <3>1, <3>2 DEF RowOf, Row, SameNumber
  <2> QED
    BY <2>1, <2>2
<1>7. w \in Rows /\ w # EmptyRow
  BY <1>1, <1>2, <1>6, AddedTyped, EmptyTyped DEF EmptyRow
<1>8. Found(next) = Found(acc) \union {w}
  BY <1>5, <1>7 DEF Found
<1> QED
  BY <1>4, <1>5, <1>6, <1>7, <1>8 DEF Gains

\* The format of three lines.
LEMMA DetailRead ==
  ASSUME NEW x \in Universe, NEW known_, NEW acc \in States, NEW a, NEW b, NEW c,
         a = Read(acc, Line(x.sid, "logged_in", Unknown, <<>>), known_),
         b = Read(a, Names(<<x.initiator>>), known_),
         c = Read(b, Address(x.ip), known_)
  PROVE  Gains(acc, c, x, known_)
<1>1. /\ x.sid # Unknown /\ x.initiator # Unknown /\ x.ip # Unknown
      /\ x.target \in Targets /\ x.initiator \notin Targets
      /\ x.target \in Iqns /\ x.initiator \in Iqns
  BY ConstantsOK DEF Iqns
<1>2. /\ a \in States /\ ToSet(a.all) = Found(acc)
      /\ a.row = Row(x.sid, "logged_in", Unknown, Unknown, Unknown)
  BY NumberRead
<1>3. /\ b \in States /\ b.all = a.all /\ b.row = Added(a.row, Names(<<x.initiator>>), known_)
  BY <1>1, <1>2, NamesRead
<1>4. b.row = IF x.initiator \in known_
              THEN Row(x.sid, "logged_in", x.initiator, Unknown, Unknown)
              ELSE Row(x.sid, "logged_in", Unknown, x.initiator, Unknown)
  BY <1>2, <1>3, LineAdded
<1>5. /\ c \in States /\ c.all = b.all /\ c.row = Added(b.row, Address(x.ip), known_)
  BY <1>3, AddressRead
<1>6. c.row = IF x.initiator \in known_
              THEN Row(x.sid, "logged_in", x.initiator, Unknown, x.ip)
              ELSE Row(x.sid, "logged_in", Unknown, x.initiator, x.ip)
  <2>1. /\ Added(Row(x.sid, "logged_in", x.initiator, Unknown, Unknown), Address(x.ip), known_)
             = Row(x.sid, "logged_in", x.initiator, Unknown, x.ip)
        /\ Added(Row(x.sid, "logged_in", Unknown, x.initiator, Unknown), Address(x.ip), known_)
             = Row(x.sid, "logged_in", Unknown, x.initiator, x.ip)
    BY <1>1, LineAdded
  <2> QED
    BY <1>4, <1>5, <2>1
<1>7. RowOf(c.row, x, known_) /\ c.row.sid = x.sid
  BY <1>1, <1>6 DEF RowOf, Row, SameNumber
<1>8. c.row \in Rows /\ c.row # EmptyRow
  BY <1>1, <1>5, <1>7 DEF States, EmptyRow
<1>9. Found(c) = Found(acc) \union {c.row}
  BY <1>2, <1>3, <1>5, <1>8 DEF Found
<1> QED
  BY <1>5, <1>7, <1>8, <1>9 DEF Gains

\* The format of blocks: between them no row is begun.
LEMMA BlocksRead ==
  ASSUME NEW x \in Universe, NEW known_, NEW acc \in States, acc.row = EmptyRow,
         NEW a, NEW b, NEW c, NEW d,
         a = Read(acc, Names(<<x.target>>), known_),
         b = Read(a, Names(<<x.initiator>>), known_),
         c = Read(b, Address(x.ip), known_),
         d = Read(c, Blank, known_)
  PROVE  Gains(acc, d, x, known_) /\ d.row = EmptyRow
<1>1. /\ x.target # Unknown /\ x.initiator # Unknown /\ x.ip # Unknown
      /\ x.target \in Targets /\ x.initiator \notin Targets
      /\ x.target \in Iqns /\ x.initiator \in Iqns
  BY ConstantsOK DEF Iqns
<1>2. /\ a \in States /\ a.all = acc.all
      /\ a.row = IF x.target \in known_
                 THEN Row(Unknown, Unknown, x.target, Unknown, Unknown)
                 ELSE Row(Unknown, Unknown, Unknown, x.target, Unknown)
  <2>1. /\ a \in States /\ a.all = acc.all
        /\ a.row = Added(EmptyRow, Names(<<x.target>>), known_)
    BY <1>1, NamesRead
  <2> QED
    BY <2>1, LineAdded
<1>3. b \in States /\ b.all = acc.all /\ b.row = Added(a.row, Names(<<x.initiator>>), known_)
  BY <1>1, <1>2, NamesRead
<1>4. PICK t, i : /\ b.row = Row(Unknown, Unknown, t, i, Unknown)
                  /\ {t, i} \subseteq {x.target, x.initiator, Unknown}
                  /\ x.target \in known_ /\ x.initiator \notin known_ =>
                       t = x.target /\ i = x.initiator
  <2>1. CASE x.target \in known_
    <3>1. Added(Row(Unknown, Unknown, x.target, Unknown, Unknown), Names(<<x.initiator>>), known_)
            = IF x.initiator \in known_
              THEN Row(Unknown, Unknown, x.target, Unknown, Unknown)
              ELSE Row(Unknown, Unknown, x.target, x.initiator, Unknown)
      BY <1>1, LineAdded
    <3> QED
      BY <1>2, <1>3, <2>1, <3>1
  <2>2. CASE x.target \notin known_
    <3>1. Added(Row(Unknown, Unknown, Unknown, x.target, Unknown), Names(<<x.initiator>>), known_)
            = IF x.initiator \in known_
              THEN Row(Unknown, Unknown, x.initiator, x.target, Unknown)
              ELSE Row(Unknown, Unknown, Unknown, x.target, Unknown)
      BY <1>1, LineAdded
    <3> QED
      BY <1>2, <1>3, <2>2, <3>1
  <2> QED
    BY <2>1, <2>2
<1>5. c \in States /\ c.all = acc.all /\ c.row = Row(Unknown, Unknown, t, i, x.ip)
  <2>1. c \in States /\ c.all = acc.all /\ c.row = Added(b.row, Address(x.ip), known_)
    BY <1>3, AddressRead
  <2>2. Added(b.row, Address(x.ip), known_) = Row(Unknown, Unknown, t, i, x.ip)
    BY <1>1, <1>4, LineAdded
  <2> QED
    BY <2>1, <2>2
<1>6. d \in States /\ ToSet(d.all) = Found(c) /\ d.row = EmptyRow
  BY <1>5, BlankRead
<1>7. RowOf(c.row, x, known_) /\ c.row.ip = x.ip
  <2>1. known_ \subseteq Targets => x.initiator \notin known_
    BY <1>1
  <2> QED
    BY <1>4, <1>5, <2>1 DEF RowOf, Row, SameNumber
<1>8. c.row \in Rows /\ c.row # EmptyRow
  BY <1>1, <1>5, <1>7 DEF States, EmptyRow
<1>9. Found(d) = Found(acc) \union {c.row}
  BY <1>5, <1>6, <1>8 DEF Found
<1> QED
  BY <1>6, <1>7, <1>8, <1>9 DEF Gains

-----------------------------------------------------------------------------
\* The sessions in the order in which they are printed: each of them.
LEMMA SessionsInOrder ==
  ASSUME NEW S \in SUBSET Universe
  PROVE  \E n \in Nat : /\ n = Cardinality(S) /\ SetToSeq(S) \in [1..n -> S]
                        /\ \A x \in S : \E i \in 1..n : SetToSeq(S)[i] = x
<1>1. IsFiniteSet(S)
  BY ConstantsOK, FS_Subset
<1>2. PICK n \in Nat : n = Cardinality(S) /\ ExistsBijection(1..n, S)
  BY <1>1, FS_CardinalityType
<1>3. \E g \in [1..n -> S] : IsInjective(g)
  BY <1>2 DEF ExistsBijection, Bijection, Injection, IsInjective
<1>4. PICK g : g = SetToSeq(S)
  OBVIOUS
<1>5. g \in [1..n -> S] /\ IsInjective(g)
  BY <1>2, <1>3, <1>4 DEF SetToSeq
<1>6. g \in Injection(1..n, S)
  BY <1>5 DEF Injection, IsInjective
<1>7. Cardinality(1..n) = n /\ IsFiniteSet(1..n)
  BY FS_Interval
<1>8. g \in Surjection(1..n, S)
  BY <1>1, <1>2, <1>6, <1>7, FS_Injection
<1> QED
  BY <1>2, <1>4, <1>5, <1>8 DEF Surjection

\* What is printed, session by session.
Builds(o, q, n, f) ==
  /\ o[0] = <<>> /\ o[n] = Output(f)
  /\ \A m \in 0..n : o[m] \in Seq(Lines)
  /\ \A m \in 1..n : Printed(q[m], f) \in Seq(Lines) /\ o[m] = o[m - 1] \o Printed(q[m], f)

\* There are these beginnings of the output.
LEMMA OutputUnfolds ==
  ASSUME live \in SUBSET Universe, NEW f \in Formats
  PROVE  \E n \in Nat : \E q \in [1..n -> live] : \E o :
           /\ Builds(o, q, n, f)
           /\ \A x \in live : \E i \in 1..n : q[i] = x
<1>1. PICK q : q = SetToSeq(live)
  OBVIOUS
<1>2. PICK n \in Nat : q \in [1..n -> live] /\ \A x \in live : \E i \in 1..n : q[i] = x
  BY <1>1, SessionsInOrder
<1> DEFINE op(lines, x) == lines \o Printed(x, f)
           Eq(g) == g = [s \in SUBSET (1..n) |->
                          IF s = {} THEN <<>> ELSE op(g[s \ {Max(s)}], q[Max(s)])]
<1>3. PICK V : V = Seq(Lines)
  OBVIOUS
<1>4. PICK G : G = [iv \in (1..n) \X V |-> op(iv[2], q[iv[1]])]
  OBVIOUS
<1>5. G \in [(1..n) \X V -> V]
  <2>1. \A i \in 1..n : Printed(q[i], f) \in Seq(Lines)
    BY <1>2, PrintedTyped
  <2> QED
    BY <1>3, <1>4, <2>1
<1>6. PICK it : Folds(it, n, V, <<>>, G)
  <2>1. <<>> \in V
    BY <1>3
  <2> QED
    BY <1>5, <2>1, FoldDefined
<1>7. PICK iter : iter = CHOOSE g : Eq(g)
  OBVIOUS
<1>8. Output(f) = iter[1..n]
  <2>1. DOMAIN q = 1..n
    BY <1>2
  <2> QED
    BY <1>1, <2>1, <1>7 DEF Output, FoldLeft, MapThenFoldSet
<1>9. Eq(it)
  <2>1. ASSUME NEW s \in SUBSET (1..n), s # {}
        PROVE  it[s] = op(it[s \ {Max(s)}], q[Max(s)])
    <3>1. Max(s) \in 1..n
      BY <2>1, MaxIsIn
    <3>2. it[s] = G[<<Max(s), it[s \ {Max(s)}]>>]
      BY <1>6, <2>1 DEF Folds
    <3>3. it[s \ {Max(s)}] \in V
      BY <1>6 DEF Folds
    <3> QED
      BY <1>4, <3>1, <3>2, <3>3
  <2>2. it = [s \in SUBSET (1..n) |-> it[s]] /\ it[{}] = <<>>
    BY <1>6 DEF Folds
  <2> QED
    BY <2>1, <2>2
<1>10. Eq(iter)
  BY <1>7, <1>9
<1>11. PICK o : o = [m \in 0..n |-> iter[1..m]]
  OBVIOUS
<1>12. ASSUME NEW m \in 1..n
       PROVE  o[m] = op(o[m - 1], q[m])
  <2>1. /\ Max(1..m) = m /\ (1..m) \ {m} = 1..(m - 1) /\ 1..m # {}
        /\ 1..m \in SUBSET (1..n)
    BY LastOfInterval
  <2>2. iter[1..m] = op(iter[(1..m) \ {Max(1..m)}], q[Max(1..m)])
    BY <1>10, <2>1
  <2>3. o[m] = iter[1..m] /\ o[m - 1] = iter[1..(m - 1)]
    BY <1>11
  <2> QED
    BY <2>1, <2>2, <2>3
<1>13. o[0] = <<>> /\ o[n] = Output(f)
  <2>1. iter[{}] = <<>> /\ 1..0 = {}
    BY <1>10
  <2> QED
    BY <1>8, <1>11, <2>1
<1>14. \A m \in 0..n : o[m] \in Seq(Lines)
  <2>1. PICK P : P = {m \in 0..n : o[m] \in Seq(Lines)}
    OBVIOUS
  <2>2. 0 \in P
    <3>1. <<>> \in Seq(Lines) /\ 0 \in 0..n
      OBVIOUS
    <3> QED
      BY <1>13, <2>1, <3>1
  <2>3. ASSUME NEW m \in 1..n, m - 1 \in P
        PROVE  m \in P
    <3>1. Printed(q[m], f) \in Seq(Lines)
      BY <1>2, PrintedTyped
    <3>2. o[m - 1] \in Seq(Lines)
      BY <2>1, <2>3
    <3>3. o[m - 1] \o Printed(q[m], f) \in Seq(Lines)
      BY <3>1, <3>2
    <3>4. o[m] = o[m - 1] \o Printed(q[m], f)
      BY <1>12
    <3>5. o[m] \in Seq(Lines)
      BY <3>3, <3>4, Zenon
    <3>6. m \in 0..n
      OBVIOUS
    <3> QED
      BY <2>1, <3>5, <3>6, Zenon
  <2>4. \A m \in 0..n : m \in P
    BY <2>2, <2>3, UpTo
  <2> QED
    BY <2>1, <2>4
<1>15. Builds(o, q, n, f)
  <2>1. \A m \in 1..n : Printed(q[m], f) \in Seq(Lines)
    BY <1>2, PrintedTyped
  <2>2. \A m \in 1..n : o[m] = o[m - 1] \o Printed(q[m], f)
    BY <1>12
  <2> QED
    BY <1>13, <1>14, <2>1, <2>2 DEF Builds
<1> QED
  BY <1>2, <1>15

\* How Parse comes to its rows, line by line.
Parses(r, lines, known_) ==
  /\ r[0] = [all |-> <<>>, row |-> EmptyRow]
  /\ \A m \in 0..Len(lines) : r[m] \in States
  /\ \A m \in 1..Len(lines) : r[m] = Read(r[m - 1], lines[m], known_)
  /\ Parse(lines, known_) = AppendIfValid(r[Len(lines)].all, r[Len(lines)].row)

\* There are these states of Parse.
LEMMA ParseUnfolds ==
  ASSUME NEW lines \in Seq(Lines), NEW known_
  PROVE  \E r : Parses(r, lines, known_)
<1>1. PICK n \in Nat : n = Len(lines) /\ DOMAIN lines = 1..n /\ \A i \in 1..n : lines[i] \in Lines
  OBVIOUS
<1> DEFINE op(acc, line) ==
             IF EndsRow(line)
             THEN [all |-> AppendIfValid(acc.all, acc.row), row |-> Added(EmptyRow, line, known_)]
             ELSE [acc EXCEPT !.row = Added(acc.row, line, known_)]
           Eq(g) == g = [s \in SUBSET (1..n) |->
                          IF s = {} THEN [all |-> <<>>, row |-> EmptyRow]
                          ELSE op(g[s \ {Max(s)}], lines[Max(s)])]
<1>2. \A acc, line : op(acc, line) = Read(acc, line, known_)
  BY DEF Read
<1>3. PICK base : base = [all |-> <<>>, row |-> EmptyRow]
  OBVIOUS
<1>4. base \in States
  BY <1>3, EmptyTyped DEF States
<1>5. PICK G : G = [iv \in (1..n) \X States |-> Read(iv[2], lines[iv[1]], known_)]
  OBVIOUS
<1>6. G \in [(1..n) \X States -> States]
  <2>1. \A acc \in States, i \in 1..n : Read(acc, lines[i], known_) \in States
    BY <1>1, LineRead
  <2> QED
    BY <1>5, <2>1
<1>7. PICK it : Folds(it, n, States, base, G)
  BY <1>4, <1>6, FoldDefined
<1>8. PICK iter : iter = CHOOSE g : Eq(g)
  OBVIOUS
<1>9. Parse(lines, known_) = AppendIfValid(iter[1..n].all, iter[1..n].row)
  BY <1>1, <1>8 DEF Parse, FoldLeft, MapThenFoldSet
<1>10. Eq(it)
  <2>1. ASSUME NEW s \in SUBSET (1..n), s # {}
        PROVE  it[s] = op(it[s \ {Max(s)}], lines[Max(s)])
    <3>1. Max(s) \in 1..n
      BY <2>1, MaxIsIn
    <3>2. it[s] = G[<<Max(s), it[s \ {Max(s)}]>>]
      BY <1>7, <2>1 DEF Folds
    <3>3. it[s \ {Max(s)}] \in States
      BY <1>7 DEF Folds
    <3>4. it[s] = Read(it[s \ {Max(s)}], lines[Max(s)], known_)
      BY <1>5, <3>1, <3>2, <3>3
    <3> HIDE DEF op
    <3> QED
      BY <1>2, <3>4
  <2>2. it = [s \in SUBSET (1..n) |-> it[s]] /\ it[{}] = base
    BY <1>7 DEF Folds
  <2> HIDE DEF op
  <2> QED
    BY <1>3, <2>1, <2>2
<1>11. Eq(iter)
  <2> HIDE DEF Eq
  <2> QED
    BY <1>8, <1>10
<1> HIDE DEF op
<1>12. PICK r : r = [m \in 0..n |-> iter[1..m]]
  OBVIOUS
<1>13. ASSUME NEW m \in 1..n
       PROVE  r[m] = Read(r[m - 1], lines[m], known_)
  <2>1. /\ Max(1..m) = m /\ (1..m) \ {m} = 1..(m - 1) /\ 1..m # {}
        /\ 1..m \in SUBSET (1..n)
    BY LastOfInterval
  <2>2. iter[1..m] = op(iter[(1..m) \ {Max(1..m)}], lines[Max(1..m)])
    BY <1>11, <2>1
  <2>3. r[m] = iter[1..m] /\ r[m - 1] = iter[1..(m - 1)]
    BY <1>12
  <2> QED
    BY <1>2, <2>1, <2>2, <2>3
<1>14. r[0] = base /\ r[n] = iter[1..n]
  <2>1. iter[{}] = base /\ 1..0 = {}
    BY <1>3, <1>11
  <2> QED
    BY <1>12, <2>1
<1>15. \A m \in 0..n : r[m] \in States
  <2>1. PICK P : P = {m \in 0..n : r[m] \in States}
    OBVIOUS
  <2>2. 0 \in P
    BY <1>4, <1>14, <2>1
  <2>3. ASSUME NEW m \in 1..n, m - 1 \in P
        PROVE  m \in P
    BY <1>1, <1>13, <2>1, <2>3, LineRead
  <2>4. \A m \in 0..n : m \in P
    BY <2>2, <2>3, UpTo
  <2> QED
    BY <2>1, <2>4
<1> QED
  BY <1>1, <1>3, <1>9, <1>13, <1>14, <1>15 DEF Parses

\* What has been printed is a beginning of what will have been.
Begins(a, b) == Len(a) <= Len(b) /\ \A i \in 1..Len(a) : b[i] = a[i]

\* Less is a beginning too.
LEMMA Beginning ==
  ASSUME NEW b \in Seq(Lines), NEW s \in Seq(Lines), NEW e, e = b \o s,
         NEW a \in Seq(Lines), Begins(e, a)
  PROVE  Begins(b, a)
<1>1. /\ Len(b) \in Nat /\ Len(e) \in Nat /\ Len(b) <= Len(e) /\ Len(a) \in Nat
  OBVIOUS
<1>2. \A i \in 1..Len(b) : e[i] = b[i]
  OBVIOUS
<1> QED
  BY <1>1, <1>2 DEF Begins

\* After each session.
LEMMA Beginnings ==
  ASSUME NEW n \in Nat, NEW q, NEW f, NEW o, Builds(o, q, n, f), NEW m \in 0..n
  PROVE  Begins(o[m], o[n])
<1>1. \A k \in 0..n : o[k] \in Seq(Lines)
  BY DEF Builds
<1>2. PICK P : P = {d \in 0..n : Begins(o[n - d], o[n])}
  OBVIOUS
<1>3. 0 \in P
  <2>1. n - 0 = n /\ 0 \in 0..n /\ n \in 0..n
    OBVIOUS
  <2>2. Len(o[n]) \in Nat
    BY <1>1, <2>1
  <2>3. Begins(o[n], o[n])
    BY <2>2 DEF Begins
  <2> QED
    BY <1>2, <2>1, <2>3
<1>4. ASSUME NEW d \in 1..n, d - 1 \in P
      PROVE  d \in P
  <2>1. PICK k \in 1..n : k = n - (d - 1) /\ k - 1 = n - d
    OBVIOUS
  <2>2. Begins(o[k], o[n])
    BY <1>2, <1>4, <2>1
  <2>3. o[k] = o[k - 1] \o Printed(q[k], f) /\ Printed(q[k], f) \in Seq(Lines)
    BY <2>1 DEF Builds
  <2>4. o[k - 1] \in Seq(Lines) /\ o[n] \in Seq(Lines)
    <3>1. k - 1 \in 0..n /\ n \in 0..n
      BY <2>1
    <3> QED
      BY <1>1, <3>1
  <2>5. Begins(o[k - 1], o[n])
    BY <2>2, <2>3, <2>4, Beginning
  <2> QED
    BY <1>2, <2>1, <2>5
<1>5. \A d \in 0..n : d \in P
  BY <1>3, <1>4, UpTo
<1>6. n - m \in 0..n /\ n - (n - m) = m
  OBVIOUS
<1> QED
  BY <1>2, <1>5, <1>6

\* Where the lines of one session are.
At(lines, k, s) ==
  /\ k \in Nat /\ Len(s) \in Nat /\ k + Len(s) <= Len(lines)
  /\ \A i \in 1..Len(s) : lines[k + i] = s[i]

\* They are in the output.
LEMMA LinesOf ==
  ASSUME NEW n \in Nat, NEW q, NEW f, NEW o, Builds(o, q, n, f), NEW m \in 1..n
  PROVE  /\ Len(o[m]) = Len(o[m - 1]) + Len(Printed(q[m], f))
         /\ At(o[n], Len(o[m - 1]), Printed(q[m], f))
<1>1. PICK s \in Seq(Lines) : s = Printed(q[m], f)
  BY DEF Builds
<1>2. m - 1 \in 0..n /\ m \in 0..n
  OBVIOUS
<1>3. PICK b \in Seq(Lines) : b = o[m - 1]
  BY <1>2 DEF Builds
<1>4. PICK e : e = o[m]
  OBVIOUS
<1>5. e = b \o s
  BY <1>1, <1>3, <1>4 DEF Builds
<1>6. /\ Len(b) \in Nat /\ Len(s) \in Nat /\ Len(e) = Len(b) + Len(s)
  BY <1>5
<1>7. \A i \in 1..Len(s) : e[Len(b) + i] = s[i]
  BY <1>5
<1>8. Begins(e, o[n])
  BY <1>2, <1>4, Beginnings
<1>9. \A i \in 1..Len(s) : Len(b) + i \in 1..Len(e)
  BY <1>6
<1>10. At(o[n], Len(b), s)
  BY <1>6, <1>7, <1>8, <1>9 DEF At, Begins
<1> QED
  BY <1>1, <1>3, <1>4, <1>6, <1>10

\* The lines of one session are read.
LEMMA SessionRead ==
  ASSUME NEW x \in Universe, NEW f \in Formats, NEW known_, NEW lines \in Seq(Lines), NEW r,
         Parses(r, lines, known_), NEW k, NEW e, At(lines, k, Printed(x, f)),
         e = k + Len(Printed(x, f)),
         f = "blocks" => r[k].row = EmptyRow
  PROVE  Gains(r[k], r[e], x, known_) /\ (f = "blocks" => r[e].row = EmptyRow)
<1>1. PICK s \in Seq(Lines) : s = Printed(x, f)
  BY PrintedTyped
<1>2. At(lines, k, s)
  BY <1>1
<1>3. r[k] \in States
  <2>1. k \in 0..Len(lines)
    BY <1>2 DEF At
  <2> QED
    BY <2>1 DEF Parses
<1>4. ASSUME NEW i \in 1..Len(s)
      PROVE  r[k + i] = Read(r[(k + i) - 1], s[i], known_)
  <2>1. k + i \in 1..Len(lines)
    BY <1>2, <1>4 DEF At
  <2>2. lines[k + i] = s[i]
    BY <1>2, <1>4 DEF At
  <2> QED
    BY <2>1, <2>2 DEF Parses
<1>5. CASE f = "detail"
  <2>1. s = <<Line(x.sid, "logged_in", Unknown, <<>>), Names(<<x.initiator>>), Address(x.ip)>>
    BY <1>1, <1>5, Zenon DEF Printed
  <2>2. /\ Len(s) = 3 /\ s[1] = Line(x.sid, "logged_in", Unknown, <<>>)
        /\ s[2] = Names(<<x.initiator>>) /\ s[3] = Address(x.ip)
    BY <2>1
  <2>3. /\ r[k + 1] = Read(r[k], s[1], known_) /\ r[k + 2] = Read(r[k + 1], s[2], known_)
        /\ r[k + 3] = Read(r[k + 2], s[3], known_)
    <3>1. k \in Nat
      BY <1>2 DEF At
    <3>2. /\ (k + 1) - 1 = k /\ (k + 2) - 1 = k + 1 /\ (k + 3) - 1 = k + 2
          /\ {1, 2, 3} \subseteq 1..Len(s)
      BY <2>2, <3>1
    <3> QED
      BY <1>4, <3>2
  <2>4. Gains(r[k], r[k + 3], x, known_)
    <3>1. PICK acc \in States : acc = r[k]
      BY <1>3
    <3>2. PICK a, b, c : a = r[k + 1] /\ b = r[k + 2] /\ c = r[k + 3]
      OBVIOUS
    <3>3. /\ a = Read(acc, Line(x.sid, "logged_in", Unknown, <<>>), known_)
          /\ b = Read(a, Names(<<x.initiator>>), known_)
          /\ c = Read(b, Address(x.ip), known_)
      BY <2>2, <2>3, <3>1, <3>2, Zenon
    <3>4. Gains(acc, c, x, known_)
      BY <3>3, DetailRead
    <3> QED
      BY <3>1, <3>2, <3>4
  <2> QED
    BY <1>1, <1>5, <2>2, <2>4
<1>6. CASE f = "blocks"
  <2>1. s = <<Names(<<x.target>>), Names(<<x.initiator>>), Address(x.ip), Blank>>
    BY <1>1, <1>6, Zenon DEF Printed
  <2>2. /\ Len(s) = 4 /\ s[1] = Names(<<x.target>>) /\ s[2] = Names(<<x.initiator>>)
        /\ s[3] = Address(x.ip) /\ s[4] = Blank
    BY <2>1
  <2>3. /\ r[k + 1] = Read(r[k], s[1], known_) /\ r[k + 2] = Read(r[k + 1], s[2], known_)
        /\ r[k + 3] = Read(r[k + 2], s[3], known_) /\ r[k + 4] = Read(r[k + 3], s[4], known_)
    <3>1. k \in Nat
      BY <1>2 DEF At
    <3>2. /\ (k + 1) - 1 = k /\ (k + 2) - 1 = k + 1 /\ (k + 3) - 1 = k + 2
          /\ (k + 4) - 1 = k + 3 /\ {1, 2, 3, 4} \subseteq 1..Len(s)
      BY <2>2, <3>1
    <3> QED
      BY <1>4, <3>2
  <2>4. Gains(r[k], r[k + 4], x, known_) /\ r[k + 4].row = EmptyRow
    <3>1. PICK acc \in States : acc = r[k] /\ acc.row = EmptyRow
      BY <1>3, <1>6
    <3>2. PICK a, b, c, d : a = r[k + 1] /\ b = r[k + 2] /\ c = r[k + 3] /\ d = r[k + 4]
      OBVIOUS
    <3>3. /\ a = Read(acc, Names(<<x.target>>), known_)
          /\ b = Read(a, Names(<<x.initiator>>), known_)
          /\ c = Read(b, Address(x.ip), known_)
          /\ d = Read(c, Blank, known_)
      BY <2>2, <2>3, <3>1, <3>2, Zenon
    <3>4. Gains(acc, d, x, known_) /\ d.row = EmptyRow
      BY <3>1, <3>3, BlocksRead
    <3> QED
      BY <3>1, <3>2, <3>4
  <2> QED
    BY <1>1, <1>6, <2>2, <2>4
<1>7. CASE f \notin {"detail", "blocks"}
  <2>1. PICK line \in {Line(x.sid, "logged_in", Unknown, <<>>),
                       Line(x.sid, Unknown, x.ip, <<x.target, x.initiator>>),
                       Line(x.sid, Unknown, x.ip, <<x.initiator, x.target>>)} : s = <<line>>
    BY <1>1, <1>7 DEF Printed, Formats
  <2>2. Len(s) = 1 /\ s[1] = line /\ line \in Lines
    BY <2>1, LinesTyped
  <2>3. r[k + 1] = Read(r[k], line, known_)
    <3>1. k \in Nat
      BY <1>2 DEF At
    <3>2. (k + 1) - 1 = k /\ 1 \in 1..Len(s)
      BY <2>2, <3>1
    <3> QED
      BY <1>4, <2>2, <3>2
  <2>4. Gains(r[k], r[k + 1], x, known_)
    BY <1>3, <2>2, <2>3, OneLineRead
  <2> QED
    BY <1>1, <1>7, <2>2, <2>4
<1> QED
  BY <1>5, <1>6, <1>7

\* What a reading says of the sessions in S: a row of each, and of no other.
Covers(w, S, known_) ==
  /\ w \subseteq Rows \ {EmptyRow}
  /\ \A row \in w : \E x \in S : RowOf(row, x, known_)
  /\ \A x \in S : \E row \in w : RowOf(row, x, known_)
Reading(all, S, known_) == all \in Seq(Rows) /\ Covers(ToSet(all), S, known_)

\* What any command printed is read as it should be, whatever is known.
LEMMA OutputRead ==
  ASSUME live \in SUBSET Universe, NEW f \in Formats, NEW known_
  PROVE  Output(f) \in Seq(Lines) /\ Reading(Parse(Output(f), known_), live, known_)
<1>1. PICK n \in Nat : \E q \in [1..n -> live] : \E o :
        Builds(o, q, n, f) /\ \A x \in live : \E i \in 1..n : q[i] = x
  BY OutputUnfolds
<1>2. PICK q \in [1..n -> live] : \E o :
        Builds(o, q, n, f) /\ \A x \in live : \E i \in 1..n : q[i] = x
  BY <1>1
<1>3. PICK o : Builds(o, q, n, f) /\ \A x \in live : \E i \in 1..n : q[i] = x
  BY <1>2
<1>4. PICK lines \in Seq(Lines) : lines = Output(f) /\ lines = o[n]
  <2>1. n \in 0..n
    OBVIOUS
  <2> QED
    BY <1>3, <2>1 DEF Builds
<1>5. PICK r : Parses(r, lines, known_)
  BY ParseUnfolds
<1>6. \A i \in 1..n : q[i] \in live /\ q[i] \in Universe /\ Printed(q[i], f) \in Seq(Lines)
  BY PrintedTyped
<1> DEFINE Before(m) == {q[i] : i \in 1..m}
           Good(m) == /\ Covers(Found(r[Len(o[m])]), Before(m), known_)
                      /\ f = "blocks" => r[Len(o[m])].row = EmptyRow
<1>7. PICK P : P = {m \in 0..n : Good(m)}
  OBVIOUS
<1>8. 0 \in P
  <2>1. Len(o[0]) = 0 /\ 1..0 = {} /\ 0 \in 0..n
    BY <1>3 DEF Builds
  <2>2. r[0] = [all |-> <<>>, row |-> EmptyRow]
    BY <1>5 DEF Parses
  <2>3. ToSet(<<>>) = {}
    BY DEF ToSet
  <2>4. Found(r[0]) = {} /\ r[0].row = EmptyRow
    BY <2>2, <2>3 DEF Found
  <2>5. Covers({}, {}, known_)
    BY DEF Covers
  <2>6. Before(0) = {}
    BY <2>1
  <2>7. Good(0)
    BY <2>1, <2>4, <2>5, <2>6
  <2> HIDE DEF Good
  <2> QED
    BY <1>7, <2>1, <2>7
<1>9. ASSUME NEW m \in 1..n, m - 1 \in P
      PROVE  m \in P
  <2>1. Good(m - 1)
    BY <1>7, <1>9
  <2>2. /\ Len(o[m]) = Len(o[m - 1]) + Len(Printed(q[m], f))
        /\ At(o[n], Len(o[m - 1]), Printed(q[m], f))
    BY <1>3, LinesOf
  <2>3. PICK k, e : k = Len(o[m - 1]) /\ e = Len(o[m])
    OBVIOUS
  <2>4. Gains(r[k], r[e], q[m], known_) /\ (f = "blocks" => r[e].row = EmptyRow)
    <3>1. PICK x \in Universe : x = q[m]
      BY <1>6
    <3>2. e = k + Len(Printed(x, f)) /\ At(lines, k, Printed(x, f))
      BY <1>4, <2>3, <2>2, <3>1, Zenon
    <3>3. f = "blocks" => r[k].row = EmptyRow
      BY <2>1, <2>3
    <3>4. Gains(r[k], r[e], x, known_) /\ (f = "blocks" => r[e].row = EmptyRow)
      BY <1>5, <3>2, <3>3, SessionRead
    <3> QED
      BY <3>1, <3>4
  <2>5. PICK w \in Rows \ {EmptyRow} :
          RowOf(w, q[m], known_) /\ Found(r[e]) = Found(r[k]) \union {w}
    BY <2>4 DEF Gains
  <2>6. Before(m) = Before(m - 1) \union {q[m]}
    <3>1. \A i : i \in 1..m <=> i \in 1..(m - 1) \/ i = m
      OBVIOUS
    <3> QED
      BY <3>1
  <2>7. Covers(Found(r[k]), Before(m - 1), known_)
    BY <2>1, <2>3
  <2>8. Covers(Found(r[e]), Before(m), known_)
    <3>1. PICK B : B = Before(m - 1)
      OBVIOUS
    <3>2. PICK C : C = Before(m)
      OBVIOUS
    <3> HIDE DEF Before
    <3> QED
      BY <2>5, <2>6, <2>7, <3>1, <3>2 DEF Covers
  <2>9. Good(m)
    BY <2>3, <2>4, <2>8
  <2>10. m \in 0..n
    OBVIOUS
  <2> HIDE DEF Good
  <2> QED
    BY <1>7, <2>9, <2>10
<1>10. \A m \in 0..n : m \in P
  BY <1>8, <1>9, UpTo
<1>11. Good(n)
  <2>1. n \in 0..n
    OBVIOUS
  <2> HIDE DEF Good
  <2> QED
    BY <1>7, <1>10, <2>1
<1>12. PICK w : w = Found(r[Len(lines)])
  OBVIOUS
<1>13. Covers(w, live, known_)
  <2>1. Before(n) = live
    BY <1>3
  <2>2. Covers(w, Before(n), known_)
    BY <1>4, <1>11, <1>12
  <2> QED
    BY <2>1, <2>2
<1>14. /\ Parse(lines, known_) \in Seq(Rows)
       /\ ToSet(Parse(lines, known_)) = w
  <2>1. r[Len(lines)] \in States
    <3>1. Len(lines) \in 0..Len(lines)
      OBVIOUS
    <3> QED
      BY <1>5, <3>1 DEF Parses
  <2>2. Parse(lines, known_) = AppendIfValid(r[Len(lines)].all, r[Len(lines)].row)
    BY <1>5 DEF Parses
  <2>3. r[Len(lines)].all \in Seq(Rows) /\ r[Len(lines)].row \in Rows
    BY <2>1 DEF States
  <2> QED
    BY <1>12, <2>2, <2>3, Appended DEF Found
<1> QED
  BY <1>4, <1>13, <1>14 DEF Reading

-----------------------------------------------------------------------------
\* A row stays one when its roles are normalized.
LEMMA NormalTyped ==
  ASSUME NEW row \in Rows \ {EmptyRow}, NEW known_
  PROVE  Normal(row, known_) \in Rows \ {EmptyRow}
<1>1. \A w \in Rows \ {EmptyRow} : Swapped(w) \in Rows \ {EmptyRow}
  BY DEF Swapped, Rows, EmptyRow
<1> QED
  BY <1>1 DEF Normal

\* It stays of its session, too.
LEMMA NormalOf ==
  ASSUME NEW row \in Rows \ {EmptyRow}, NEW known_, NEW x \in Universe, RowOf(row, x, known_)
  PROVE  RowOf(Normal(row, known_), x, known_)
<1>1. \A w \in Rows : /\ Swapped(w).sid = w.sid /\ Swapped(w).ip = w.ip
                      /\ Swapped(w).target = w.initiator /\ Swapped(w).initiator = w.target
                      /\ Swapped(w) \in Rows
  BY DEF Swapped, Rows
<1>2. CASE known_ \subseteq Targets /\ x.target \in known_
  <2>1. row.target \in {x.target, Unknown} /\ row.initiator \in {x.initiator, Unknown}
    BY <1>2 DEF RowOf
  <2>2. x.initiator \notin known_ /\ Unknown \notin known_
    BY <1>2, ConstantsOK
  <2>3. row.target \in known_ \union {Unknown} /\ row.initiator \notin known_
    BY <1>2, <2>1, <2>2
  <2>4. Normal(row, known_) = row
    BY <2>3 DEF Normal
  <2> QED
    BY <2>4
<1>3. CASE ~(known_ \subseteq Targets /\ x.target \in known_)
  <2>1. PICK one \in Rows :
          one = IF row.target \notin known_ \union {Unknown} /\ row.initiator = Unknown
                THEN Swapped(row) ELSE row
    BY <1>1
  <2>2. Normal(row, known_) \in {one, Swapped(one)}
    BY <2>1 DEF Normal
  <2>3. /\ SameNumber(one, x)
        /\ {one.target, one.initiator} \subseteq {x.target, x.initiator, Unknown}
    BY <1>1, <2>1 DEF RowOf, SameNumber
  <2>4. /\ SameNumber(Swapped(one), x)
        /\ {Swapped(one).target, Swapped(one).initiator} \subseteq {x.target, x.initiator, Unknown}
    BY <1>1, <2>3 DEF SameNumber
  <2> QED
    BY <1>3, <2>2, <2>3, <2>4 DEF RowOf
<1> QED
  BY <1>2, <1>3

\* What is answered of the rows that were read: those that are kept.
LEMMA ListedUnfolds ==
  ASSUME NEW all \in Seq(Rows), NEW known_, NEW f, ToSet(all) \subseteq Rows \ {EmptyRow}
  PROVE  /\ Listed(all, known_, f) \in Seq(Rows)
         /\ ToSet(Listed(all, known_, f)) =
              {row \in {Normal(w, known_) : w \in ToSet(all)} : Kept(row, f)}
<1>1. PICK n \in Nat : n = Len(all) /\ DOMAIN all = 1..n
  OBVIOUS
<1>2. PICK q : q = [i \in DOMAIN all |-> Normal(all[i], known_)]
  OBVIOUS
<1>3. /\ DOMAIN q = 1..n /\ \A i \in 1..n : q[i] = Normal(all[i], known_) /\ q[i] \in Rows
      /\ \A v : v \in ToSet(all) <=> \E i \in 1..n : all[i] = v
  <2>1. \A v : v \in ToSet(all) <=> \E i \in 1..n : all[i] = v
    BY <1>1 DEF ToSet
  <2>2. \A i \in 1..n : Normal(all[i], known_) \in Rows
    BY <2>1, NormalTyped
  <2> QED
    BY <1>1, <1>2, <2>1, <2>2
<1> DEFINE op(some, row) == IF Kept(row, f) THEN Append(some, row) ELSE some
           Eq(g) == g = [s \in SUBSET (1..n) |->
                          IF s = {} THEN <<>> ELSE op(g[s \ {Max(s)}], q[Max(s)])]
<1>4. PICK V : V = Seq(Rows)
  OBVIOUS
<1>5. PICK G : G = [iv \in (1..n) \X V |-> op(iv[2], q[iv[1]])]
  OBVIOUS
<1>6. G \in [(1..n) \X V -> V]
  BY <1>3, <1>4, <1>5, OneMore
<1>7. PICK it : Folds(it, n, V, <<>>, G)
  <2>1. <<>> \in V
    BY <1>4
  <2> QED
    BY <1>6, <2>1, FoldDefined
<1>8. PICK iter : iter = CHOOSE g : Eq(g)
  OBVIOUS
<1>9. Listed(all, known_, f) = iter[1..n]
  BY <1>1, <1>2, <1>3, <1>8 DEF Listed, FoldLeft, MapThenFoldSet
<1>10. Eq(it)
  <2>1. ASSUME NEW s \in SUBSET (1..n), s # {}
        PROVE  it[s] = op(it[s \ {Max(s)}], q[Max(s)])
    <3>1. Max(s) \in 1..n
      BY <2>1, MaxIsIn
    <3>2. it[s] = G[<<Max(s), it[s \ {Max(s)}]>>]
      BY <1>7, <2>1 DEF Folds
    <3>3. it[s \ {Max(s)}] \in V
      BY <1>7 DEF Folds
    <3> HIDE DEF op
    <3> QED
      BY <1>5, <3>1, <3>2, <3>3
  <2>2. it = [s \in SUBSET (1..n) |-> it[s]] /\ it[{}] = <<>>
    BY <1>7 DEF Folds
  <2> HIDE DEF op
  <2> QED
    BY <2>1, <2>2
<1>11. Eq(iter)
  <2> HIDE DEF Eq
  <2> QED
    BY <1>8, <1>10
<1> HIDE DEF op
<1> DEFINE Shown(m) == {row \in {Normal(all[i], known_) : i \in 1..m} : Kept(row, f)}
           Good(m)  == iter[1..m] \in Seq(Rows) /\ ToSet(iter[1..m]) = Shown(m)
<1>12. PICK P : P = {m \in 0..n : Good(m)}
  OBVIOUS
<1>13. 0 \in P
  <2>1. iter[{}] = <<>> /\ 1..0 = {} /\ 0 \in 0..n
    BY <1>11
  <2>2. Shown(0) = {}
    BY <2>1
  <2>3. <<>> \in Seq(Rows) /\ ToSet(<<>>) = {}
    BY DEF ToSet
  <2>4. Good(0)
    BY <2>1, <2>2, <2>3
  <2> HIDE DEF Good
  <2> QED
    BY <1>12, <2>1, <2>4
<1>14. ASSUME NEW m \in 1..n, m - 1 \in P
       PROVE  m \in P
  <2>1. /\ Max(1..m) = m /\ (1..m) \ {m} = 1..(m - 1) /\ 1..m # {}
        /\ 1..m \in SUBSET (1..n)
    BY LastOfInterval
  <2>2. iter[1..m] = op(iter[(1..m) \ {Max(1..m)}], q[Max(1..m)])
    BY <1>11, <2>1
  <2>3. iter[1..m] = op(iter[1..(m - 1)], q[m])
    BY <2>1, <2>2
  <2>4. Good(m - 1)
    BY <1>12, <1>14
  <2>5. {Normal(all[i], known_) : i \in 1..m} =
          {Normal(all[i], known_) : i \in 1..(m - 1)} \union {q[m]}
    <3>1. \A i : i \in 1..m <=> i \in 1..(m - 1) \/ i = m
      OBVIOUS
    <3> QED
      BY <1>3, <3>1
  <2>6. Shown(m) = Shown(m - 1) \union {row \in {q[m]} : Kept(row, f)}
    BY <2>5
  <2>7. PICK b \in Seq(Rows) : b = iter[1..(m - 1)] /\ ToSet(b) = Shown(m - 1)
    BY <2>4
  <2>8. PICK v \in Rows : v = q[m]
    BY <1>3
  <2>9. iter[1..m] = IF Kept(v, f) THEN Append(b, v) ELSE b
    BY <2>3, <2>7, <2>8 DEF op
  <2>10. Append(b, v) \in Seq(Rows) /\ ToSet(Append(b, v)) = ToSet(b) \union {v}
    BY OneMore
  <2>11. Good(m)
    <3>1. PICK B : B = Shown(m - 1)
      OBVIOUS
    <3>2. PICK C : C = Shown(m)
      OBVIOUS
    <3>3. ToSet(b) = B /\ C = B \union {row \in {v} : Kept(row, f)}
      BY <2>6, <2>7, <2>8, <3>1, <3>2
    <3>4. iter[1..m] \in Seq(Rows) /\ ToSet(iter[1..m]) = C
      BY <2>9, <2>10, <3>3
    <3> QED
      BY <3>2, <3>4
  <2>12. m \in 0..n
    OBVIOUS
  <2> HIDE DEF Good
  <2> QED
    BY <1>12, <2>11, <2>12
<1>15. \A m \in 0..n : m \in P
  BY <1>13, <1>14, UpTo
<1>16. Good(n)
  <2>1. n \in 0..n
    OBVIOUS
  <2> HIDE DEF Good
  <2> QED
    BY <1>12, <1>15, <2>1
<1>17. Shown(n) = {row \in {Normal(w, known_) : w \in ToSet(all)} : Kept(row, f)}
  <2>1. {Normal(all[i], known_) : i \in 1..n} = {Normal(w, known_) : w \in ToSet(all)}
    BY <1>3
  <2> QED
    BY <2>1
<1> QED
  BY <1>9, <1>16, <1>17

\* What an answer says of the sessions in S.
Tells(w, S, known_, f) ==
  /\ w \subseteq Rows \ {EmptyRow}
  /\ \A row \in w : f # Unknown => row.target \in {f, Unknown}
  /\ \A row \in w : \E x \in S : RowOf(row, x, known_)
  /\ \A x \in S : known_ \subseteq Targets /\ x.target \in known_ /\ f \in {x.target, Unknown} =>
       \E row \in w : RowOf(row, x, known_)

\* The answer made of a reading.
LEMMA AnswerTells ==
  ASSUME NEW S \in SUBSET Universe, NEW known_, NEW all, NEW f, Reading(all, S, known_)
  PROVE  Tells(ToSet(Listed(all, known_, f)), S, known_, f)
<1>1. all \in Seq(Rows) /\ Covers(ToSet(all), S, known_)
  BY DEF Reading
<1>2. PICK w : w = ToSet(Listed(all, known_, f))
  OBVIOUS
<1>3. PICK u : u = ToSet(all)
  OBVIOUS
<1>4. Covers(u, S, known_)
  BY <1>1, <1>3
<1>5. w = {row \in {Normal(v, known_) : v \in u} : Kept(row, f)}
  BY <1>1, <1>2, <1>3, ListedUnfolds DEF Covers
<1>6. \A v \in u : /\ Normal(v, known_) \in Rows \ {EmptyRow}
                   /\ \A x \in S : RowOf(v, x, known_) => RowOf(Normal(v, known_), x, known_)
  BY <1>4, NormalTyped, NormalOf DEF Covers
<1>7. ASSUME NEW x \in S, known_ \subseteq Targets, x.target \in known_, f \in {x.target, Unknown}
      PROVE  \E row \in w : RowOf(row, x, known_)
  <2>1. PICK v \in u : RowOf(v, x, known_)
    BY <1>4 DEF Covers
  <2>2. PICK row : row = Normal(v, known_) /\ RowOf(row, x, known_)
    BY <1>6, <2>1
  <2>3. row.target \in {x.target, Unknown}
    BY <1>7, <2>2 DEF RowOf
  <2>4. Kept(row, f)
    BY <1>7, <2>3 DEF Kept
  <2> QED
    BY <1>5, <2>2, <2>4
<1>8. \A row \in w : row \in Rows \ {EmptyRow} /\ \E x \in S : RowOf(row, x, known_)
  BY <1>4, <1>5, <1>6 DEF Covers
<1>9. \A row \in w : f # Unknown => row.target \in {f, Unknown}
  BY <1>5 DEF Kept
<1> QED
  BY <1>2, <1>7, <1>8, <1>9 DEF Tells

-----------------------------------------------------------------------------
\* Sessions there may have been at one moment of the listing.
Seen(S) == S \in SUBSET Universe /\ always \subseteq S /\ S \subseteq ever

\* Lines that are of the sessions in S, whichever targets are known.
Shows(lines, S) ==
  \A known_ \in SUBSET (Targets \union Initiators) : Reading(Parse(lines, known_), S, known_)

\* What was printed, the best reading and the answer are each of the sessions of
\* one moment; the answer's is what the listing knew of then.
Sound ==
  /\ pc = "targets" =>
       \E S \in SUBSET Universe : Seen(S) /\ Shows(out, S)
  /\ pc \in {"sessions detail", "sessions list"} =>
       known = set /\ \E S \in SUBSET Universe : Seen(S) /\ Reading(rows, S, set)
  /\ pc \notin {"sessions detail", "sessions list"} => rows = <<>>
  /\ pc # "reply" => ans = NoAnswer
  /\ Answered =>
       \E S \in SUBSET Universe : Seen(S) /\ Tells(ToSet(ans.rows), S, known, filter)

IInv == TypeOK /\ Sound

\* What there was is kept track of.
LEMMA Watched ==
  ASSUME TypeOK, live' \subseteq Universe, Watch
  PROVE  /\ always' \subseteq ever' /\ ever' \subseteq Universe
         /\ pc # "idle" /\ pc' # "idle" => always' \subseteq always /\ ever \subseteq ever'
         /\ pc # "idle" /\ pc # "reply" /\ pc' # "idle" =>
              always' \subseteq live' /\ live' \subseteq ever'
BY DEF TypeOK, Watch

\* They stay so.
LEMMA StaysSeen ==
  ASSUME NEW S, Seen(S), always' \subseteq always, ever \subseteq ever'
  PROVE  Seen(S)'
BY DEF Seen

\* A reading has no row that is empty.
LEMMA EmptyHasNone == ToSet(<<>>) = {} /\ NoAnswer.rows = <<>> /\ NoAnswer.status = "none"
BY DEF ToSet, NoAnswer

\* Init establishes the invariant.
LEMMA InitSound == Init => IInv
<1> SUFFICES ASSUME Init PROVE IInv
  OBVIOUS
<1>1. TypeOK
  BY EmptyHasNone DEF Init, TypeOK
<1>2. Sound
  BY EmptyHasNone DEF Init, Sound, Answered
<1> QED
  BY <1>1, <1>2 DEF IInv

\* Sessions and targets come and go.
LEMMA HostStep ==
  ASSUME IInv, UNCHANGED <<listing, known>>, Watch, targets' \subseteq Targets,
         live' \subseteq {x \in Universe : x.target \in targets'}
  PROVE  IInv'
<1>1. /\ pc' = pc /\ filter' = filter /\ out' = out /\ set' = set /\ rows' = rows /\ ans' = ans
      /\ known' = known
  BY DEF listing
<1>2. live' \subseteq Universe
  OBVIOUS
<1>3. /\ always' \subseteq ever' /\ ever' \subseteq Universe
      /\ pc # "idle" => always' \subseteq always /\ ever \subseteq ever'
  BY <1>1, <1>2, Watched DEF IInv
<1>4. TypeOK'
  BY <1>1, <1>3 DEF IInv, TypeOK
<1>5. Sound'
  <2>1. \A S : pc # "idle" /\ Seen(S) => Seen(S)'
    BY <1>3, StaysSeen
  <2>2. pc' = "targets" =>
          \E S \in SUBSET Universe : Seen(S)' /\ Shows(out', S)
    BY <1>1, <2>1 DEF IInv, Sound
  <2>3. pc' \in {"sessions detail", "sessions list"} =>
          known' = set' /\ \E S \in SUBSET Universe : Seen(S)' /\ Reading(rows', S, set')
    BY <1>1, <2>1 DEF IInv, Sound
  <2>4. Answered' =>
          \E S \in SUBSET Universe : Seen(S)' /\ Tells(ToSet(ans'.rows), S, known', filter')
    BY <1>1, <2>1 DEF IInv, Sound, Answered
  <2> QED
    BY <1>1, <2>2, <2>3, <2>4 DEF IInv, Sound
<1> QED
  BY <1>4, <1>5 DEF IInv

\* A listing is asked for.
LEMMA RequestStep ==
  ASSUME IInv, NEW f \in Targets \union {Unknown}, Request(f)
  PROVE  IInv'
<1>1. /\ pc = "idle" /\ pc' = "sessions" /\ filter' = f /\ targets' = targets /\ live' = live
      /\ set' = set /\ rows' = rows /\ ans' = ans /\ known' = known /\ out' = out
  BY DEF Request, host
<1>2. always' \subseteq ever' /\ ever' \subseteq Universe
  BY <1>1, Watched DEF IInv, TypeOK, Request
<1>3. rows = <<>> /\ ans = NoAnswer
  BY <1>1 DEF IInv, Sound
<1>4. TypeOK'
  BY <1>1, <1>2, <1>3, EmptyHasNone DEF IInv, TypeOK, Commands
<1>5. Sound'
  BY <1>1, <1>3 DEF Sound, Answered
<1> QED
  BY <1>4, <1>5 DEF IInv

\* An answer is given of rows that say what they should.
LEMMA FinishStep ==
  ASSUME IInv, pc \in {"sessions", "sessions detail", "sessions list"},
         NEW status \in {"ok", "error"},
         NEW all, Finish(status, all),
         UNCHANGED <<host, filter, known>>, Watch,
         NEW S \in SUBSET Universe, Seen(S)', Tells(ToSet(all), S, known, filter)
  PROVE  IInv'
<1>1. /\ pc' = "reply" /\ ans' = [status |-> status, rows |-> all] /\ rows' = <<>> /\ set' = {}
      /\ targets' = targets /\ live' = live /\ filter' = filter /\ known' = known
  BY DEF Finish, host
<1>2. always' \subseteq ever' /\ ever' \subseteq Universe
  BY <1>1, Watched DEF IInv, TypeOK
<1>3. ans'.rows = all /\ ans'.status = status
  BY <1>1
<1>4. /\ \A row \in ToSet(all) : row \in Rows \ {EmptyRow}
      /\ \A row \in ToSet(all) : filter # Unknown => row.target \in {filter, Unknown}
  BY DEF Tells
<1>5. TypeOK'
  <2>1. \A row \in ToSet(rows') \union ToSet(ans'.rows) : row \in Rows \ {EmptyRow}
    BY <1>1, <1>3, <1>4, EmptyHasNone
  <2>2. \A row \in ToSet(ans'.rows) : filter' # Unknown => row.target \in {filter', Unknown}
    BY <1>1, <1>3, <1>4
  <2> QED
    BY <1>1, <1>2, <1>3, <2>1, <2>2 DEF IInv, TypeOK
<1>6. Sound'
  <2>1. \E T \in SUBSET Universe : Seen(T)' /\ Tells(ToSet(ans'.rows), T, known', filter')
    BY <1>1, <1>3
  <2> QED
    BY <1>1, <2>1 DEF Sound
<1> QED
  BY <1>5, <1>6 DEF IInv

\* No rows are right where there are no sessions.
LEMMA NothingTells ==
  ASSUME NEW known_, NEW f
  PROVE  Tells(ToSet(<<>>), {}, known_, f)
BY EmptyHasNone DEF Tells

\* The first command: an error, no sessions, or lines of those there are.
LEMMA ReadSessionsStep ==
  ASSUME IInv, ReadSessions
  PROVE  IInv'
<1>1. /\ pc = "sessions" /\ targets' = targets /\ live' = live /\ filter' = filter /\ known' = known
      /\ UNCHANGED <<host, filter, known>> /\ Watch /\ live \in SUBSET Universe
      /\ rows = <<>> /\ ans = NoAnswer
  BY DEF ReadSessions, host, IInv, TypeOK, Sound
<1>2. /\ always' \subseteq ever' /\ ever' \subseteq Universe
      /\ pc' # "idle" => always' \subseteq live /\ live \subseteq ever'
  BY <1>1, Watched DEF IInv
<1>3. CASE Finish("error", <<>>)
  <2>1. Tells(ToSet(<<>>), {}, known, filter)
    BY NothingTells
  <2>2. pc' = "reply" /\ ans' = [status |-> "error", rows |-> <<>>] /\ rows' = <<>> /\ set' = {}
    BY <1>3 DEF Finish
  <2>3. ans'.status = "error" /\ ans'.rows = <<>>
    BY <2>2
  <2>4. TypeOK'
    BY <1>1, <1>2, <2>2, <2>3, EmptyHasNone DEF IInv, TypeOK
  <2>5. Sound'
    BY <2>2, <2>3 DEF Sound, Answered
  <2> QED
    BY <2>4, <2>5 DEF IInv
<1>4. CASE live = {} /\ Finish("ok", <<>>)
  <2>1. Tells(ToSet(<<>>), {}, known, filter)
    BY NothingTells
  <2>2. pc' = "reply"
    BY <1>4 DEF Finish
  <2>3. Seen({})'
    BY <1>2, <1>4, <2>2 DEF Seen
  <2> QED
    BY <1>1, <1>4, <2>1, <2>3, FinishStep
<1>5. ASSUME NEW f \in Formats, out' = Output(f), pc' = "targets", UNCHANGED <<set, rows, ans>>
      PROVE  IInv'
  <2>1. set' = set /\ rows' = <<>> /\ ans' = NoAnswer
    BY <1>1, <1>5
  <2>2. Shows(out', live)
    BY <1>1, <1>5, OutputRead DEF Shows
  <2>3. TypeOK'
    BY <1>1, <1>2, <1>5, <2>1, EmptyHasNone DEF IInv, TypeOK
  <2>4. \E S \in SUBSET Universe : Seen(S)' /\ Shows(out', S)
    <3>1. PICK S \in SUBSET Universe : S = live'
      BY <1>1
    <3>2. Seen(S)'
      BY <1>1, <1>2, <1>5, <3>1 DEF Seen
    <3> QED
      BY <1>1, <2>2, <3>1, <3>2
  <2>5. Sound'
    BY <1>5, <2>1, <2>4 DEF Sound, Answered
  <2> QED
    BY <2>3, <2>5 DEF IInv
<1>6. \/ Finish("error", <<>>)
      \/ live = {} /\ Finish("ok", <<>>)
      \/ \E f \in Formats : out' = Output(f) /\ pc' = "targets" /\ UNCHANGED <<set, rows, ans>>
  BY DEF ReadSessions
<1> QED
  BY <1>3, <1>4, <1>5, <1>6

\* The lines are read with the targets of now.
LEMMA ReadTargetsStep ==
  ASSUME IInv, ReadTargets
  PROVE  IInv'
<1>1. /\ pc = "targets" /\ pc' = "sessions detail" /\ targets' = targets /\ live' = live
      /\ filter' = filter /\ ans' = ans /\ known' = set' /\ rows' = Parse(out, set')
      /\ set' \in {targets, targets \union Initiators, {}} /\ Watch
  BY DEF ReadTargets, host
<1>2. /\ always' \subseteq ever' /\ ever' \subseteq Universe
      /\ always' \subseteq always /\ ever \subseteq ever'
  BY <1>1, Watched DEF IInv, TypeOK
<1>3. PICK S \in SUBSET Universe : Seen(S) /\ Shows(out, S)
  BY <1>1 DEF IInv, Sound
<1>4. set' \in SUBSET (Targets \union Initiators)
  BY <1>1 DEF IInv, TypeOK
<1>5. Seen(S)' /\ Reading(rows', S, set')
  BY <1>1, <1>2, <1>3, <1>4, StaysSeen DEF Shows
<1>6. ans' = NoAnswer
  BY <1>1 DEF IInv, Sound
<1>7. \A row \in ToSet(rows') : row \in Rows \ {EmptyRow}
  BY <1>5 DEF Reading, Covers
<1>8. TypeOK'
  BY <1>1, <1>2, <1>4, <1>6, <1>7, EmptyHasNone DEF IInv, TypeOK, Commands
<1>9. \E T \in SUBSET Universe : Seen(T)' /\ Reading(rows', T, set')
  BY <1>5
<1>10. Sound'
  BY <1>1, <1>6, <1>9 DEF Sound, Answered
<1> QED
  BY <1>8, <1>10 DEF IInv

\* Another command: what is best may be of another moment, but of one.
LEMMA ReadMoreStep ==
  ASSUME IInv, NEW command \in {"sessions detail", "sessions list"},
         NEW next \in {"sessions list", "reply"}, ReadMore(command, next)
  PROVE  IInv'
<1>1. /\ pc = command /\ targets' = targets /\ live' = live /\ filter' = filter /\ known' = known
      /\ UNCHANGED <<host, filter, known>> /\ Watch
      /\ live \in SUBSET Universe /\ ans = NoAnswer /\ known = set
  BY DEF ReadMore, host, IInv, TypeOK, Sound
<1>2. /\ always' \subseteq ever' /\ ever' \subseteq Universe
      /\ pc' # "idle" => /\ always' \subseteq live /\ live \subseteq ever'
                         /\ always' \subseteq always /\ ever \subseteq ever'
  BY <1>1, Watched DEF IInv
\* Either reading is of the sessions of some moment, and one of them is taken.
<1>3. ASSUME NEW S \in SUBSET Universe, Seen(S)', NEW all, Reading(all, S, set), Answer(all)
      PROVE  IInv'
  <2>1. Tells(ToSet(Listed(all, set, filter)), S, known, filter)
    BY <1>1, <1>3, AnswerTells
  <2>2. Finish("ok", Listed(all, set, filter))
    BY <1>3 DEF Answer
  <2> QED
    BY <1>1, <1>3, <2>1, <2>2, FinishStep
<1>4. ASSUME NEW S \in SUBSET Universe, Seen(S)', Reading(rows', S, set), pc' = "sessions list",
             UNCHANGED <<set, ans>>
      PROVE  IInv'
  <2>1. \A row \in ToSet(rows') : row \in Rows \ {EmptyRow}
    BY <1>4 DEF Reading, Covers
  <2>2. set' = set /\ ans' = NoAnswer
    BY <1>1, <1>4
  <2>3. TypeOK'
    BY <1>1, <1>2, <1>4, <2>1, <2>2, EmptyHasNone DEF IInv, TypeOK, Commands
  <2>4. \E T \in SUBSET Universe : Seen(T)' /\ Reading(rows', T, set')
    BY <1>4, <2>2
  <2>5. Sound'
    BY <1>1, <1>4, <2>2, <2>4 DEF Sound, Answered
  <2> QED
    BY <2>3, <2>5 DEF IInv
<1>5. pc' # "idle"
  BY DEF ReadMore, Answer, Finish
<1>6. PICK S \in SUBSET Universe : Seen(S)' /\ Reading(rows, S, set)
  <2>1. PICK S \in SUBSET Universe : Seen(S) /\ Reading(rows, S, set)
    BY <1>1 DEF IInv, Sound
  <2>2. Seen(S)'
    BY <1>2, <1>5, <2>1, StaysSeen
  <2> QED
    BY <2>1, <2>2
<1>7. CASE IF next = "reply" THEN Answer(rows) ELSE pc' = next /\ UNCHANGED <<out, set, rows, ans>>
  <2>1. CASE next = "reply"
    BY <1>3, <1>6, <1>7, <2>1
  <2>2. CASE next = "sessions list"
    <3>1. pc' = "sessions list" /\ UNCHANGED <<set, ans>> /\ rows' = rows
      BY <1>7, <2>2
    <3>2. Reading(rows', S, set)
      BY <1>6, <3>1
    <3> QED
      BY <1>4, <1>6, <3>1, <3>2
  <2> QED
    BY <2>1, <2>2
<1>8. ASSUME NEW f \in Formats, NEW best, best = PickBetter(rows, Parse(Output(f), set)),
             IF next = "reply" \/ HasTargetInfo(best) THEN Answer(best)
             ELSE rows' = best /\ pc' = next /\ UNCHANGED <<out, set, ans>>
      PROVE  IInv'
  <2>1. PICK T \in SUBSET Universe : Seen(T)' /\ Reading(best, T, set)
    <3>1. best = rows \/ best = Parse(Output(f), set)
      BY <1>8 DEF PickBetter
    <3>2. Reading(Parse(Output(f), set), live, set)
      BY <1>1, OutputRead
    <3>3. PICK T \in SUBSET Universe : T = live
      BY <1>1
    <3>4. Seen(T)'
      BY <1>2, <1>5, <3>3 DEF Seen
    <3> QED
      BY <1>6, <3>1, <3>2, <3>3, <3>4
  <2>2. CASE next = "reply" \/ HasTargetInfo(best)
    <3>1. Answer(best)
      BY <1>8, <2>2, Zenon
    <3> QED
      BY <1>3, <2>1, <3>1
  <2>3. CASE ~(next = "reply" \/ HasTargetInfo(best))
    <3>1. rows' = best /\ pc' = next /\ UNCHANGED <<out, set, ans>>
      BY <1>8, <2>3, Zenon
    <3>2. pc' = "sessions list" /\ UNCHANGED <<set, ans>> /\ Reading(rows', T, set)
      BY <2>1, <2>3, <3>1
    <3> QED
      BY <1>4, <2>1, <3>2
  <2> QED
    BY <2>2, <2>3
<1>9. \/ IF next = "reply" THEN Answer(rows) ELSE pc' = next /\ UNCHANGED <<out, set, rows, ans>>
      \/ \E f \in Formats :
           LET best == PickBetter(rows, Parse(Output(f), set))
           IN  IF next = "reply" \/ HasTargetInfo(best) THEN Answer(best)
               ELSE rows' = best /\ pc' = next /\ UNCHANGED <<out, set, ans>>
  BY DEF ReadMore
<1> QED
  BY <1>7, <1>8, <1>9

\* The listing is over.
LEMMA ReplyStep ==
  ASSUME IInv, Reply
  PROVE  IInv'
<1>1. /\ pc = "reply" /\ pc' = "idle" /\ filter' = Unknown /\ ans' = NoAnswer /\ known' = {}
      /\ targets' = targets /\ live' = live /\ set' = set /\ rows' = rows /\ Watch
  BY DEF Reply, host
<1>2. rows' = <<>>
  BY <1>1 DEF IInv, Sound
<1>3. always' = {} /\ ever' = {}
  BY <1>1 DEF Watch
<1>4. TypeOK'
  BY <1>1, <1>2, <1>3, EmptyHasNone DEF IInv, TypeOK
<1>5. Sound'
  BY <1>1, <1>2 DEF Sound, Answered
<1> QED
  BY <1>4, <1>5 DEF IInv

\* Every step keeps the invariant.
LEMMA NextSound == IInv /\ [Next]_vars => IInv'
<1> SUFFICES ASSUME IInv, [Next]_vars PROVE IInv'
  OBVIOUS
<1>1. CASE \E f \in Targets \union {Unknown} : Request(f)
  BY <1>1, RequestStep
<1>2. CASE ReadSessions
  BY <1>2, ReadSessionsStep
<1>3. CASE ReadTargets
  BY <1>3, ReadTargetsStep
<1>4. CASE ReadDetail
  BY <1>4, ReadMoreStep DEF ReadDetail
<1>5. CASE ReadList
  BY <1>5, ReadMoreStep DEF ReadList
<1>6. CASE Reply
  BY <1>6, ReplyStep
<1>7. CASE \E x \in Universe : Login(x) \/ Logout(x)
  <2>1. /\ UNCHANGED <<listing, known>> /\ Watch /\ targets' \subseteq Targets
        /\ live' \subseteq {x \in Universe : x.target \in targets'}
    BY <1>7 DEF Login, Logout, IInv, TypeOK
  <2> QED
    BY <2>1, HostStep
<1>8. CASE \E t \in Targets : CreateTarget(t) \/ DeleteTarget(t)
  <2>1. /\ UNCHANGED <<listing, known>> /\ Watch /\ targets' \subseteq Targets
        /\ live' \subseteq {x \in Universe : x.target \in targets'}
    BY <1>8 DEF CreateTarget, DeleteTarget, IInv, TypeOK
  <2> QED
    BY <2>1, HostStep
<1>9. CASE UNCHANGED vars
  <2>1. /\ pc' = pc /\ filter' = filter /\ out' = out /\ set' = set /\ rows' = rows /\ ans' = ans
        /\ known' = known /\ targets' = targets /\ live' = live /\ always' = always /\ ever' = ever
    BY <1>9 DEF vars, host, listing, history
  <2>2. TypeOK'
    BY <2>1 DEF IInv, TypeOK
  <2>3. Sound'
    BY <2>1 DEF IInv, Sound, Answered, Seen
  <2> QED
    BY <2>2, <2>3 DEF IInv
<1> QED
  BY <1>1, <1>2, <1>3, <1>4, <1>5, <1>6, <1>7, <1>8, <1>9 DEF Next

\* The invariant holds in every state.
THEOREM AlwaysSound == Spec => []IInv
<1>1. Init => IInv
  BY InitSound
<1>2. IInv /\ [Next]_vars => IInv'
  BY NextSound
<1> QED
  BY <1>1, <1>2, PTL DEF Spec

\* TypeOK holds in every state of every behaviour: a row that SessionsService.List
\* gives has something in it, and is not of a target that was not asked for.
THEOREM TypeCorrect == Spec => []TypeOK
<1>1. IInv => TypeOK
  BY DEF IInv
<1> QED
  BY <1>1, AlwaysSound, PTL

\* What an answer tells is of sessions that were there.
LEMMA AnswerIsOf ==
  ASSUME IInv, Answered
  PROVE  \E S \in SUBSET ever : always \subseteq S /\ Tells(ToSet(ans.rows), S, known, filter)
BY DEF IInv, Sound, Seen

\* No row of an answer mixes what parseSessionsOutput read of two sessions, in any
\* format, nor is of a session that was not there while the list was made.
THEOREM RowsAreOfSessions == Spec => []RowsAreSessions
<1>1. IInv => RowsAreSessions
  <2> SUFFICES ASSUME IInv, Answered, NEW row \in ToSet(ans.rows)
               PROVE  \E x \in ever :
                        /\ SameNumber(row, x)
                        /\ {row.target, row.initiator} \subseteq {x.target, x.initiator, Unknown}
    BY DEF RowsAreSessions
  <2>1. PICK S \in SUBSET ever : Tells(ToSet(ans.rows), S, known, filter)
    BY AnswerIsOf
  <2>2. PICK x \in S : RowOf(row, x, known)
    BY <2>1 DEF Tells
  <2> QED
    BY <2>2 DEF RowOf
<1> QED
  BY <1>1, AlwaysSound, PTL

\* Where the listing knew the targets, classifySessionIQNs and
\* normalizeSessionRoles put each name where it belongs.
THEOREM RolesAreAlwaysRight == Spec => []RolesAreRight
<1>1. IInv => RolesAreRight
  <2> SUFFICES ASSUME IInv, Answered, Informed, NEW row \in ToSet(ans.rows)
               PROVE  \E x \in ever : /\ SameNumber(row, x)
                                      /\ row.target \in {x.target, Unknown}
                                      /\ row.initiator \in {x.initiator, Unknown}
    BY DEF RolesAreRight
  <2>1. PICK S \in SUBSET ever : Tells(ToSet(ans.rows), S, known, filter)
    BY AnswerIsOf
  <2>2. PICK x \in S : RowOf(row, x, known)
    BY <2>1 DEF Tells
  <2>3. known \subseteq Targets /\ x.target \in known
    BY <2>1, <2>2 DEF Informed
  <2> QED
    BY <2>2, <2>3 DEF RowOf
<1> QED
  BY <1>1, AlwaysSound, PTL

\* Where the listing knew the targets, no session that was there all the time is
\* lost: not in parsing, not by pickBetterSessions, not by the filter.
THEOREM NothingIsEverMissing == Spec => []NothingIsMissing
<1>1. IInv => NothingIsMissing
  <2> SUFFICES ASSUME IInv, Answered, Informed, NEW x \in always, filter \in {x.target, Unknown}
               PROVE  \E row \in ToSet(ans.rows) :
                        /\ SameNumber(row, x)
                        /\ row.target \in {x.target, Unknown}
                        /\ row.initiator \in {x.initiator, Unknown}
    BY DEF NothingIsMissing
  <2>1. PICK S \in SUBSET ever : always \subseteq S /\ Tells(ToSet(ans.rows), S, known, filter)
    BY AnswerIsOf
  <2>2. known \subseteq Targets /\ x.target \in known
    BY <2>1 DEF Informed
  <2>3. PICK row \in ToSet(ans.rows) : RowOf(row, x, known)
    BY <2>1, <2>2 DEF Tells
  <2> QED
    BY <2>2, <2>3 DEF RowOf
<1> QED
  BY <1>1, AlwaysSound, PTL
=============================================================================
