------------------------------ MODULE Sessions ------------------------------
(***************************************************************************)
(* A listing of the sessions: what targetcli prints of them, differently   *)
(* from version to version, is read by up to three commands, and the       *)
(* reading with most in it is taken.  Which of two names is that of the    *)
(* target is told by a list of targets that is read in between.            *)
(*                                                                         *)
(* A listing takes no lock and changes nothing; sessions and targets come  *)
(* and go beside it.  One listing at a time stands for all.                *)
(***************************************************************************)
EXTENDS Naturals, FiniteSets, SequencesExt

CONSTANTS
  Targets,   \* the targets there may be
  Universe,  \* the sessions there may be
  Unknown    \* an empty field, or no filter

ASSUME ConstantsOK ==
  /\ IsFiniteSet(Universe) /\ Unknown \notin Targets
  /\ \A x \in Universe :
       /\ DOMAIN x = {"sid", "target", "initiator", "ip"}
       /\ x.target \in Targets /\ x.initiator \notin Targets
       /\ Unknown \notin {x.sid, x.initiator, x.ip}
       /\ \A y \in Universe : x.sid = y.sid => x = y

Initiators == {x.initiator : x \in Universe}
Formats    == {"short", "detail", "target first", "initiator first", "blocks"}
Commands   == {"sessions", "sessions detail", "sessions list"}

VARIABLES
  targets,  \* the targets there are
  live,     \* the sessions there are
  pc,       \* the next command of the listing
  filter,   \* the target it is asked for, if any
  out,      \* what "sessions" has printed
  set,      \* targetSet
  rows,     \* the best reading so far
  ans,      \* the answer
  always,   \* history: the sessions that were there all the time
  ever,     \* history: those that were there at some time
  known     \* history: the targets the listing knew of, until it is over

host    == <<targets, live>>
listing == <<pc, filter, out, set, rows, ans>>
history == <<always, ever, known>>
vars    == <<host, listing, history>>

-----------------------------------------------------------------------------
\* What is printed of one session, line by line.
Line(sid, state, ip, iqns) == [sid |-> sid, state |-> state, ip |-> ip, iqns |-> iqns]
Names(iqns) == Line(Unknown, Unknown, Unknown, iqns)
Address(ip) == Line(Unknown, Unknown, ip, <<>>)
Blank       == Names(<<>>)

Printed(x, f) ==
  CASE f = "short"           -> <<Line(x.sid, "logged_in", Unknown, <<>>)>>
    [] f = "detail"          -> <<Line(x.sid, "logged_in", Unknown, <<>>),
                                  Names(<<x.initiator>>), Address(x.ip)>>
    [] f = "target first"    -> <<Line(x.sid, Unknown, x.ip, <<x.target, x.initiator>>)>>
    [] f = "initiator first" -> <<Line(x.sid, Unknown, x.ip, <<x.initiator, x.target>>)>>
    [] f = "blocks"          -> <<Names(<<x.target>>), Names(<<x.initiator>>), Address(x.ip), Blank>>

\* Each of the three commands has a format of its own on every host.
Output(f) == FoldLeft(LAMBDA lines, x : lines \o Printed(x, f), <<>>, SetToSeq(live))

-----------------------------------------------------------------------------
EmptyRow == [sid |-> Unknown, state |-> Unknown, target |-> Unknown,
             initiator |-> Unknown, ip |-> Unknown]

\* Wrong: a row without anything in it is kept.
AppendAny(all, row) == Append(all, row)

AppendIfValid(all, row) == IF row = EmptyRow THEN all ELSE Append(all, row)

\* Wrong: the first name is taken for the target's.
ClassifyByPlace(iqns, known_) ==
  [target |-> iqns[1], initiator |-> IF Len(iqns) = 1 THEN Unknown ELSE iqns[2]]

\* classifySessionIQNs: a name that is that of a target is the target's; one
\* name alone that is not is the initiator's; of two, else, the first is the
\* target's.
Classify(iqns, known_) ==
  LET hits == {n \in DOMAIN iqns : iqns[n] \in known_}
      hit  == Min(hits)
      rest == {n \in DOMAIN iqns : iqns[n] # iqns[hit]}
  IN  IF hits # {}
      THEN [target |-> iqns[hit], initiator |-> IF rest = {} THEN Unknown ELSE iqns[Min(rest)]]
      ELSE IF Len(iqns) = 1
           THEN [target |-> Unknown, initiator |-> iqns[1]]
           ELSE [target |-> iqns[1], initiator |-> iqns[2]]

Or(a, b) == IF a = Unknown THEN b ELSE a

\* A line adds to the row; a field that is printed again is replaced, but for
\* the names.
Added(row, line, known_) ==
  LET roles == IF line.iqns = <<>> THEN EmptyRow ELSE Classify(line.iqns, known_)
  IN  [sid       |-> Or(line.sid, row.sid),
       state     |-> Or(line.state, row.state),
       ip        |-> Or(line.ip, row.ip),
       target    |-> Or(row.target, roles.target),
       initiator |-> Or(row.initiator, roles.initiator)]

\* Wrong: a row ends with a blank line only.
EndsAtBlank(line) == line = Blank

\* A blank line, or one with another session's number, ends the row.
EndsRow(line) == line = Blank \/ line.sid # Unknown

\* parseSessionsOutput
Parse(lines, known_) ==
  LET read(acc, line) ==
        IF EndsRow(line)
        THEN [all |-> AppendIfValid(acc.all, acc.row), row |-> Added(EmptyRow, line, known_)]
        ELSE [acc EXCEPT !.row = Added(@, line, known_)]
      end == FoldLeft(read, [all |-> <<>>, row |-> EmptyRow], lines)
  IN  AppendIfValid(end.all, end.row)

Points(row) ==
  Cardinality({f \in {"sid", "state"} : row[f] # Unknown})
  + 2 * Cardinality({f \in {"target", "initiator", "ip"} : row[f] # Unknown})

Score(all) == FoldLeft(LAMBDA n, row : n + Points(row), 0, all)

\* pickBetterSessions
PickBetter(base, candidate) ==
  IF base = <<>> \/ Score(candidate) > Score(base) THEN candidate ELSE base

HasTargetInfo(all) ==
  \E n \in DOMAIN all : \E f \in {"target", "initiator", "ip"} : all[n][f] # Unknown

Swapped(row) == [row EXCEPT !.target = row.initiator, !.initiator = row.target]

\* normalizeSessionRoles
Normal(row, known_) ==
  LET one == IF row.target \notin known_ \union {Unknown} /\ row.initiator = Unknown
             THEN Swapped(row) ELSE row
  IN  IF one.target = Unknown /\ one.initiator \in known_ THEN Swapped(one) ELSE one

\* Wrong: a row without a target is not one of the target asked for.
KeptIfTarget(row, f) == f = Unknown \/ row.target = f

\* SessionsService.List: a row whose target is not known is kept.
Kept(row, f) == f = Unknown \/ row.target \in {f, Unknown}

\* What a listing for f answers, when it has read all.
Listed(all, known_, f) ==
  FoldLeft(LAMBDA some, row : IF Kept(row, f) THEN Append(some, row) ELSE some,
           <<>>, [n \in DOMAIN all |-> Normal(all[n], known_)])

-----------------------------------------------------------------------------
NoAnswer == [status |-> "none", rows |-> <<>>]

Init ==
  /\ targets \in SUBSET Targets
  /\ live \in SUBSET {x \in Universe : x.target \in targets}
  /\ pc = "idle"
  /\ filter = Unknown /\ out = <<>> /\ set = {} /\ rows = <<>> /\ ans = NoAnswer
  /\ always = {} /\ ever = {} /\ known = {}

\* What was there while a listing is served, until it has its answer.
Watch ==
  /\ always' = IF pc' = "idle" THEN {}
               ELSE IF pc = "idle" THEN live'
               ELSE IF pc = "reply" THEN always
               ELSE always \intersect live'
  /\ ever' = IF pc' = "idle" THEN {}
             ELSE IF pc = "reply" THEN ever
             ELSE ever \union live'

Request(f) ==
  /\ pc = "idle"
  /\ pc' = "sessions"
  /\ filter' = f
  /\ UNCHANGED <<host, out, set, rows, ans, known>>
  /\ Watch

Finish(status, all) ==
  /\ pc' = "reply"
  /\ ans' = [status |-> status, rows |-> all]
  /\ out' = <<>> /\ set' = {} /\ rows' = <<>>

Answer(all) == Finish("ok", Listed(all, set, filter))

\* The command that decides whether there is an answer at all.
ReadSessions ==
  /\ pc = "sessions"
  /\ \/ Finish("error", <<>>)
     \/ live = {} /\ Finish("ok", <<>>)
     \/ /\ live # {}
        /\ \E f \in Formats : out' = Output(f)
        /\ pc' = "targets"
        /\ UNCHANGED <<set, rows, ans>>
  /\ UNCHANGED <<host, filter, known>>
  /\ Watch

\* listTargetsSet: a list that fails is empty; without its markers it names the
\* initiators of ACLs too.
ReadTargets ==
  /\ pc = "targets"
  /\ set' \in {targets, targets \union Initiators, {}}
  /\ known' = set'
  /\ rows' = Parse(out, set')
  /\ out' = <<>>
  /\ pc' = "sessions detail"
  /\ UNCHANGED <<host, filter, ans>>
  /\ Watch

\* Another reading is passed over when it fails or shows no sessions; with names
\* in what is best by now nothing more is read.
ReadMore(command, next) ==
  /\ pc = command
  /\ \/ IF next = "reply" THEN Answer(rows)
        ELSE pc' = next /\ UNCHANGED <<out, set, rows, ans>>
     \/ /\ live # {}
        /\ \E f \in Formats :
             LET best == PickBetter(rows, Parse(Output(f), set))
             IN  IF next = "reply" \/ HasTargetInfo(best) THEN Answer(best)
                 ELSE rows' = best /\ pc' = next /\ UNCHANGED <<out, set, ans>>
  /\ UNCHANGED <<host, filter, known>>
  /\ Watch

ReadDetail == ReadMore("sessions detail", "sessions list")
ReadList   == ReadMore("sessions list", "reply")

Reply ==
  /\ pc = "reply"
  /\ pc' = "idle"
  /\ filter' = Unknown /\ ans' = NoAnswer /\ known' = {}
  /\ UNCHANGED <<host, out, set, rows>>
  /\ Watch

Login(x) ==
  /\ x \notin live /\ x.target \in targets
  /\ live' = live \union {x}
  /\ UNCHANGED <<targets, listing, known>>
  /\ Watch

Logout(x) ==
  /\ x \in live
  /\ live' = live \ {x}
  /\ UNCHANGED <<targets, listing, known>>
  /\ Watch

CreateTarget(t) ==
  /\ t \notin targets
  /\ targets' = targets \union {t}
  /\ UNCHANGED <<live, listing, known>>
  /\ Watch

DeleteTarget(t) ==
  /\ t \in targets
  /\ targets' = targets \ {t}
  /\ live' = {x \in live : x.target # t}
  /\ UNCHANGED <<listing, known>>
  /\ Watch

Next ==
  \/ \E f \in Targets \union {Unknown} : Request(f)
  \/ ReadSessions \/ ReadTargets \/ ReadDetail \/ ReadList \/ Reply
  \/ \E x \in Universe : Login(x) \/ Logout(x)
  \/ \E t \in Targets : CreateTarget(t) \/ DeleteTarget(t)

Spec == Init /\ [][Next]_vars

-----------------------------------------------------------------------------
Printable(f) == {x[f] : x \in Universe} \union {Unknown}
Rows ==
  [sid : Printable("sid"), state : {"logged_in", Unknown}, ip : Printable("ip"),
   target    : Printable("target") \union Printable("initiator"),
   initiator : Printable("target") \union Printable("initiator")]

\* Every variable has its type; a row has something in it, and of a listing that
\* was asked for one target no row is of another.
TypeOK ==
  /\ targets \subseteq Targets
  /\ live \subseteq {x \in Universe : x.target \in targets}
  /\ pc \in {"idle", "targets", "reply"} \union Commands
  /\ filter \in Targets \union {Unknown}
  /\ set \subseteq Targets \union Initiators /\ known \subseteq Targets \union Initiators
  /\ ans.status \in {"none", "ok", "error"}
  /\ \A row \in ToSet(rows) \union ToSet(ans.rows) :
       row \in Rows \ {EmptyRow}
  /\ \A row \in ToSet(ans.rows) : filter # Unknown => row.target \in {filter, Unknown}
  /\ always \subseteq ever /\ ever \subseteq Universe

Answered == pc = "reply" /\ ans.status = "ok"

\* The listing knew each target that had a session meanwhile, and took no
\* initiator for one.
Informed == {x.target : x \in ever} \subseteq known /\ known \subseteq Targets

SameNumber(row, x) == row.sid \in {x.sid, Unknown} /\ row.ip \in {x.ip, Unknown}

\* Each row is of one session that was there while the list was made, in every
\* format: the lines of two are not mixed, nor what is read before and after
\* another came in its place. Only which of its names is the target's may be wrong.
RowsAreSessions ==
  Answered => \A row \in ToSet(ans.rows) : \E x \in ever :
    SameNumber(row, x) /\ {row.target, row.initiator} \subseteq {x.target, x.initiator, Unknown}

\* Where the listing knew the targets, each name is where it belongs, whichever
\* way round they are printed and however little is.
RolesAreRight ==
  Answered /\ Informed => \A row \in ToSet(ans.rows) : \E x \in ever :
    /\ SameNumber(row, x)
    /\ row.target \in {x.target, Unknown}
    /\ row.initiator \in {x.initiator, Unknown}

\* "Best-effort filtering: keep rows with unknown target instead of
\* hard-dropping": where the listing knew the targets, a session that was there
\* all the time is in it if it is of the target that was asked for.
NothingIsMissing ==
  Answered /\ Informed => \A x \in always :
    filter \in {x.target, Unknown} => \E row \in ToSet(ans.rows) :
      /\ SameNumber(row, x)
      /\ row.target \in {x.target, Unknown}
      /\ row.initiator \in {x.initiator, Unknown}
=============================================================================
