--------------------------- MODULE IdempotentSet ---------------------------
(***************************************************************************)
(* What the agent promises of a collection it manages: a set of named      *)
(* items that many clients create, delete and list at once, where every    *)
(* call takes effect at one instant between its start and its answer.      *)
(*                                                                         *)
(* A call that is answered "ok" says truthfully whether it changed the     *)
(* set; asking for what is already so is "ok" without a change.  A call    *)
(* may be answered "error" only when it is excused: its context was done,  *)
(* targetcli failed, or somebody outside the agent touched its item.  An   *)
(* erroneous call may or may not have taken effect.                        *)
(*                                                                         *)
(* Some names may be taken for items although they are not: a listing may  *)
(* have them as well, a creation of one may be answered "ok" with nothing  *)
(* created (TakenForMember), and a deletion of one may fail.  Of all other *)
(* names the promise holds nevertheless.                                   *)
(***************************************************************************)
CONSTANTS
  Clients,   \* the calls that may be in progress together
  Items,     \* the names the collection may hold
  NoItem,    \* what a call names that names nothing
  Allowed,   \* the wishes that are granted; any other is refused unheard
  Tampered,  \* the items that somebody outside the agent may add or remove
  Mistaken   \* the names that may be taken for items although they are not

VARIABLES
  members,   \* the items there are
  phase,     \* phase[c]: "idle", "open" (not yet effective) or "closed"
  wish,      \* wish[c]: what call c asks for
  excused,   \* excused[c]: call c may end in an error
  reply      \* reply[c]: the answer of a closed call

vars == <<members, phase, wish, excused, reply>>

-----------------------------------------------------------------------------
Wishes == [op : {"create", "delete"}, item : Items]
            \union [op : {"list"}, item : {NoItem}]
NoWish == [op |-> "none", item |-> NoItem]

Answer(status, changed, items) ==
  [status |-> status, changed |-> changed, items |-> items]

Done(changed) == Answer("ok", changed, {})
Listed(S)     == Answer("ok", FALSE, S)
Failed        == Answer("error", FALSE, {})
Refused       == Answer("refused", FALSE, {})
NoReply       == Answer("none", FALSE, {})

\* What a granted wish makes of the set S.
Granted(w, S) ==
  CASE w.op = "create" -> S \union {w.item}
    [] w.op = "delete" -> S \ {w.item}
    [] OTHER           -> S

\* The truthful answers to a wish that finds the set S.
Truths(w, S) ==
  IF w.op = "list" THEN {Listed(S \union T) : T \in SUBSET Mistaken}
                   ELSE {Done(Granted(w, S) # S)}

Init ==
  /\ members \in SUBSET Items
  /\ phase = [c \in Clients |-> "idle"]
  /\ wish = [c \in Clients |-> NoWish]
  /\ excused = [c \in Clients |-> FALSE]
  /\ reply = [c \in Clients |-> NoReply]

-----------------------------------------------------------------------------
Open(c, w) ==
  /\ phase[c] = "idle"
  /\ w \in Allowed
  /\ phase' = [phase EXCEPT ![c] = "open"]
  /\ wish' = [wish EXCEPT ![c] = w]
  /\ UNCHANGED <<members, excused, reply>>

Refuse(c, w) ==
  /\ phase[c] = "idle"
  /\ w \notin Allowed
  /\ phase' = [phase EXCEPT ![c] = "closed"]
  /\ wish' = [wish EXCEPT ![c] = w]
  /\ reply' = [reply EXCEPT ![c] = Refused]
  /\ UNCHANGED <<members, excused>>

Excuse(c) ==
  /\ phase[c] = "open"
  /\ excused' = [excused EXCEPT ![c] = TRUE]
  /\ UNCHANGED <<members, phase, wish, reply>>

\* The instant at which call c takes effect.
Decide(c) ==
  /\ phase[c] = "open"
  /\ phase' = [phase EXCEPT ![c] = "closed"]
  /\ members' = Granted(wish[c], members)
  /\ \E a \in Truths(wish[c], members) : reply' = [reply EXCEPT ![c] = a]
  /\ UNCHANGED <<wish, excused>>

\* The exception: what c is to create is taken for an item.
TakenForMember(c) ==
  /\ phase[c] = "open"
  /\ wish[c].op = "create" /\ wish[c].item \in Mistaken
  /\ phase' = [phase EXCEPT ![c] = "closed"]
  /\ reply' = [reply EXCEPT ![c] = Done(FALSE)]
  /\ UNCHANGED <<members, wish, excused>>

Break(c) ==
  /\ phase[c] = "open"
  /\ excused[c] \/ (wish[c].op = "delete" /\ wish[c].item \in Mistaken \ members)
  /\ phase' = [phase EXCEPT ![c] = "closed"]
  /\ members' \in {members, Granted(wish[c], members)}
  /\ reply' = [reply EXCEPT ![c] = Failed]
  /\ UNCHANGED <<wish, excused>>

Return(c) ==
  /\ phase[c] = "closed"
  /\ phase' = [phase EXCEPT ![c] = "idle"]
  /\ wish' = [wish EXCEPT ![c] = NoWish]
  /\ excused' = [excused EXCEPT ![c] = FALSE]
  /\ reply' = [reply EXCEPT ![c] = NoReply]
  /\ UNCHANGED members

\* Somebody outside the agent adds or removes item i, which excuses the
\* calls in S: some of those that were about to change i.
Tamper(i, S) ==
  /\ i \in Tampered
  /\ \A c \in S : phase[c] = "open" /\ wish[c].item = i
  /\ members' \in {members \union {i}, members \ {i}}
  /\ excused' = [c \in Clients |-> excused[c] \/ c \in S]
  /\ UNCHANGED <<phase, wish, reply>>

\* The agent dies: nobody is answered, the set stays.
Crash ==
  /\ phase' = [c \in Clients |-> "idle"]
  /\ wish' = [c \in Clients |-> NoWish]
  /\ excused' = [c \in Clients |-> FALSE]
  /\ reply' = [c \in Clients |-> NoReply]
  /\ UNCHANGED members

Next ==
  \/ \E c \in Clients :
       \/ \E w \in Wishes : Open(c, w) \/ Refuse(c, w)
       \/ Excuse(c) \/ Decide(c) \/ TakenForMember(c) \/ Break(c) \/ Return(c)
  \/ \E i \in Items, S \in SUBSET Clients : Tamper(i, S)
  \/ Crash

Spec == Init /\ [][Next]_vars
=============================================================================
