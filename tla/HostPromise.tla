---------------------------- MODULE HostPromise ----------------------------
(***************************************************************************)
(* What the agent promises of backstores, mappings, ACLs and portals,      *)
(* whichever way its services are built.                                   *)
(*                                                                         *)
(* A change takes effect at one instant between the request and its        *)
(* answer, wholly or not at all, and changes nothing but what it asks for  *)
(* and what hangs on that.  "ok" says truthfully whether something         *)
(* changed, and that what was asked for is so, with one exception that is  *)
(* an action of its own (TakenByAnother): a mapping is answered "ok" as    *)
(* well when its LUN has another backstore.  A failure has a cause: the    *)
(* request was cut off, or something that it needs is not there.  A        *)
(* listing, and the search for a backstore whose type is not given, may    *)
(* see the changes of others in any order, but no line of what never was,  *)
(* and the lines of all that was there throughout; a listing shows what is *)
(* read out of those lines.                                                *)
(***************************************************************************)
EXTENDS LioHost

CONSTANTS
  Clients,   \* the calls that may be in progress together
  Wishes,    \* what may be asked for
  Allowed,   \* the wishes that are granted; any other is refused unheard
  Outside    \* the items that somebody else may create or delete

VARIABLES
  host,      \* the items there are
  phase,     \* phase[c]: "idle", "open", "served" (it looks at the host) or "closed"
  wish,      \* wish[c]: what call c asks for
  cut,       \* cut[c]: it has been cut off
  always,    \* always[c]: what it asks about that was there all the time
  ever,      \* ever[c]: what it asks about that was there at some time
  reply      \* reply[c]: the answer of a closed call

vars == <<host, phase, wish, cut, always, ever, reply>>

-----------------------------------------------------------------------------
Init ==
  /\ host \in SUBSET Items
  /\ phase = [c \in Clients |-> "idle"]
  /\ wish = [c \in Clients |-> NoRequest]
  /\ cut = [c \in Clients |-> FALSE]
  /\ always = [c \in Clients |-> Items]
  /\ ever = [c \in Clients |-> {}]
  /\ reply = [c \in Clients |-> NoAnswer]

\* What a call asks about is watched while it is served.
Watch ==
  LET about(c) == {i \in host' : Concerns(wish'[c], i)}
  IN  /\ always' = [c \in Clients |->
            IF phase'[c] \in {"idle", "open"} THEN Items
            ELSE IF phase[c] = "closed" THEN always[c]
            ELSE always[c] \intersect about(c)]
      /\ ever' = [c \in Clients |->
            IF phase'[c] \in {"idle", "open"} THEN {}
            ELSE IF phase[c] = "closed" THEN ever[c]
            ELSE ever[c] \union about(c)]

Goto(c, p) == phase' = [phase EXCEPT ![c] = p]

\* The call is over, with what is to be answered.
Close(c, a) ==
  /\ Goto(c, "closed")
  /\ reply' = [reply EXCEPT ![c] = a]
  /\ cut' = [cut EXCEPT ![c] = FALSE]

Open(c, w) ==
  /\ w \in Allowed
  /\ Goto(c, "open") \/ Goto(c, "served")
  /\ wish' = [wish EXCEPT ![c] = w]
  /\ UNCHANGED <<host, cut, reply>>

Refuse(c, w) ==
  /\ w \notin Allowed
  /\ Close(c, Refused)
  /\ wish' = [wish EXCEPT ![c] = w]
  /\ UNCHANGED host

Begin(c) ==
  /\ phase[c] = "open"
  /\ Goto(c, "served")
  /\ UNCHANGED <<host, wish, cut, reply>>

CutOff(c) ==
  /\ phase[c] \in {"open", "served"}
  /\ cut' = [cut EXCEPT ![c] = TRUE]
  /\ UNCHANGED <<host, phase, wish, reply>>

\* The changes that a wish may mean.
Meant(w) ==
  IF ResolvesType(w)
  THEN {Request("delete", "store", <<t, w.slot[2]>>, <<>>) : t \in Types}
  ELSE {w}

\* It takes effect.
Work(c) ==
  /\ phase[c] = "served" /\ wish[c].op # "list"
  /\ \E r \in Meant(wish[c]) :
       Faults(r, host) = {} /\ host' \in Effects(r, host)
  /\ Close(c, Done(TRUE))
  /\ UNCHANGED wish

\* The item that a creation asks for.
Wanted(w) == Item(w.kind, w.slot, w.store)

\* What c asks for is so without it; where it had to search it did not overlook
\* what was there throughout.
AlreadySo(c) ==
  CASE wish[c].op = "create"  -> Wanted(wish[c]) \in host
    [] ResolvesType(wish[c])  -> always[c] = {} \/ always[c] # ever[c]
    [] OTHER                  -> ~HasTarget(wish[c], host) \/ At(wish[c], host) = {}

FindDone(c) ==
  /\ phase[c] = "served" /\ wish[c].op # "list"
  /\ AlreadySo(c)
  /\ Close(c, Done(FALSE))
  /\ UNCHANGED <<host, wish>>

\* The exception: the LUN that c asks for has another backstore, and c is told
\* that its mapping was there already.
TakenByAnother(c) ==
  /\ phase[c] = "served" /\ wish[c].op = "create" /\ wish[c].kind = "mapping"
  /\ At(wish[c], host) # {} /\ Wanted(wish[c]) \notin host
  /\ Close(c, Done(FALSE))
  /\ UNCHANGED <<host, wish>>

Show(c) ==
  /\ phase[c] = "served" /\ wish[c].op = "list"
  /\ \E S \in SUBSET Shown(ever[c]) : Shown(always[c]) \subseteq S /\ Close(c, Listed(S))
  /\ UNCHANGED <<host, wish>>

\* Something that c needs is not there.
Lacks(c) ==
  \/ ~HasTarget(wish[c], host)
  \/ wish[c].op = "create" /\ "other" \in Faults(wish[c], host)

Fail(c) ==
  /\ phase[c] = "served"
  /\ \/ /\ cut[c] \/ Lacks(c)
        /\ Close(c, Failed)
     \/ /\ wish[c].kind = "portal" /\ ~HasTarget(wish[c], host)
        /\ Close(c, Missing)
  /\ UNCHANGED <<host, wish>>

\* The one failure that leaves it open whether the change was made.
FailDone(c) ==
  /\ phase[c] = "served" /\ cut[c] /\ wish[c].op # "list"
  /\ \E r \in Meant(wish[c]) :
       Faults(r, host) = {} /\ host' \in Effects(r, host)
  /\ Close(c, Failed)
  /\ UNCHANGED wish

Return(c) ==
  /\ phase[c] = "closed"
  /\ Goto(c, "idle")
  /\ wish' = [wish EXCEPT ![c] = NoRequest]
  /\ reply' = [reply EXCEPT ![c] = NoAnswer]
  /\ UNCHANGED <<host, cut>>

Meddle ==
  /\ \E i \in Outside : host' \in Operated(i, host)
  /\ UNCHANGED <<phase, wish, cut, reply>>

\* The agent dies: nobody is answered, the host stays.
Crash ==
  /\ phase' = [c \in Clients |-> "idle"]
  /\ wish' = [c \in Clients |-> NoRequest]
  /\ cut' = [c \in Clients |-> FALSE]
  /\ reply' = [c \in Clients |-> NoAnswer]
  /\ UNCHANGED host

Call(c) ==
  \/ phase[c] = "idle" /\ \E w \in Wishes : Open(c, w) \/ Refuse(c, w)
  \/ Begin(c) \/ CutOff(c)
  \/ Work(c) \/ FindDone(c) \/ TakenByAnother(c) \/ Show(c)
  \/ Fail(c) \/ FailDone(c) \/ Return(c)

Next == (Crash \/ Meddle \/ \E c \in Clients : Call(c)) /\ Watch

Spec == Init /\ [][Next]_vars
=============================================================================
