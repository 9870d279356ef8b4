------------------------------ MODULE LioHost ------------------------------
(***************************************************************************)
(* What is configured in the kernel, what may be asked of the agent about  *)
(* it, and what targetcli makes of that.                                   *)
(*                                                                         *)
(* What a kind of item is told apart by is its slot: type and name of a    *)
(* backstore, target and LUN of a mapping, target and initiator of an ACL, *)
(* target and address of a portal.  A mapping also has its backstore.      *)
(* What a listing shows of an item is what the driver's pattern finds in   *)
(* its line of targetcli's output, which need not be the item.             *)
(***************************************************************************)
EXTENDS FiniteSets

CONSTANTS
  Items,    \* everything that may be configured, or seem to be
  ReadAs,   \* ReadAs[i]: the items that the driver reads out of the line of i
  AnyLun,   \* the LUN of a mapping that leaves it to targetcli
  Luns,     \* the LUNs targetcli may choose
  Untyped   \* the type of a deletion of a backstore that gives none

Kinds == {"store", "mapping", "acl", "portal"}
Types == {"fileio", "block"}

Item(kind, slot, store) == [kind |-> kind, slot |-> slot, store |-> store]
Request(op, kind, slot, store) ==
  [op |-> op, kind |-> kind, slot |-> slot, store |-> store]
NoRequest == Request("none", "none", <<>>, <<>>)

Answers == [status : {"none", "ok", "missing", "error", "refused"},
            changed : BOOLEAN, items : SUBSET Items]
Answer(status, changed, items) ==
  [status |-> status, changed |-> changed, items |-> items]

Done(changed) == Answer("ok", changed, {})
Listed(S)     == Answer("ok", FALSE, S)
Missing       == Answer("missing", FALSE, {})
Failed        == Answer("error", FALSE, {})
Refused       == Answer("refused", FALSE, {})
NoAnswer      == Answer("none", FALSE, {})

ResolvesType(r) == r.op = "delete" /\ r.kind = "store" /\ r.slot[1] = Untyped

\* Whether a listing, or a deletion that looks for its type, is about i.
Concerns(r, i) ==
  /\ i.kind = r.kind
  /\ \/ r.op = "list" /\ (r.kind = "store" \/ i.slot[1] = r.slot[1])
     \/ ResolvesType(r) /\ i.slot[2] = r.slot[2]

\* What a listing shows of the items S.
Shown(S) == UNION {ReadAs[i] : i \in S}

-----------------------------------------------------------------------------
HasTarget(r, h) == r.kind = "store" \/ Item("target", <<r.slot[1]>>, <<>>) \in h
HasStore(r, h) == r.kind # "mapping" \/ Item("store", r.store, <<>>) \in h
At(r, h) == {i \in h : i.kind = r.kind /\ i.slot = r.slot}

\* Whether what i needs is there, and i alone is in its slot.
Founded(i, h) == HasTarget(i, h) /\ HasStore(i, h) /\ At(i, h) \subseteq {i}

\* The items a creation may come to: targetcli chooses a LUN that is free.
Placed(r, h) ==
  {i \in Items :
     /\ i.kind = r.kind /\ i.store = r.store
     /\ IF r.slot[2] = AnyLun
        THEN /\ i.slot \in {<<r.slot[1], l>> : l \in Luns}
             /\ ~\E j \in h : j.kind = i.kind /\ j.slot = i.slot
        ELSE i.slot = r.slot}

\* What hangs on a target or a backstore goes with it.
HangsOn(i, s) ==
  \/ s.kind = "target" /\ i.kind \in Kinds \ {"store"} /\ i.slot[1] = s.slot[1]
  \/ s.kind = "store" /\ i.kind = "mapping" /\ i.store = s.slot
Without(S, h) == {i \in h \ S : \A s \in S : ~HangsOn(i, s)}

\* The reasons for which targetcli would reject r.
Faults(r, h) ==
  {f \in {"no path", "taken", "absent", "other"} :
     \/ f = "no path" /\ ~HasTarget(r, h)
     \/ f = "taken" /\ r.op = "create" /\ At(r, h) # {}
     \/ f = "absent" /\ r.op = "delete" /\ HasTarget(r, h) /\ At(r, h) = {}
     \/ f = "other" /\ r.op = "create" /\ (~HasStore(r, h) \/ Placed(r, h) = {})}

\* What it makes of the host otherwise.
Effects(r, h) ==
  IF r.op = "create" THEN {h \union {i} : i \in Placed(r, h)}
                     ELSE {Without(At(r, h), h)}

\* What an operator with targetcli makes of it, who creates or deletes i.
Operated(i, h) ==
  IF i \in h THEN {Without({i}, h)}
  ELSE IF i.kind = "target" \/ Founded(i, h) THEN {h \union {i}} ELSE {}
=============================================================================
