-------------------------- MODULE MCHostResources --------------------------
\* Small instances of HostResources for TLC.
EXTENDS HostResources, TLC

CONSTANTS c1, c2,           \* requests
          iqn1,             \* a target
          disk, bad,        \* names: one that is accepted, and one that is not
          lun0, lun1,       \* LUNs
          peer,             \* an initiator
          addr,             \* an IPv6 address with its port, [fe80::1]:3260
          torn              \* what the driver's pattern finds in that, fe80: and 1

Store(type, name)  == Item("store", <<type, name>>, <<>>)
MCTarget           == Item("target", <<iqn1>>, <<>>)
MCTwoClients       == {c1, c2}
MCValid            == {iqn1, disk, lun0, lun1, peer, addr}

\* Backstores of both types under one name, and what hangs on a target.
MCStores == {Store(t, disk) : t \in Types}
MCMappings ==
  {Item("mapping", <<iqn1, l>>, <<t, disk>>) : l \in {lun0, lun1}, t \in Types}
Bare(lun) == Item("mapping", <<iqn1, lun>>, <<>>)
MCItems ==
  {MCTarget} \union MCStores \union MCMappings \union {Bare(l) : l \in {lun0, lun1}}
    \union {Item("acl", <<iqn1, peer>>, <<>>)}
    \union {Item("portal", <<iqn1, a>>, <<>>) : a \in {addr, torn}}
MCAdminItems == {MCTarget} \union MCStores

\* The line of the portal shows another, which nobody can create, and that of a
\* mapping of a file shows no backstore, as one without "/backstores/" does.
MCReadAs ==
  [i \in MCItems |->
     CASE i.kind = "portal"                         -> {Item("portal", <<iqn1, torn>>, <<>>)}
       [] i \in MCMappings /\ i.store[1] = "fileio" -> {Bare(i.slot[2])}
       [] OTHER                                     -> {i}]

\* Each message has one phrase, and the phrase that it contains: of the words of
\* a service for what exists or is gone, and of others for what is missing.
Message(w) == {w} \union (IF w \in {"already exists", "exists:"} THEN {"exists"} ELSE {})
MCSays ==
  [k \in Kinds |-> [f \in Reasons |->
     CASE f = "taken"   -> {Message(w) : w \in WordsOf[k].exists}
       [] f = "absent"  -> {Message(w) : w \in WordsOf[k].gone}
       [] f = "no path" -> {{w} : w \in TargetWords \union {"does not exist"}}
       [] f = "other"   -> {{}, {"does not exist"}, {"not found"}}
       [] OTHER         -> {{}}]]

MCStoreRequests ==
  {Request(op, "store", <<"fileio", disk>>, <<>>) : op \in {"create", "delete"}}
  \union {Request("delete", "store", <<Untyped, disk>>, <<>>),
          Request("list", "store", <<>>, <<>>),
          Request("create", "store", <<"block", bad>>, <<>>)}
MCTargetRequests ==
  {Request("create", "mapping", <<iqn1, lun0>>, <<t, disk>>) : t \in Types}
  \union {Request("create", "mapping", <<iqn1, AnyLun>>, <<"fileio", disk>>),
          Request("delete", "mapping", <<iqn1, lun0>>, <<>>),
          Request("list", "mapping", <<iqn1>>, <<>>)}
  \union {Request(op, "acl", <<iqn1, peer>>, <<>>) : op \in {"create", "delete"}}
  \union {Request(op, "portal", <<iqn1, addr>>, <<>>) : op \in {"create", "delete"}}
  \union {Request("list", "portal", <<iqn1>>, <<>>)}

MCRequests == MCStoreRequests \union MCTargetRequests

Symmetric == Permutations(Clients)
=============================================================================
