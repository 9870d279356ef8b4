-------------------------- MODULE MCTargetsService --------------------------
\* Small instances of TargetsService for TLC.
EXTENDS TargetsService, TLC

CONSTANTS c1, c2, c3,        \* requests
          iqn1, iqn2,        \* well-formed names
          initiator,         \* a well-formed name, of an initiator
          badName            \* a name the service refuses

MCClients == {c1, c2, c3}
MCTwoClients == {c1, c2}
MCNames == {iqn1, iqn2, initiator, badName}

Symmetric == Permutations(Clients)
=============================================================================
