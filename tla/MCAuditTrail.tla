---------------------------- MODULE MCAuditTrail ----------------------------
\* A small instance of AuditTrail for TLC.
EXTENDS AuditTrail

CONSTANTS c1, c2,  \* requests
          iqn1     \* a target

MCTwoClients == {c1, c2}
MCAsked ==
  {[action |-> "create", target |-> iqn1], [action |-> "delete", target |-> NoTarget]}

Symmetric == Permutations(Clients)
=============================================================================
