---------------------------- MODULE MCQuickSetup ----------------------------
\* Small instances of QuickSetup for TLC.
EXTENDS QuickSetup, TLC

CONSTANTS s1, s2, iqn1, disk1, disk2, addr, badAddr, peer

\* Two pages set up one target with a backstore each, one of them with an address
\* that is refused.
MCSetups == {s1, s2}
MCForm ==
  (s1 :> [target |-> iqn1, store |-> disk1, portal |-> addr, initiator |-> peer])
  @@ (s2 :> [target |-> iqn1, store |-> disk2, portal |-> badAddr, initiator |-> NoName])
MCRefused == {Item("portal", iqn1, badAddr)}
=============================================================================
