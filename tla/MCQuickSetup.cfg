\* Two pages, one with an initiator and one with an address that is refused, a
\* fault and a deletion; no symmetry, for liveness.
CONSTANTS
  s1 = s1 s2 = s2
  iqn1 = iqn1 disk1 = disk1 disk2 = disk2 addr = addr badAddr = badAddr peer = peer
  NoName = NoName
  Setups <- MCSetups
  Form <- MCForm
  Refused <- MCRefused
  MaxFaults = 1
  MaxRemovals = 1
SPECIFICATION Spec
INVARIANTS TypeOK PassedIsThere
PROPERTIES FailureHasCause FailedSetupCompletes
