\* Two requests about three names: one that an operator changes too, and that of
\* an initiator, which is taken for a target as targetcli prints no [TPGs: n]
\* markers; no symmetry, for liveness.
CONSTANTS
  c1 = c1 c2 = c2 c3 = c3
  iqn1 = iqn1 iqn2 = iqn2 initiator = initiator badName = badName
  NoIQN = NoIQN NoClient = NoClient
  Clients <- MCTwoClients
  IQN <- MCNames
  ValidIQN = {iqn1, iqn2, initiator}
  Initiators = {initiator}
  TPGsShown = FALSE
  Available = TRUE
  AdminIQN = {iqn2}
SPECIFICATION Spec
INVARIANTS TypeOK MutexHeldToChange SeenIsCurrent FailureHasCause
PROPERTIES KeepsPromise EveryCallAnswered
