\* Two handlers at a time that do all there is to do, beside others who change
\* what targets there are.
CONSTANTS
  h1 = h1 h2 = h2
  Targets = {iqn1, iqn2}
  NoTarget = NoTarget NoItem = NoItem
  Handlers <- MCHandlers
  Panels = {"mapping"}
  Items = {item}
  Clicks = {"choose", "set current", "refresh", "refresh all", "create", "create target", "delete target", "delete"}
  OthersAct = TRUE
SYMMETRY Symmetric
SPECIFICATION Spec
INVARIANTS TypeOK MisplacedHasCause ReadinessIsCurrent
