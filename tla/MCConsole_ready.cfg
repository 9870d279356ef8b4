\* One user, nobody else, and targets that are deleted.
CONSTANTS
  h1 = h1 h2 = h2
  Targets = {iqn1, iqn2}
  NoTarget = NoTarget NoItem = NoItem
  Handlers <- MCHandlers
  Panels = {"mapping", "acl"}
  Items = {item}
  Clicks = {"refresh all", "delete target"}
  OthersAct = FALSE
SPECIFICATION Spec
INVARIANT ReadyIsTrue
