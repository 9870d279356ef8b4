\* One user, one thing after the other, and items that are deleted after targets.
CONSTANTS
  h1 = h1 h2 = h2
  Targets = {iqn1, iqn2}
  NoTarget = NoTarget NoItem = NoItem
  Handlers = {h1}
  Panels = {"mapping"}
  Items = {item}
  Clicks = {"refresh all", "delete target", "delete"}
  OthersAct = FALSE
SPECIFICATION Spec
PROPERTY DeletesWhatIsShown
