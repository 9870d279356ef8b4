\* Two handlers at a time and four requests between two starts, one more than
\* the log has room for.
CONSTANTS
  c1 = c1 c2 = c2
  iqn1 = iqn1
  Malformed = Malformed NoTarget = NoTarget
  Clients <- MCTwoClients
  Asked <- MCAsked
  MaxItems = 3
  DefaultLimit = 2
  LimitCap = 3
  MaxRequests = 4
SYMMETRY Symmetric
SPECIFICATION Spec
INVARIANTS TypeOK KeepsNewest AnsweredIsOnRecord RecordsKeepOrder ListIsNewestFirst
