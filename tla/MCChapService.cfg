\* Two requests, two userids of which one is read back as if none was set, and
\* two passwords.
CONSTANTS
  c1 = c1 c2 = c2 c3 = c3 u1 = u1 u2 = u2 p1 = p1 p2 = p2
  None = None NoClient = NoClient Deletable = TRUE
  Clients <- MCTwoClients
  Users = {u1, u2}
  Passwords = {p1, p2}
  ReadBack <- WithNone
SYMMETRY Symmetric
SPECIFICATION Spec
INVARIANTS TypeOK MutexHeldToSet WritesBuildUp ReadyWasReady
PROPERTY SetAnswerHolds
