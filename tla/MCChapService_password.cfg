\* One request after another that changes the password.
CONSTANTS
  c1 = c1 c2 = c2 c3 = c3 u1 = u1 u2 = u2 p1 = p1 p2 = p2
  None = None NoClient = NoClient Deletable = TRUE
  Clients = {c1}
  Users = {u1}
  Passwords = {p1, p2}
  ReadBack <- WithNone
SPECIFICATION Spec
PROPERTY SavedPasswordIsStored
