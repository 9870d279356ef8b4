\* Three sessions of two initiators and two targets that come and go.
CONSTANTS
  n1 = n1 n2 = n2 n3 = n3 t1 = t1 t2 = t2 i1 = i1 i2 = i2 ip1 = ip1 ip2 = ip2
  Unknown = Unknown
  Targets = {t1, t2}
  Universe <- MCUniverse
SPECIFICATION Spec
INVARIANTS TypeOK RowsAreSessions RolesAreRight NothingIsMissing
