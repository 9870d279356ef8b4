\* Two requests about the backstores of one name, of both types, and about the
\* mappings, ACLs and portals of one target, beside the service of targets and
\* an operator.
CONSTANTS
  c1 = c1 c2 = c2
  iqn1 = iqn1 disk = disk bad = bad
  lun0 = lun0 lun1 = lun1 peer = peer addr = addr torn = torn
  NoClient = NoClient AnyLun = AnyLun Untyped = Untyped
  Luns = {lun0}
  Valid <- MCValid
  Clients <- MCTwoClients
  Requests <- MCRequests
  Items <- MCItems
  AdminItems <- MCAdminItems
  ReadAs <- MCReadAs
  Says <- MCSays
  Spelling = {}
SYMMETRY Symmetric
SPECIFICATION Spec
INVARIANTS TypeOK MutexHeldToChange ListingIsRegular NotFoundWasAbsent
PROPERTY KeepsPromise
