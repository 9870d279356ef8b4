\* Two requests about mappings.
CONSTANTS
  c1 = c1 c2 = c2
  iqn1 = iqn1 disk = disk bad = bad
  lun0 = lun0 lun1 = lun1 peer = peer addr = addr torn = torn
  NoClient = NoClient AnyLun = AnyLun Untyped = Untyped
  Luns = {lun0, lun1}
  Valid <- MCValid
  Clients <- MCTwoClients
  Requests <- MCTargetRequests
  Items <- MCItems
  AdminItems <- MCAdminItems
  ReadAs <- MCReadAs
  Says <- MCSays
  Spelling = {}
SPECIFICATION Spec
PROPERTY OkMeansMapped
