SPECIFICATION Spec
CONSTANTS
  Configs <- MCConfigs
  Contents <- MCContents
  Clients <- MCClients
  Slots = 2
CHECK_DEADLOCK FALSE
INVARIANTS CodingFits PermissionFits Revalidated OneIdentity
