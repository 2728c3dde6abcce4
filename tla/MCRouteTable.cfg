\* Preparation ends with a table or a diagnostic, hence no deadlock check.
SPECIFICATION DocSpec
CONSTANTS
  Owners = {"root", "module"}
  Modules = {"module"}
  Paths <- MCPaths
  Params = {":wildcard"}
  Methods = {"GET", "HEAD", "POST"}
  Entries <- MCEntries
  Configs <- MCConfigs
  Declarations = 2
  Requests <- MCRequests
  Descriptors <- MCDescriptors
  Introspected <- MCIntrospected
  Order <- MCOrder
INVARIANTS
  DeclaredIsServed
  OneOwner
  PolicyCoverage
  ManifestTruth
  DocumentTruth
CHECK_DEADLOCK FALSE
