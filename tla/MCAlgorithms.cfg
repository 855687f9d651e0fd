SPECIFICATION AlgSpec
CONSTANTS
  MaxLabels = 3
  MaxIterations = 5
  META_MAX_DEPTH = 1
  Unreadable = Unreadable
  Unreachable = Unreachable
  AddrBits = 2
  Addresses = {0, 1, 2, 3}
  MaxRules = 2
  Labels <- MCLabels
  Sources = {1, 2, 3, 4}
  Prefixes <- MCPrefixes
  MaxRecords = 2
  Texts <- MCTexts
  RootLists <- MCRootLists
  DomainNames <- MCDomainNames
  Questions <- MCQuestions
  Bytes = {1, 2}
  CatalogRecords <- MCCatalogRecords
  MaxPrimaries = 2
  Configs <- MCConfigs
INVARIANTS
  
  
  
  Dns64Recoverable
  CatalogFromOnePrimary
  
CHECK_DEADLOCK FALSE
