SPECIFICATION Spec
CONSTANTS
  A = A
  B = B
  C = C
  NoFile = NoFile
  Types <- MCTypes
  TypeId <- MCTypeId
  CatalogFiles <- MCCatalogFiles
  PlanFiles <- MCPlanFiles
  SupportedVectors = {"ovf0", "ovf1"}
  MaxEdits = 5
INVARIANT BuildBindsHandlers
INVARIANT OneOwner
CHECK_DEADLOCK FALSE
