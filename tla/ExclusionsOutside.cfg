SPECIFICATION ExclusionSpec
CONSTANTS
  Visit = {v1, v2}
  Edit = {e1, e2}
  one = one
  other = other
  Address <- MCAddress
  Prefix <- MCPrefixes
  None = None
  MaxPerBusiness = 2
  TTL = 1
  LastTick = 2
  ConflictAttempts = 2
  OutsideEdits = TRUE
INVARIANTS ListedVisitsDropped
SYMMETRY VisitsAndEditsAlike
