SPECIFICATION ExclusionSpec
CONSTANTS
  Visit = {v1, v2}
  Edit = {e1, e2, e3}
  one = one
  other = other
  Address <- MCAddress
  Prefix <- MCPrefixes
  None = None
  MaxPerBusiness = 2
  TTL = 2
  LastTick = 0
  ConflictAttempts = 1
  OutsideEdits = FALSE
INVARIANTS ExclusionTypeOK ListedVisitsDropped OtherVisitsKept LimitHolds
PROPERTIES NoRedundantEntry
SYMMETRY VisitsAndEditsAlike
