SPECIFICATION WriterSpec
CONSTANTS
  Tx = {1, 2, 3}
  Gone = Gone
  Product <- MCProduct
  Category <- MCCategory
  Menu <- MCMenu
  CategoryAtStart <- MCCategoryAtStart
  MenuAtStart <- MCMenuAtStart
  Requests <- MovingCategory
  WriteIntoCategoryRuns = 2
  ConflictAttempts = 2
INVARIANTS CascadeFindsLocked
