SPECIFICATION DashboardSpec
CONSTANTS
  Menu = {"m1", "m2"}
  Category = {1, 2, 3}
  Product = {1, 2, 3}
  None = None
  FirstMenu = "m1"
  MenuAtStart <- MCMenuAtStart
  RowAtStart <- MCRowAtStart
  Price = {1, 2}
  MaxActs = 2
  LostAnswers = TRUE
  MenuId = {1, 2}
  MenusAtStart = {1}
  NoMenu = NoMenu
  MaxCalls = 3
  MaxSaves = 1
  MaxVersion = 3
INVARIANTS DashboardShowsStored OlderDataNeverReturns SpinnerFollowsNewestLoad
PROPERTIES SelectionStays
CHECK_DEADLOCK FALSE
