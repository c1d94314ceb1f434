SPECIFICATION PagesSpec
CONSTANTS
  MenuLanguage = {"tr", "en"}
  None = None
  LanguageSettings <- MCLanguageSettings
  StoredRow <- MCStoredRow
  PriceText <- MCPriceText
  CalorieText <- MCCalorieText
  MaxPrice = 80000
  MaxSurcharge = 20000
  MaxBadges = 2
  MaxOptionGroups = 2
  MaxOptionItems = 2
  MaxFormEdits = 3
  MenuId = {1, 2, 3}
  NoMenu = NoMenu
  MenusAtStart = {1, 2}
  NameText <- MCNameText
  MaxName = 60
  MinSlug = 2
  MaxDialogSteps = 6
  PricedProduct = {"a", "b"}
  ShelfOf <- MCShelf
  StartPrice <- MCStartPrice
  OtherPrice = {0, 99900}
  Percentage <- MCPercentage
  PriceCeiling = 100000
  NoResult = NoResult
  BlankPercentage = BlankPercentage
  MaxBulkSteps = 6
  SettingsMenu = {"a", "b"}
  FirstSettings = "a"
  RecordAtStart <- MCRecords
  OfferedLanguage = {1, 2, 3}
  NameTyped <- MCNameTyped
  NoteTyped <- MCNoteTyped
  SlugTyped <- MCSlugTyped
  PhoneTyped <- MCPhoneTyped
  MaxSettingsName = 60
  MaxSlogan = 120
  MaxNote = 200
  MinAddress = 2
  MaxLinks = 3
  MaxSettingsSteps = 2
  Account = {"A", "B"}
  Tab = {1, 2}
  NoAccount = NoAccount
  RegisteredAtStart = {"A"}
  MinPassword = 8
  MaxPassword = 72
  MinBusinessName = 2
  MaxBusinessName = 100
  Entry <- MCEntry
  MaxSessionActs = 2
  MenuSlug = {"m1", "m2"}
  NoSlug = NoSlug
  InterfaceLanguage = {"tr", "de", "ar"}
  NoLanguage = NoLanguage
  Offered <- MCOffered
  DefaultOf <- MCDefaultOf
  Preferred <- MCPreferred
  NothingDrawn = NothingDrawn
  NoVisitor = NoVisitor
  MaxPageLoads = 2
  MaxVisitorActs = 3
  Product = {"p1", "p2"}
  OptionGroups <- MCOptionGroups
  BasePrice <- MCBasePrice
  NoProduct = NoProduct
  Pointer = {1, 2}
  NoPointer = NoPointer
  Height = {0, 20, 100}
  Pause = {16, 200}
  DismissDistance = 90
  FlickMinDistance = 12
  FlickMaxIdle = 120
  MaxSheetSteps = 4
  Category = {"c1", "c2", "c3"}
  NoCategory = NoCategory
  Unidentified = {"c3"}
  ProductsIn <- MCProductsIn
  Matching = {"p1"}
  NoOffset = NoOffset
  MaxScreenSteps = 4
INVARIANT LockIsReleased
CHECK_DEADLOCK FALSE
