----------------------------- MODULE MenuScreen -----------------------------
(* What a visitor walks through in a menu (components/menu/MenuContent.jsx): *)
(* the grid of categories, the listing of one, the results of a search, the  *)
(* product sheet over them (ProductSheet), and the one scroll position they  *)
(* all share.                                                               *)
(*                                                                         *)
(* Opening a category starts it at the top and going back puts the grid      *)
(* where it was left; a refetch (another language, the owner's edits in the  *)
(* preview) may take the open category away at any time.  The browser keeps  *)
(* a scroll position within what there is to scroll.  Left out: a move to    *)
(* another menu, which loads another page (MenuContent.jsx:788).             *)
EXTENDS ProductSheet

CONSTANTS
  Category, NoCategory,
  Unidentified,        \* the categories that arrived without an id
  ProductsIn,          \* the products of each category
  Matching,            \* the products the typed word finds
  NoOffset,
  MaxScreenSteps       \* bound on taps, typing, scrolling and refetches

ASSUME ScreenConstants ==
  /\ Unidentified \subseteq Category /\ Matching \subseteq Product /\ IsFiniteSet(Category)
  /\ NoCategory \notin Category /\ NoOffset \notin Nat

VARIABLES
  embedded,            \* a preview or the landing page's demo, where nothing is counted
  payload,             \* the categories of the menu as it was last fetched
  selectedCategory,
  search,
  scroll,
  gridOffset,          \* gridOffsetRef
  gridSeen,            \* where the grid stood when it was last on screen
  counted,             \* the events sent
  sheetStale,          \* the open sheet holds a product of an earlier payload
  screenSteps

screenVars == <<embedded, payload, selectedCategory, search, scroll, gridOffset, gridSeen, counted, sheetStale, screenSteps, sheetVars>>

ScreenStep == screenSteps < MaxScreenSteps /\ screenSteps' = screenSteps + 1

-----------------------------------------------------------------------------
SearchText == {"", "blanks", "word"}
searching(text) == text = "word"

View(selected, text) ==
  IF searching(text) THEN "results" ELSE IF selected # NoCategory THEN "listing" ELSE "grid"

isHome == View(selectedCategory, search) = "grid"

searchResults == UNION {ProductsIn[c] : c \in payload} \cap Matching

ProductRows ==
  CASE View(selectedCategory, search) = "results" -> searchResults
    [] View(selectedCategory, search) = "listing" -> ProductsIn[selectedCategory]
    [] OTHER -> {}

(* A grid is as long as its categories; the other views scroll a little.     *)
Reach(selected, text, shown) ==
  IF View(selected, text) = "grid" THEN Cardinality(shown) ELSE 1

Clamped(offset, reach) == IF offset > reach THEN reach ELSE offset

(* The layout effects of a render: a change of the selection moves the       *)
(* viewport, then leaving the results does; otherwise the browser only      *)
(* keeps the position within reach.                                        *)
ScrollAfter(selected, text, shown, offset) ==
  IF searching(search) /\ ~searching(text) THEN 0
  ELSE IF selected = selectedCategory THEN Clamped(scroll, Reach(selected, text, shown))
  ELSE IF selected # NoCategory \/ offset = NoOffset THEN 0
  ELSE Clamped(offset, Reach(selected, text, shown))

(* The render that shows this selection, this text and these categories;     *)
(* `offset` is what gridOffsetRef holds when the effects run.               *)
Show(selected, text, shown, offset) ==
  /\ selectedCategory' = selected /\ search' = text /\ payload' = shown
  /\ scroll' = ScrollAfter(selected, text, shown, offset)
  /\ gridOffset' = IF selected # selectedCategory /\ selected = NoCategory THEN NoOffset ELSE offset
  /\ gridSeen' = IF View(selected, text) = "grid" THEN scroll' ELSE gridSeen
  /\ UNCHANGED embedded

track(event) == counted' = IF embedded THEN counted ELSE [counted EXCEPT ![event] = @ + 1]

-----------------------------------------------------------------------------
(* The cards of the grid and the chips over a listing.                       *)
CategoryButtons == IF searching(search) THEN {} ELSE payload

(* A category that keeps the position it was opened from, a chip included.  *)
OpenFromAnywhere(c) ==
  /\ ScreenStep /\ c \in CategoryButtons
  /\ c \notin Unidentified /\ c # selectedCategory
  /\ Show(c, search, payload, scroll)
  /\ track("category_view")
  /\ UNCHANGED <<sheetStale, sheetVars>>

openCategory(c) ==
  /\ ScreenStep /\ c \in CategoryButtons
  /\ c \notin Unidentified /\ c # selectedCategory
  /\ Show(c, search, payload, IF selectedCategory = NoCategory THEN scroll ELSE gridOffset)
  /\ track("category_view")
  /\ UNCHANGED <<sheetStale, sheetVars>>

backToCategories ==
  /\ ScreenStep /\ View(selectedCategory, search) = "listing"
  /\ Show(NoCategory, search, payload, gridOffset)
  /\ UNCHANGED <<counted, sheetStale, sheetVars>>

onSearchChange(text) ==
  /\ ScreenStep /\ payload # {} /\ text # search
  /\ Show(selectedCategory, text, payload, gridOffset)
  /\ UNCHANGED <<counted, sheetStale, sheetVars>>

(* The keyboard reaches the rows behind an open sheet.  The very product the *)
(* sheet holds is counted again and changes nothing.                       *)
openProduct(p) ==
  /\ ScreenStep /\ SheetStep
  /\ p \in ProductRows
  /\ IF p = sheetProduct /\ ~sheetStale
     THEN UNCHANGED <<sheetProduct, selections, drag, dragOffset, sheets, sheetEnd>>
     ELSE OpenSheet(p)
  /\ sheetStale' = FALSE
  /\ track("product_view")
  /\ UNCHANGED <<embedded, payload, selectedCategory, search, scroll, gridOffset, gridSeen>>

Scroll ==
  /\ ScreenStep
  /\ scroll' \in 0..Reach(selectedCategory, search, payload) \ {scroll}
  /\ gridSeen' = IF isHome THEN scroll' ELSE gridSeen
  /\ UNCHANGED <<embedded, payload, selectedCategory, search, gridOffset, counted, sheetStale, sheetVars>>

(* A refetch.  A selection that is gone is dropped, whatever is on screen;   *)
(* the open sheet keeps the product it was opened with.                     *)
PayloadArrives ==
  /\ ScreenStep
  /\ \E shown \in SUBSET Category \ {payload} :
       Show(IF selectedCategory \in shown THEN selectedCategory ELSE NoCategory, search, shown, gridOffset)
  /\ sheetStale' = SheetOpen
  /\ UNCHANGED <<counted, sheetVars>>

OnSheet ==
  /\ SheetNext
  /\ sheetStale' = (sheetStale /\ sheetProduct' # NoProduct)
  /\ UNCHANGED <<embedded, payload, selectedCategory, search, scroll, gridOffset, gridSeen, counted, screenSteps>>

-----------------------------------------------------------------------------
ScreenInit ==
  /\ embedded \in BOOLEAN
  /\ payload = Category
  /\ selectedCategory = NoCategory /\ search = ""
  /\ scroll = 0 /\ gridOffset = NoOffset /\ gridSeen = 0
  /\ counted = [category_view |-> 0, product_view |-> 0]
  /\ sheetStale = FALSE /\ screenSteps = 0
  /\ SheetInit

ScreenNext ==
  \/ \E c \in Category : openCategory(c)
  \/ backToCategories
  \/ \E text \in SearchText : onSearchChange(text)
  \/ \E p \in Product : openProduct(p)
  \/ Scroll \/ PayloadArrives \/ OnSheet

ScreenSpec == ScreenInit /\ [][ScreenNext]_screenVars

-----------------------------------------------------------------------------
(* Properties.                                                             *)

ScreenTypeOK ==
  /\ SheetTypeOK
  /\ payload \subseteq Category
  /\ selectedCategory \in payload \cup {NoCategory}
  /\ scroll \in 0..Cardinality(Category)
  /\ sheetStale => SheetOpen
  /\ gridOffset \in {NoOffset} \cup 0..Cardinality(Category)

(* Whatever was opened, switched with the chips, searched or refetched in    *)
(* between, the way back from a category lands where the grid was left, as   *)
(* far as the grid still reaches (MenuContent.jsx:743).                     *)
BackLandsWhereLeft ==
  [][View(selectedCategory, search) = "listing" /\ View(selectedCategory', search') = "grid" =>
       scroll' = Clamped(gridSeen, Reach(selectedCategory', search', payload'))]_screenVars
=============================================================================
