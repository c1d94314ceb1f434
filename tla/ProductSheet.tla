---------------------------- MODULE ProductSheet ----------------------------
(* The sheet that slides up over a menu for one product                      *)
(* (components/menu/ProductDetailModal.jsx): the answers to its option       *)
(* groups, the total under them, and the drag that throws the sheet away.    *)
(*                                                                         *)
(* The component stays mounted behind every product of the screen and is     *)
(* handed another one: its answers and a gesture under way survive unless    *)
(* the render that sees the new product drops them.  A pointer may be down   *)
(* on the handle when Escape closes the sheet, and the release of a pointer  *)
(* whose handle is gone reaches nobody.  Prices are in kurus.               *)
EXTENDS Integers, FiniteSets, Sequences, SequencesExt

CONSTANTS
  Product,
  OptionGroups,        \* of each product: a sequence of [type, required, prices]
  BasePrice,
  NoProduct,
  Pointer,             \* the pointer ids; a mouse is always the same one
  NoPointer,
  Height,              \* where on the screen a pointer can be
  Pause,               \* the milliseconds between two events of a gesture
  DismissDistance,     \* 90
  FlickMinDistance,    \* 12
  FlickMaxIdle,        \* 120
  MaxSheetSteps        \* bound on the acts on sheets

ASSUME SheetConstants ==
  /\ OptionGroups \in
       [Product -> Seq([type : {"single", "multiple"}, required : BOOLEAN, prices : Seq(Nat) \ {<<>>}])]
  /\ BasePrice \in [Product -> Nat]
  /\ NoProduct \notin Product /\ NoPointer \notin Pointer
  /\ 0 < FlickMinDistance /\ FlickMinDistance < DismissDistance
  /\ MaxSheetSteps \in Nat

VARIABLES
  sheetProduct,        \* selectedProduct of the screen
  selections,          \* per group, the items chosen
  drag,                \* the gesture in the ref
  dragOffset,
  sheets,              \* how many sheets were opened
  sheetEnd,            \* how the last one ended: its number, and whose gesture if any
  sheetSteps

sheetVars == <<sheetProduct, selections, drag, dragOffset, sheets, sheetEnd, sheetSteps>>

SheetStep == sheetSteps < MaxSheetSteps /\ sheetSteps' = sheetSteps + 1

-----------------------------------------------------------------------------
optionGroupsOf(p) == IF p = NoProduct THEN <<>> ELSE OptionGroups[p]

(* A required single choice answers itself; every other group is empty.      *)
defaultSelections(p) ==
  [i \in DOMAIN optionGroupsOf(p) |->
     IF optionGroupsOf(p)[i].type = "single" /\ optionGroupsOf(p)[i].required THEN {1} ELSE {}]

NoDrag == [pointer |-> NoPointer, sheet |-> 0]
isDragging == drag # NoDrag

(* A sheet that takes a gesture under way for its own.                     *)
ResetAnswersOnly(p) ==
  /\ sheetProduct' = p
  /\ selections' = defaultSelections(p)
  /\ dragOffset' = 0
  /\ UNCHANGED drag

(* The render that sees another product, the null of a closed sheet          *)
(* included.                                                               *)
SheetReset(p) ==
  /\ sheetProduct' = p
  /\ selections' = defaultSelections(p)
  /\ drag' = NoDrag /\ dragOffset' = 0

OpenSheet(p) ==
  /\ SheetReset(p)
  /\ sheets' = sheets + 1
  /\ UNCHANGED sheetEnd

onClose(gestureOf) ==
  /\ SheetReset(NoProduct)
  /\ sheetEnd' = [sheet |-> sheets, gesture |-> gestureOf]
  /\ UNCHANGED sheets

SheetOpen == sheetProduct # NoProduct

(* Escape, the backdrop and the close button.                              *)
CloseSheet == SheetOpen /\ SheetStep /\ onClose(0)

-----------------------------------------------------------------------------
(* The answers.                                                            *)

chooseSingle(i, item) ==
  /\ optionGroupsOf(sheetProduct)[i].type = "single"
  /\ selections' = [selections EXCEPT ![i] = {item}]

toggleMultiple(i, item) ==
  /\ optionGroupsOf(sheetProduct)[i].type = "multiple"
  /\ selections' = [selections EXCEPT ![i] = IF item \in @ THEN @ \ {item} ELSE @ \cup {item}]

ChooseOption ==
  /\ SheetOpen /\ SheetStep
  /\ \E i \in DOMAIN optionGroupsOf(sheetProduct) :
       \E item \in DOMAIN optionGroupsOf(sheetProduct)[i].prices :
         chooseSingle(i, item) \/ toggleMultiple(i, item)
  /\ UNCHANGED <<sheetProduct, drag, dragOffset, sheets, sheetEnd>>

(* An index the group does not have adds nothing.                          *)
GroupExtra(i) ==
  LET group == optionGroupsOf(sheetProduct)[i]
      chosen == IF i \in DOMAIN selections THEN selections[i] ELSE {}
  IN FoldFunctionOnSet(+, 0, group.prices, chosen \cap DOMAIN group.prices)

total == BasePrice[sheetProduct] +
         FoldFunction(+, 0, [i \in DOMAIN optionGroupsOf(sheetProduct) |-> GroupExtra(i)])

-----------------------------------------------------------------------------
(* The drag.  Speeds are compared as tenths of a pixel per millisecond.      *)

Down(y, start) == IF y > start THEN y - start ELSE 0

startDrag(p, y) ==
  /\ SheetOpen /\ SheetStep
  /\ drag' = [pointer |-> p, sheet |-> sheets, startY |-> y, previousY |-> y, lastY |-> y, sampled |-> 0]
  /\ UNCHANGED <<sheetProduct, selections, dragOffset, sheets, sheetEnd>>

moveDrag(p, y, pause) ==
  /\ SheetOpen /\ SheetStep
  /\ drag.pointer = p
  /\ drag' = [drag EXCEPT !.previousY = drag.lastY, !.lastY = y, !.sampled = pause]
  /\ dragOffset' = Down(y, drag.startY)
  /\ UNCHANGED <<sheetProduct, selections, sheets, sheetEnd>>

(* Only the speed of the last two samples counts, and not after a pause.     *)
flicked(d, distance, pause) ==
  /\ pause <= FlickMaxIdle /\ d.sampled > 0
  /\ 10 * (d.lastY - d.previousY) > 6 * d.sampled
  /\ distance > FlickMinDistance

endDrag(p, y, pause) ==
  /\ SheetOpen /\ SheetStep
  /\ drag.pointer = p
  /\ LET distance == Down(y, drag.startY)
     IN IF distance > DismissDistance \/ flicked(drag, distance, pause)
        THEN onClose(drag.sheet)
        ELSE /\ drag' = NoDrag /\ dragOffset' = 0
             /\ UNCHANGED <<sheetProduct, selections, sheets, sheetEnd>>

cancelDrag(p) ==
  /\ SheetOpen /\ SheetStep
  /\ drag.pointer = p
  /\ drag' = NoDrag /\ dragOffset' = 0
  /\ UNCHANGED <<sheetProduct, selections, sheets, sheetEnd>>

Gesture ==
  \E p \in Pointer :
    \/ cancelDrag(p)
    \/ \E y \in Height :
         startDrag(p, y) \/ \E pause \in Pause : moveDrag(p, y, pause) \/ endDrag(p, y, pause)

-----------------------------------------------------------------------------
SheetInit ==
  /\ sheetProduct = NoProduct /\ selections = defaultSelections(NoProduct)
  /\ drag = NoDrag /\ dragOffset = 0
  /\ sheets = 0 /\ sheetEnd = [sheet |-> 0, gesture |-> 0] /\ sheetSteps = 0

SheetNext == CloseSheet \/ ChooseOption \/ Gesture

-----------------------------------------------------------------------------
(* Properties.                                                             *)

(* How far a sheet can be drawn down.                                        *)
Distance == {0} \cup {Down(y, start) : y, start \in Height}

SheetTypeOK ==
  /\ sheetProduct \in Product \cup {NoProduct}
  /\ drag.pointer \in Pointer \cup {NoPointer}
  /\ dragOffset \in Distance
  /\ sheetSteps \in 0..MaxSheetSteps
  /\ SheetOpen => total >= BasePrice[sheetProduct]

(* The answers on a sheet are answers to its own product's groups - at most  *)
(* one where one may be chosen, exactly one where one must be - so its total *)
(* is a price it can have, and a sheet nobody holds is at rest              *)
(* (ProductDetailModal.jsx:172, 208).                                       *)
SheetIsItsProducts ==
  /\ DOMAIN selections = DOMAIN optionGroupsOf(sheetProduct)
  /\ \A i \in DOMAIN selections :
       LET group == optionGroupsOf(sheetProduct)[i]
       IN /\ selections[i] \subseteq DOMAIN group.prices
          /\ group.type = "single" => Cardinality(selections[i]) <= 1
          /\ group.type = "single" /\ group.required => selections[i] # {}
  /\ ~isDragging => dragOffset = 0

(* A sheet is thrown away only by a gesture that began on it: the release of *)
(* a pointer that was down when an earlier sheet closed leaves it alone      *)
(* (ProductDetailModal.jsx:214).                                            *)
OwnGestureOnly == sheetEnd.gesture \in {0, sheetEnd.sheet}

(* Nothing of an earlier sheet reaches a later one.                        *)
SheetStandsAlone == SheetIsItsProducts /\ OwnGestureOnly
=============================================================================
