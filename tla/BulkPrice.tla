----------------------------- MODULE BulkPrice ------------------------------
(* The bulk price dialog (components/dashboard/BulkPriceModal) over the     *)
(* server's plan of the new prices (utils/pricing.go, PlanPriceChanges,     *)
(* ApplyPrices): a preview is asked for, read, shown beside the settings it *)
(* was asked for with, and the same settings are applied.  Other writers    *)
(* change prices meanwhile, and nothing in the dialog is disabled while a   *)
(* request runs but its buttons.                                           *)
(*                                                                         *)
(* Prices are in the hundredth part of the currency; the arithmetic is exact *)
(* where the code's is in floating point.  Left out: the other menus and    *)
(* the records an apply writes.                                            *)
EXTENDS Integers, FiniteSets

CONSTANTS
  PricedProduct,
  ShelfOf,              \* the category of each product
  StartPrice, OtherPrice,
  Percentage,           \* what an owner types that reads as a number
  PriceCeiling,
  NoResult,             \* no request, no preview
  BlankPercentage,      \* a text that does not read as a number
  MaxBulkSteps          \* bound: requests, edits by hand, and writes of others

ASSUME BulkConstants ==
  /\ Percentage \subseteq Int /\ PriceCeiling \in Nat
  /\ StartPrice \in [PricedProduct -> 0..PriceCeiling] /\ OtherPrice \subseteq 0..PriceCeiling

VARIABLES
  menuPrices,           \* the stored prices of the menu
  bulk,                 \* the dialog
  bulkRequest,          \* the request under way, or NoResult
  bulkSteps

bulkVars == <<menuPrices, bulk, bulkRequest, bulkSteps>>

Shelves == {ShelfOf[p] : p \in PricedProduct}
Rounding == {"none", "integer", "nearest_5", "nearest_10", "ends_50", "ends_95", "ends_99"}

(* What is asked for, what comes back, and a request between the two.       *)
BulkBody == [percentage : Percentage, rounding : Rounding, categories : SUBSET Shelves]
BulkPlan == UNION {[scope -> Nat] : scope \in SUBSET PricedProduct}
BulkRequest ==
  [action : {"preview", "apply"}, body : BulkBody, phase : {"sent", "done", "failed"},
   rows : BulkPlan \cup {NoResult}, disturbed : BOOLEAN]

ASSUME NoResultIsNone == NoResult \notin BulkRequest

-----------------------------------------------------------------------------
(* Pricing.  A price times 100 plus the percentage, in ten-thousandths.     *)

ApplyPercentage(price, percentage) == price * (100 + percentage)

(* To the nearest multiple, halves upwards.                                *)
Nearest(x, unit) == ((2 * x + unit) \div (2 * unit)) * unit

Base(x) == IF Nearest(x, 10000) < 10000 THEN 100 ELSE Nearest(x, 10000) \div 100

RoundPrice(x, mode) ==
  CASE mode = "none" -> Nearest(x, 100) \div 100
    [] mode = "integer" -> Nearest(x, 10000) \div 100
    [] mode = "nearest_5" -> Nearest(x, 50000) \div 100
    [] mode = "nearest_10" -> Nearest(x, 100000) \div 100
    [] mode = "ends_50" -> Nearest(x, 5000) \div 100
    [] mode = "ends_95" -> Base(x) - 5
    [] mode = "ends_99" -> Base(x) - 1

(* No category chosen is the whole menu.                                   *)
InScope(body) ==
  IF body.categories = {} THEN PricedProduct ELSE {p \in PricedProduct : ShelfOf[p] \in body.categories}

PlanPriceChanges(prices, body) ==
  [p \in InScope(body) |-> RoundPrice(ApplyPercentage(prices[p], body.percentage), body.rounding)]

PriceLimitExceeded(plan) == \E p \in DOMAIN plan : plan[p] > PriceCeiling

WithPlan(prices, plan) == [p \in PricedProduct |-> IF p \in DOMAIN plan THEN plan[p] ELSE prices[p]]

-----------------------------------------------------------------------------
(* The dialog.                                                             *)

EmptyBulk ==
  [open |-> FALSE, percentage |-> BlankPercentage, rounding |-> "none", allProducts |-> TRUE, selected |-> {},
   preview |-> NoResult, busy |-> "no", error |-> FALSE]

BulkStep == bulkSteps < MaxBulkSteps /\ bulkSteps' = bulkSteps + 1

OpenBulk ==
  /\ ~bulk.open /\ BulkStep
  /\ bulk' = [EmptyBulk EXCEPT !.open = TRUE]
  /\ UNCHANGED <<menuPrices, bulkRequest>>

CloseBulk ==
  /\ bulk.open /\ bulk.busy = "no"
  /\ bulk' = [bulk EXCEPT !.open = FALSE]
  /\ UNCHANGED <<menuPrices, bulkRequest, bulkSteps>>

(* A change of a setting that leaves the table of the old one.              *)
ChangeKeepingPreview(b) ==
  /\ bulk.open /\ BulkStep
  /\ bulk' = b
  /\ bulkRequest' = IF bulkRequest = NoResult THEN NoResult ELSE [bulkRequest EXCEPT !.disturbed = TRUE]
  /\ UNCHANGED menuPrices

(* Every change of a setting takes the preview away, and makes the answer   *)
(* still under way one for other settings.                                 *)
ChangeBulk(b) ==
  /\ bulk.open /\ BulkStep
  /\ bulk' = [b EXCEPT !.preview = NoResult]
  /\ bulkRequest' = IF bulkRequest = NoResult THEN NoResult ELSE [bulkRequest EXCEPT !.disturbed = TRUE]
  /\ UNCHANGED menuPrices

TypePercentage(v) == bulk.percentage # v /\ ChangeBulk([bulk EXCEPT !.percentage = v, !.error = FALSE])
ShortcutPercentage(v) ==
  v \in {-10, -5, 5, 10, 15, 20} /\ bulk.busy = "no" /\ TypePercentage(v)
ChooseRounding(mode) == bulk.rounding # mode /\ ChangeBulk([bulk EXCEPT !.rounding = mode])
ChooseScope(all) == bulk.allProducts # all /\ ChangeBulk([bulk EXCEPT !.allProducts = all])
toggleCategory(c) ==
  /\ ~bulk.allProducts
  /\ ChangeBulk([bulk EXCEPT !.selected = IF c \in @ THEN @ \ {c} ELSE @ \cup {c}])

percentageValid(b) == b.percentage # BlankPercentage
validBulk(b) == percentageValid(b) /\ b.percentage >= -90 /\ b.percentage <= 1000

requestBody(b) ==
  [percentage |-> b.percentage, rounding |-> b.rounding, categories |-> IF b.allProducts THEN {} ELSE b.selected]

RefuseBulk ==
  /\ bulk.open /\ bulk.busy = "no" /\ ~validBulk(bulk) /\ ~bulk.error
  /\ bulk' = [bulk EXCEPT !.error = TRUE]
  /\ UNCHANGED <<menuPrices, bulkRequest, bulkSteps>>

RunBulk(action) ==
  /\ bulk.open /\ bulk.busy = "no" /\ validBulk(bulk) /\ BulkStep
  /\ bulk' = [bulk EXCEPT !.busy = action, !.error = FALSE]
  /\ bulkRequest' = [action |-> action, body |-> requestBody(bulk), phase |-> "sent", rows |-> NoResult,
                     disturbed |-> FALSE]
  /\ UNCHANGED menuPrices

-----------------------------------------------------------------------------
(* The server.  A preview writes nothing; both refuse the same plans.      *)

BulkRefused ==
  /\ bulkRequest # NoResult /\ bulkRequest.phase = "sent"
  /\ bulkRequest' = [bulkRequest EXCEPT !.phase = "failed"]
  /\ UNCHANGED <<menuPrices, bulk, bulkSteps>>

PlansBulk ==
  LET plan == PlanPriceChanges(menuPrices, bulkRequest.body) IN
  /\ bulkRequest # NoResult /\ bulkRequest.phase = "sent" /\ ~PriceLimitExceeded(plan)
  /\ menuPrices' = IF bulkRequest.action = "apply" THEN WithPlan(menuPrices, plan) ELSE menuPrices
  (* The write is committed before the date is read and the entry logged.   *)
  /\ \E phase \in {"done", "failed"} : bulkRequest' = [bulkRequest EXCEPT !.phase = phase, !.rows = plan]
  /\ UNCHANGED <<bulk, bulkSteps>>

(* Another writer changes a price that was read for a preview.              *)
OtherPricesChange(p, price) ==
  /\ menuPrices[p] # price /\ BulkStep
  /\ menuPrices' = [menuPrices EXCEPT ![p] = price]
  /\ bulkRequest' = IF bulkRequest = NoResult THEN NoResult ELSE [bulkRequest EXCEPT !.disturbed = TRUE]
  /\ bulk' = IF bulk.preview = NoResult THEN bulk ELSE [bulk EXCEPT !.preview.disturbed = TRUE]

(* The answer lands, whatever the dialog says by then.  A successful apply  *)
(* closes it.                                                              *)
BulkLands ==
  /\ bulkRequest # NoResult /\ bulkRequest.phase \in {"done", "failed"}
  /\ LET applied == bulkRequest.action = "apply" IN
     bulk' = IF bulkRequest.phase = "failed"
             THEN [bulk EXCEPT !.busy = "no",
                     !.preview = IF applied /\ @ # NoResult THEN [@ EXCEPT !.disturbed = TRUE] ELSE @]
             ELSE IF applied THEN [bulk EXCEPT !.busy = "no", !.open = FALSE]
             ELSE [bulk EXCEPT !.busy = "no",
                     !.preview = [rows |-> bulkRequest.rows, disturbed |-> bulkRequest.disturbed]]
  /\ bulkRequest' = NoResult
  /\ UNCHANGED <<menuPrices, bulkSteps>>

-----------------------------------------------------------------------------
BulkInit ==
  /\ menuPrices = StartPrice /\ bulk = EmptyBulk /\ bulkRequest = NoResult /\ bulkSteps = 0

BulkNext ==
  \/ OpenBulk \/ CloseBulk \/ RefuseBulk
  \/ \E v \in Percentage \cup {BlankPercentage} : TypePercentage(v)
  \/ \E v \in Percentage : ShortcutPercentage(v)
  \/ \E mode \in Rounding : ChooseRounding(mode)
  \/ \E all \in BOOLEAN : ChooseScope(all)
  \/ \E c \in Shelves : toggleCategory(c)
  \/ \E action \in {"preview", "apply"} : RunBulk(action)
  \/ BulkRefused \/ PlansBulk \/ BulkLands
  \/ \E p \in PricedProduct, price \in OtherPrice : OtherPricesChange(p, price)

BulkSpec == BulkInit /\ [][BulkNext]_bulkVars

-----------------------------------------------------------------------------
(* Prices stay within the column, and the dialog is busy exactly while its  *)
(* one request runs.                                                       *)
BulkTypeOK ==
  /\ \A p \in PricedProduct : menuPrices[p] \in 0..PriceCeiling
  /\ bulk.rounding \in Rounding /\ bulk.selected \subseteq Shelves
  /\ bulk.busy = "no" <=> bulkRequest = NoResult
  /\ bulkRequest # NoResult => bulk.open /\ bulkRequest.body \in BulkBody

(* The table in the dialog is what "Uygula" does: unless a setting was      *)
(* changed while the preview was fetched, or a price since it was read, the *)
(* rows shown are the rows an apply of the settings shown would write.      *)
PreviewIsWhatApplyDoes ==
  bulk.open /\ bulk.preview # NoResult /\ ~bulk.preview.disturbed
    /\ (bulkRequest # NoResult => bulkRequest.phase = "sent") =>
    validBulk(bulk) /\ bulk.preview.rows = PlanPriceChanges(menuPrices, requestBody(bulk))
=============================================================================
