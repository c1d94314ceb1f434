------------------------------- MODULE Prices --------------------------------
(* A price as an owner types it and as the dashboard reads it: the pure     *)
(* functions of lib/format.js and components/dashboard/ProductModal.jsx.    *)
(* Amounts are in the hundredth part of the currency.  A typed text is a    *)
(* record: nothing, letters, or digits with at most one decimal mark, after *)
(* which two digits stand.                                                  *)
EXTENDS Naturals

Typed(kind, whole, mark, cents) == [kind |-> kind, whole |-> whole, mark |-> mark, cents |-> cents]
Blank == Typed("blank", 0, "none", 0)
Letters == Typed("letters", 0, "none", 0)
Number(whole, mark, cents) == Typed("number", whole, mark, cents)

TypedText ==
  [kind : {"blank", "letters", "number"}, whole : Nat, mark : {"none", "comma", "dot"}, cents : 0..99]

isValidPriceText(t) == t.kind = "number"

(* Every dot is dropped, and the first comma becomes the decimal point.     *)
parsePrice(t) ==
  IF t.kind # "number" THEN 0
  ELSE CASE t.mark = "comma" -> 100 * t.whole + t.cents
         [] t.mark = "dot" -> 100 * (100 * t.whole + t.cents)
         [] t.mark = "none" -> 100 * t.whole

(* An amount written the way a program would print it.                      *)
DottedInput(amount) == Number(amount \div 100, "dot", amount % 100)

priceToInput(amount) == Number(amount \div 100, "comma", amount % 100)

(* Leaving the field writes the amount as it was read.                      *)
AfterBlur(t) == IF isValidPriceText(t) THEN priceToInput(parsePrice(t)) ELSE t

(* What the comment above parsePrice says of a typed text: both marks are    *)
(* accepted.                                                                *)
Meant(t) == 100 * t.whole + t.cents

(* What the server refuses (CheckPrice).                                    *)
PriceRefused(amount, ceiling) == amount > ceiling
=============================================================================
