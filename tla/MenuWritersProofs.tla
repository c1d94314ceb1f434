------------------------- MODULE MenuWritersProofs -------------------------
(***************************************************************************)
(* Proofs about the writers of menus, categories and products.             *)
(*                                                                         *)
(* WriterInv holds whatever the writers do.  It says of one transaction    *)
(* what the statements it is past have locked (Sound), and of two that no  *)
(* lock of one conflicts with a lock of the other (Compatible).            *)
(* Where no category changes its menu, OrderInv holds as well: the menu a  *)
(* writer locked is still the menu of its category, so locks are taken in  *)
(* one order, a cascade finds its rows locked, and nobody waits in a circle. *)
(***************************************************************************)
EXTENDS MenuWriters, FiniteSetTheorems, TLAPS

-----------------------------------------------------------------------------
(* A transaction x, apart from the rows.                                   *)

StepsOf(x) == Steps[x.op.kind]

Here(x, step) ==
  x.outcome = "running" /\ x.pc <= Len(StepsOf(x)) /\ StepsOf(x)[x.pc] = step

Past(x, step) ==
  x.outcome = "running" /\ \E i \in 1..Len(StepsOf(x)) : i < x.pc /\ StepsOf(x)[i] = step

(* In the middle of a locking statement: its snapshot is taken. *)
Begun(x, step) == Here(x, step) /\ x.todo # <<>>

Pending(x) == {x.todo[i] : i \in 1..Len(x.todo)}

LockedBy(x, what) == \E l \in x.held : l.what = what

Placers == {"CreateProduct", "MoveProduct", "ReorderProducts"}
Deleters == {"DeleteMenu", "DeleteCategory"}

ClassesOf(step) ==
  CASE step = "advisoryMenu" -> {"menuAdvisory"}
    [] step = "advisoryCategory" -> {"categoryAdvisory"}
    [] step \in {"lockProduct", "lockProducts"} -> {"product"}
    [] step \in {"lockCategory", "lockCategories", "checkCategoryKey"} -> {"category"}
    [] step \in {"lockMenu", "checkMenuKey", "touchMenu"} -> {"menu"}
    [] step = "cascade" -> {"category", "product"}

Locks(class, ids, mode) == {[what |-> <<class, i>>, mode |-> mode] : i \in ids}

(* What a statement always locks, whatever the rows are. *)
Fixed(x, step) ==
  CASE step = "advisoryMenu" ->
         Locks("menuAdvisory", {x.menu}, IF x.op.kind = "DeleteMenu" THEN "Exclusive" ELSE "Shared")
    [] step = "advisoryCategory" ->
         Locks("categoryAdvisory", {x.op.category},
               IF x.op.kind = "DeleteCategory" THEN "Exclusive" ELSE "Shared")
    [] step = "lockProduct" ->
         Locks("product", x.op.products, IF x.op.kind = "DeleteProduct" THEN "Update" ELSE "NoKeyUpdate")
    [] step = "lockCategory" ->
         Locks("category", {x.op.category},
               IF x.op.kind = "DeleteCategory" THEN "Update" ELSE "NoKeyUpdate")
    [] step = "lockMenu" ->
         Locks("menu", {x.op.menu},
               IF x.op.kind = "DeleteMenu" \/ x.op.renames THEN "Update" ELSE "NoKeyUpdate")

FixedSteps == {"advisoryMenu", "advisoryCategory", "lockProduct", "lockCategory", "lockMenu"}

(* A lock request the statement may make. *)
Fits(x, step, r) ==
  /\ r \in LockRequest
  /\ r.what[1] \in ClassesOf(step)
  /\ r.under # Gone => step \in {"lockProducts", "lockCategories"}
  /\ step = "checkMenuKey" => r.what[2] = x.op.menu
  /\ step = "checkCategoryKey" => r.what[2] = x.op.category
  /\ r.what[1] = "product" => r.mode \in {"NoKeyUpdate", "Update"}
  /\ r.what[1] \in {"product", "category"} /\ x.op.kind \in Deleters => r.mode = "Update"
  /\ r.what[1] = "product" /\ x.op.kind \in {"ReorderProducts", "DeleteProduct"} => r.mode = "Update"

WellFormed(x) ==
  /\ x.todo # <<>> => \E step \in LockingSteps : Here(x, step)
  /\ \A step \in LockingSteps : Here(x, step) => \A r \in Pending(x) : Fits(x, step, r)
  /\ x.outcome # "running" => x.held = {} /\ x.todo = <<>>
  /\ x.op.kind \notin Placers => x.menu = x.op.menu
  /\ x.outcome = "running" => \A p \in x.priced : LockedBy(x, <<"product", p>>)
  /\ \A l \in x.held :
       /\ l.what[1] = "product" => l.mode \in {"NoKeyUpdate", "Update"}
       /\ l.what[1] \in {"product", "category"} /\ x.op.kind \in Deleters => l.mode = "Update"
       /\ l.what[1] = "product" /\ x.op.kind \in {"ReorderProducts", "DeleteProduct"} =>
            l.mode = "Update"

-----------------------------------------------------------------------------
(* A transaction x and the rows.                                           *)

(* A locked row exists. *)
RowsThere(x) == \A l \in x.held : Exists(l.what)

CreatesNew(x) ==
  x.outcome = "running" =>
    /\ x.op.kind = "CreateProduct" => \A p \in x.op.products : categoryOf[p] = Gone
    /\ x.op.kind = "CreateCategory" => menuOf[x.op.category] = Gone

(* The menu a category goes into stays: its advisory lock is held. *)
MenuStands(x) ==
  x.op.kind \in {"CreateCategory", "MoveCategory"} /\ x.outcome = "running" /\ x.pc > 3 =>
    x.op.menu \in menus

(* Who puts a product under another category has that category's key locked. *)
KeyLock(x) == [what |-> <<"category", x.op.category>>, mode |-> "KeyShare"]

Replaces(x) ==
  \/ x.op.kind = "CreateProduct"
  \/ \E p \in Product : LockedBy(x, <<"product", p>>) /\ categoryOf[p] # x.op.category

(* What a statement has to have locked in the end: what it always locks,   *)
(* the key of a new parent, and the rows that now hang under one it deletes. *)
Needs(x, step) ==
  CASE step \in FixedSteps -> Fixed(x, step)
    [] step = "checkCategoryKey" -> {l \in {KeyLock(x)} : Replaces(x)}
    [] step = "lockCategories" ->
         Locks("category", {c \in CategoriesIn(x.op.menu) : x.op.kind = "DeleteMenu"}, "Update")
    [] step = "lockProducts" ->
         Locks("product", {p \in ProductsIn({x.op.category}) : x.op.kind = "DeleteCategory"}, "Update")
    [] step = "cascade" -> Locks("product", ProductsIn(DeletedCategories(x.op)), "Update")
    [] OTHER -> {}

HasOrAwaits(x, l) == l \in x.held \/ \E r \in Pending(x) : r.what = l.what /\ r.mode = l.mode

Has(x) ==
  \A step \in LockingSteps : \A l \in Needs(x, step) :
    /\ Past(x, step) => l \in x.held
    /\ Begun(x, step) => HasOrAwaits(x, l)

(* The parent a delete's WHERE clause ties its rows to is the one it deletes. *)
UnderDeleted(x) ==
  /\ x.op.kind = "DeleteMenu" /\ Begun(x, "lockCategories") => \A r \in Pending(x) : r.under = x.op.menu
  /\ x.op.kind = "DeleteCategory" =>
       \A r \in Pending(x) : r.what[1] = "product" => r.under = x.op.category

(* DeleteCategory locks no product of another category. *)
OnlyCounted(x) ==
  x.op.kind = "DeleteCategory" =>
    \A p \in Product : LockedBy(x, <<"product", p>>) => categoryOf[p] = x.op.category

Sound(x) ==
  /\ WellFormed(x) /\ Has(x) /\ UnderDeleted(x) /\ OnlyCounted(x)
  /\ RowsThere(x) /\ CreatesNew(x) /\ MenuStands(x)

(* Two transactions at a time: what one has locked the other has not. *)
Compatible ==
  \A t, u \in Tx : t # u =>
    \A l \in tx[t].held, k \in tx[u].held : l.what = k.what => ~Conflicts(l.mode, k.mode)

WriterInv ==
  /\ WriterTypeOK
  /\ TreeIntact
  /\ Compatible
  /\ \A t \in Tx : tx[t].op \in Requests[t]
  /\ \A t \in Tx : Sound(tx[t])

-----------------------------------------------------------------------------
(* Where no category changes its menu.                                     *)

NoCategoryMoves == \A t \in Tx : \A o \in Requests[t] : o.kind # "MoveCategory"

(* The menu a placing writer read is its category's as long as it exists,  *)
(* and once read again under both advisory locks it stays.                 *)
MenuKept(x) ==
  x.op.kind \in Placers =>
    /\ Past(x, "readMenu") => menuOf[x.op.category] \in {x.menu, Gone}
    /\ Past(x, "rereadMenu") => menuOf[x.op.category] = x.menu

(* DeleteMenu: every product of the menu is locked before its categories. *)
ProductsLocked(x) ==
  x.op.kind = "DeleteMenu" =>
    /\ Past(x, "lockProducts") =>
         \A p \in ProductsIn(CategoriesIn(x.op.menu)) : LockedBy(x, <<"product", p>>)
    /\ Begun(x, "lockProducts") =>
         \A p \in ProductsIn(CategoriesIn(x.op.menu)) :
           \/ LockedBy(x, <<"product", p>>)
           \/ \E r \in Pending(x) : r.what = <<"product", p>> /\ r.under = categoryOf[p]

(* ApplyPrices: the products it read hang under the one menu it touches. *)
PricedTogether(x) ==
  x.op.kind = "ApplyPrices" /\ x.outcome = "running" =>
    \A p \in x.priced : menuOf[categoryOf[p]] = x.op.menu

RankOf(step) ==
  CASE step = "advisoryMenu" -> 1
    [] step = "advisoryCategory" -> 2
    [] step \in {"lockProduct", "lockProducts"} -> 3
    [] step \in {"lockCategory", "lockCategories", "checkCategoryKey"} -> 4
    [] step \in {"lockMenu", "checkMenuKey", "touchMenu", "cascade"} -> 5

(* Locks are taken upwards: a lock held comes from a statement begun, and  *)
(* what is still to be locked comes after it, in order.                    *)
TakenUpwards(x) ==
  /\ \A l \in x.held : \E step \in LockingSteps :
       /\ Past(x, step) \/ Begun(x, step)
       /\ Rank(l.what) = RankOf(step)
  /\ \A l \in x.held, r \in Pending(x) : Before(l.what, r.what)
  /\ \A i, j \in 1..Len(x.todo) : i < j => Before(x.todo[i].what, x.todo[j].what)

Ordered(x) ==
  /\ MenuKept(x) /\ ProductsLocked(x) /\ PricedTogether(x) /\ TakenUpwards(x)
  /\ ~Begun(x, "cascade")
  /\ x.outcome # "foreignKey"

(* The category whose menu a placing writer read was there already: it is  *)
(* not one that a request has yet to create.                               *)
KnownCategory(x) ==
  x.op.kind \in Placers /\ Past(x, "readMenu") =>
    \A u \in Tx : Running(u) /\ tx[u].op.kind = "CreateCategory" => tx[u].op.category # x.op.category

OrderInv == \A t \in Tx : Ordered(tx[t]) /\ KnownCategory(tx[t])
-----------------------------------------------------------------------------
(* The statement lists, read off.                                          *)

USE DEF Here, Past, StepsOf

Kinds == DOMAIN Steps

LEMMA AppendedToFour ==
  ASSUME NEW a, NEW b, NEW c, NEW d, NEW e, NEW f, NEW g, NEW s
  PROVE  /\ s = <<a, b, c, d>> \o <<e>> =>
              Len(s) = 5 /\ s[1] = a /\ s[2] = b /\ s[3] = c /\ s[4] = d /\ s[5] = e
         /\ s = <<a, b, c, d>> \o <<e, f>> =>
              Len(s) = 6 /\ s[1] = a /\ s[2] = b /\ s[3] = c /\ s[4] = d /\ s[5] = e /\ s[6] = f
         /\ s = <<a, b, c, d>> \o <<e, f, g>> =>
              Len(s) = 7 /\ s[1] = a /\ s[2] = b /\ s[3] = c /\ s[4] = d /\ s[5] = e /\ s[6] = f /\ s[7] = g
  OBVIOUS

LEMMA AppendedToThree ==
  ASSUME NEW a, NEW b, NEW c, NEW d, NEW e, NEW s
  PROVE  /\ s = <<a, b, c>> \o <<d>> =>
              Len(s) = 4 /\ s[1] = a /\ s[2] = b /\ s[3] = c /\ s[4] = d
         /\ s = <<a, b, c>> \o <<d, e>> =>
              Len(s) = 5 /\ s[1] = a /\ s[2] = b /\ s[3] = c /\ s[4] = d /\ s[5] = e
  OBVIOUS

(* A statement list is a sequence of these statements, none repeated but   *)
(* the check that the menu is the business's.                              *)
LEMMA StepsTable ==
  /\ Len(Steps["CreateCategory"]) = 4 /\ Steps["CreateCategory"][1] = "menuOwned"
  /\ Steps["CreateCategory"][2] = "advisoryMenu"
  /\ Steps["CreateCategory"][3] = "menuOwned"
  /\ Steps["CreateCategory"][4] = "checkMenuKey"
  /\ Len(Steps["MoveCategory"]) = 5 /\ Steps["MoveCategory"][1] = "menuOwned"
  /\ Steps["MoveCategory"][2] = "advisoryMenu"
  /\ Steps["MoveCategory"][3] = "menuOwned"
  /\ Steps["MoveCategory"][4] = "lockCategory"
  /\ Steps["MoveCategory"][5] = "checkMenuKey"
  /\ Len(Steps["EditCategory"]) = 1 /\ Steps["EditCategory"][1] = "lockCategory"
  /\ Len(Steps["ReorderCategories"]) = 1
  /\ Steps["ReorderCategories"][1] = "lockCategories"
  /\ Len(Steps["DeleteCategory"]) = 5
  /\ Steps["DeleteCategory"][1] = "categoryOwned"
  /\ Steps["DeleteCategory"][2] = "advisoryCategory"
  /\ Steps["DeleteCategory"][3] = "lockProducts"
  /\ Steps["DeleteCategory"][4] = "lockCategory"
  /\ Steps["DeleteCategory"][5] = "cascade"
  /\ Len(Steps["CreateProduct"]) = 5 /\ Steps["CreateProduct"][1] = "readMenu"
  /\ Steps["CreateProduct"][2] = "advisoryMenu"
  /\ Steps["CreateProduct"][3] = "advisoryCategory"
  /\ Steps["CreateProduct"][4] = "rereadMenu"
  /\ Steps["CreateProduct"][5] = "checkCategoryKey"
  /\ Len(Steps["MoveProduct"]) = 7 /\ Steps["MoveProduct"][1] = "readMenu"
  /\ Steps["MoveProduct"][2] = "advisoryMenu"
  /\ Steps["MoveProduct"][3] = "advisoryCategory"
  /\ Steps["MoveProduct"][4] = "rereadMenu"
  /\ Steps["MoveProduct"][5] = "lockProduct"
  /\ Steps["MoveProduct"][6] = "checkCategoryKey"
  /\ Steps["MoveProduct"][7] = "touchMenu"
  /\ Len(Steps["ReorderProducts"]) = 6 /\ Steps["ReorderProducts"][1] = "readMenu"
  /\ Steps["ReorderProducts"][2] = "advisoryMenu"
  /\ Steps["ReorderProducts"][3] = "advisoryCategory"
  /\ Steps["ReorderProducts"][4] = "rereadMenu"
  /\ Steps["ReorderProducts"][5] = "lockProducts"
  /\ Steps["ReorderProducts"][6] = "checkCategoryKey"
  /\ Len(Steps["EditProduct"]) = 2 /\ Steps["EditProduct"][1] = "lockProduct"
  /\ Steps["EditProduct"][2] = "touchMenu"
  /\ Len(Steps["DeleteProduct"]) = 1 /\ Steps["DeleteProduct"][1] = "lockProduct"
  /\ Len(Steps["ApplyPrices"]) = 3 /\ Steps["ApplyPrices"][1] = "lockProducts"
  /\ Steps["ApplyPrices"][2] = "readPrices" /\ Steps["ApplyPrices"][3] = "touchMenu"
  /\ Len(Steps["UpdateMenu"]) = 1 /\ Steps["UpdateMenu"][1] = "lockMenu"
  /\ Len(Steps["DeleteMenu"]) = 6 /\ Steps["DeleteMenu"][1] = "menuOwned"
  /\ Steps["DeleteMenu"][2] = "advisoryMenu"
  /\ Steps["DeleteMenu"][3] = "lockProducts"
  /\ Steps["DeleteMenu"][4] = "lockCategories"
  /\ Steps["DeleteMenu"][5] = "lockMenu" /\ Steps["DeleteMenu"][6] = "cascade"
  <1>1. /\ Steps["CreateCategory"] = <<"menuOwned", "advisoryMenu", "menuOwned">> \o <<"checkMenuKey">>
        /\ Steps["MoveCategory"] =
             <<"menuOwned", "advisoryMenu", "menuOwned">> \o <<"lockCategory", "checkMenuKey">>
    BY DEF Steps, CreateCategorySteps, MoveCategorySteps, WriteIntoMenu
  <1>2. /\ Steps["CreateProduct"] =
             <<"readMenu", "advisoryMenu", "advisoryCategory", "rereadMenu">> \o <<"checkCategoryKey">>
        /\ Steps["MoveProduct"] =
             <<"readMenu", "advisoryMenu", "advisoryCategory", "rereadMenu">>
               \o <<"lockProduct", "checkCategoryKey", "touchMenu">>
        /\ Steps["ReorderProducts"] =
             <<"readMenu", "advisoryMenu", "advisoryCategory", "rereadMenu">>
               \o <<"lockProducts", "checkCategoryKey">>
    BY DEF Steps, CreateProductSteps, MoveProductSteps, ReorderProductsSteps, WriteIntoCategory
  <1>3. /\ Steps["EditCategory"] = <<"lockCategory">>
        /\ Steps["ReorderCategories"] = <<"lockCategories">>
        /\ Steps["DeleteCategory"] =
             <<"categoryOwned", "advisoryCategory", "lockProducts", "lockCategory", "cascade">>
        /\ Steps["EditProduct"] = <<"lockProduct", "touchMenu">>
        /\ Steps["DeleteProduct"] = <<"lockProduct">>
        /\ Steps["ApplyPrices"] = <<"lockProducts", "readPrices", "touchMenu">>
        /\ Steps["UpdateMenu"] = <<"lockMenu">>
        /\ Steps["DeleteMenu"] =
             <<"menuOwned", "advisoryMenu", "lockProducts", "lockCategories", "lockMenu", "cascade">>
    BY DEF Steps, EditCategorySteps, ReorderCategoriesSteps, DeleteCategorySteps, EditProductSteps,
           DeleteProductSteps, ApplyPricesSteps, UpdateMenuSteps, DeleteMenuSteps
  <1>4. /\ Len(Steps["CreateCategory"]) = 4 /\ Steps["CreateCategory"][1] = "menuOwned"
        /\ Steps["CreateCategory"][2] = "advisoryMenu"
        /\ Steps["CreateCategory"][3] = "menuOwned"
        /\ Steps["CreateCategory"][4] = "checkMenuKey"
        /\ Len(Steps["MoveCategory"]) = 5 /\ Steps["MoveCategory"][1] = "menuOwned"
        /\ Steps["MoveCategory"][2] = "advisoryMenu"
        /\ Steps["MoveCategory"][3] = "menuOwned"
        /\ Steps["MoveCategory"][4] = "lockCategory"
        /\ Steps["MoveCategory"][5] = "checkMenuKey"
    BY <1>1, AppendedToThree
  <1>5. /\ Len(Steps["CreateProduct"]) = 5 /\ Steps["CreateProduct"][1] = "readMenu"
        /\ Steps["CreateProduct"][2] = "advisoryMenu"
        /\ Steps["CreateProduct"][3] = "advisoryCategory"
        /\ Steps["CreateProduct"][4] = "rereadMenu"
        /\ Steps["CreateProduct"][5] = "checkCategoryKey"
        /\ Len(Steps["MoveProduct"]) = 7 /\ Steps["MoveProduct"][1] = "readMenu"
        /\ Steps["MoveProduct"][2] = "advisoryMenu"
        /\ Steps["MoveProduct"][3] = "advisoryCategory"
        /\ Steps["MoveProduct"][4] = "rereadMenu"
        /\ Steps["MoveProduct"][5] = "lockProduct"
        /\ Steps["MoveProduct"][6] = "checkCategoryKey"
        /\ Steps["MoveProduct"][7] = "touchMenu"
        /\ Len(Steps["ReorderProducts"]) = 6 /\ Steps["ReorderProducts"][1] = "readMenu"
        /\ Steps["ReorderProducts"][2] = "advisoryMenu"
        /\ Steps["ReorderProducts"][3] = "advisoryCategory"
        /\ Steps["ReorderProducts"][4] = "rereadMenu"
        /\ Steps["ReorderProducts"][5] = "lockProducts"
        /\ Steps["ReorderProducts"][6] = "checkCategoryKey"
    BY <1>2, AppendedToFour
  <1>6. /\ Len(Steps["EditCategory"]) = 1 /\ Steps["EditCategory"][1] = "lockCategory"
        /\ Len(Steps["ReorderCategories"]) = 1
        /\ Steps["ReorderCategories"][1] = "lockCategories"
        /\ Len(Steps["DeleteCategory"]) = 5
        /\ Steps["DeleteCategory"][1] = "categoryOwned"
        /\ Steps["DeleteCategory"][2] = "advisoryCategory"
        /\ Steps["DeleteCategory"][3] = "lockProducts"
        /\ Steps["DeleteCategory"][4] = "lockCategory"
        /\ Steps["DeleteCategory"][5] = "cascade"
        /\ Len(Steps["EditProduct"]) = 2 /\ Steps["EditProduct"][1] = "lockProduct"
        /\ Steps["EditProduct"][2] = "touchMenu"
        /\ Len(Steps["DeleteProduct"]) = 1 /\ Steps["DeleteProduct"][1] = "lockProduct"
        /\ Len(Steps["ApplyPrices"]) = 3 /\ Steps["ApplyPrices"][1] = "lockProducts"
        /\ Steps["ApplyPrices"][2] = "readPrices" /\ Steps["ApplyPrices"][3] = "touchMenu"
        /\ Len(Steps["UpdateMenu"]) = 1 /\ Steps["UpdateMenu"][1] = "lockMenu"
        /\ Len(Steps["DeleteMenu"]) = 6 /\ Steps["DeleteMenu"][1] = "menuOwned"
        /\ Steps["DeleteMenu"][2] = "advisoryMenu"
        /\ Steps["DeleteMenu"][3] = "lockProducts"
        /\ Steps["DeleteMenu"][4] = "lockCategories"
        /\ Steps["DeleteMenu"][5] = "lockMenu" /\ Steps["DeleteMenu"][6] = "cascade"
    BY <1>3
  <1> QED  BY <1>4, <1>5, <1>6

(* No locking statement comes twice. *)
LEMMA HereOnce ==
  ASSUME NEW x, x.op.kind \in Kinds, x.pc \in Nat \ {0}, NEW step, step # "menuOwned"
  PROVE  ~(Here(x, step) /\ Past(x, step))
  <1>1. CASE x.op.kind = "CreateCategory"  BY <1>1, StepsTable
  <1>2. CASE x.op.kind = "MoveCategory"  BY <1>2, StepsTable
  <1>3. CASE x.op.kind = "EditCategory"  BY <1>3, StepsTable
  <1>4. CASE x.op.kind = "ReorderCategories"  BY <1>4, StepsTable
  <1>5. CASE x.op.kind = "DeleteCategory"  BY <1>5, StepsTable
  <1>6. CASE x.op.kind = "CreateProduct"  BY <1>6, StepsTable
  <1>7. CASE x.op.kind = "MoveProduct"  BY <1>7, StepsTable
  <1>8. CASE x.op.kind = "EditProduct"  BY <1>8, StepsTable
  <1>9. CASE x.op.kind = "DeleteProduct"  BY <1>9, StepsTable
  <1>10. CASE x.op.kind = "ReorderProducts"  BY <1>10, StepsTable
  <1>11. CASE x.op.kind = "ApplyPrices"  BY <1>11, StepsTable
  <1>12. CASE x.op.kind = "UpdateMenu"  BY <1>12, StepsTable
  <1>13. CASE x.op.kind = "DeleteMenu"  BY <1>13, StepsTable, SMTT(30)
  <1> QED
    BY <1>1, <1>2, <1>3, <1>4, <1>5, <1>6, <1>7, <1>8, <1>9, <1>10, <1>11, <1>12, <1>13 DEF Kinds, Steps

(* The writers a statement belongs to. *)
LEMMA StepOwners ==
  ASSUME NEW x, x.op.kind \in Kinds, x.pc \in Nat \ {0}
  PROVE  /\ Here(x, "menuOwned") => x.op.kind \in {"CreateCategory", "MoveCategory", "DeleteMenu"}
         /\ Here(x, "readMenu") \/ Here(x, "rereadMenu") => x.op.kind \in Placers
         /\ Here(x, "advisoryCategory") \/ Past(x, "advisoryCategory") =>
              x.op.kind \in Placers \cup {"DeleteCategory"}
         /\ Here(x, "lockProduct") => x.op.kind \in {"MoveProduct", "EditProduct", "DeleteProduct"}
         /\ Here(x, "lockProducts") => x.op.kind \in {"ReorderProducts", "ApplyPrices"} \cup Deleters
         /\ Here(x, "readPrices") => x.op.kind = "ApplyPrices"
         /\ Here(x, "lockCategory") => x.op.kind \in {"MoveCategory", "EditCategory", "DeleteCategory"}
         /\ Here(x, "lockCategories") => x.op.kind \in {"ReorderCategories", "DeleteMenu"}
         /\ Here(x, "checkCategoryKey") \/ Past(x, "checkCategoryKey") => x.op.kind \in Placers
         /\ Here(x, "checkMenuKey") => x.op.kind \in {"CreateCategory", "MoveCategory"}
         /\ Here(x, "touchMenu") => x.op.kind \in {"MoveProduct", "EditProduct", "ApplyPrices"}
         /\ Here(x, "cascade") \/ Past(x, "cascade") => x.op.kind \in Deleters
  <1>1. CASE x.op.kind = "CreateCategory"  BY <1>1, StepsTable DEF Placers, Deleters
  <1>2. CASE x.op.kind = "MoveCategory"  BY <1>2, StepsTable DEF Placers, Deleters
  <1>3. CASE x.op.kind = "EditCategory"  BY <1>3, StepsTable DEF Placers, Deleters
  <1>4. CASE x.op.kind = "ReorderCategories"  BY <1>4, StepsTable DEF Placers, Deleters
  <1>5. CASE x.op.kind = "DeleteCategory"  BY <1>5, StepsTable DEF Placers, Deleters
  <1>6. CASE x.op.kind = "CreateProduct"  BY <1>6, StepsTable DEF Placers, Deleters
  <1>7. CASE x.op.kind = "MoveProduct"  BY <1>7, StepsTable DEF Placers, Deleters
  <1>8. CASE x.op.kind = "EditProduct"  BY <1>8, StepsTable DEF Placers, Deleters
  <1>9. CASE x.op.kind = "DeleteProduct"  BY <1>9, StepsTable DEF Placers, Deleters
  <1>10. CASE x.op.kind = "ReorderProducts"  BY <1>10, StepsTable DEF Placers, Deleters
  <1>11. CASE x.op.kind = "ApplyPrices"  BY <1>11, StepsTable DEF Placers, Deleters
  <1>12. CASE x.op.kind = "UpdateMenu"  BY <1>12, StepsTable DEF Placers, Deleters
  <1>13. CASE x.op.kind = "DeleteMenu"  BY <1>13, StepsTable DEF Placers, Deleters
  <1> QED
    BY <1>1, <1>2, <1>3, <1>4, <1>5, <1>6, <1>7, <1>8, <1>9, <1>10, <1>11, <1>12, <1>13 DEF Kinds, Steps

(* What a placing writer has run before a statement. *)
LEMMA PlacerSteps ==
  ASSUME NEW x, x.op.kind \in Placers, x.pc \in Nat \ {0}
  PROVE  /\ Here(x, "readMenu") => x.pc = 1
         /\ Here(x, "advisoryMenu") \/ Past(x, "advisoryMenu") => Past(x, "readMenu")
         /\ Here(x, "rereadMenu") \/ Past(x, "rereadMenu") =>
              Past(x, "readMenu") /\ Past(x, "advisoryMenu") /\ Past(x, "advisoryCategory")
         /\ Here(x, "lockProduct") \/ Here(x, "lockProducts") \/ Here(x, "touchMenu") =>
              Past(x, "rereadMenu")
         /\ Here(x, "touchMenu") => x.op.kind = "MoveProduct" /\ Past(x, "lockProduct")
         /\ Here(x, "checkCategoryKey") \/ Past(x, "checkCategoryKey") =>
              /\ Past(x, "rereadMenu")
              /\ x.op.kind = "MoveProduct" => Past(x, "lockProduct")
         /\ Past(x, "checkCategoryKey") => \A step \in LockingSteps \ {"touchMenu"} : ~Here(x, step)
         /\ x.outcome = "running" /\ x.pc > Len(StepsOf(x)) => Past(x, "checkCategoryKey")
  <1>1. CASE x.op.kind = "CreateProduct"
    BY <1>1, StepsTable DEF LockingSteps, SingleRowSteps, KeySteps, UnorderedSteps
  <1>2. CASE x.op.kind = "MoveProduct"
    BY <1>2, StepsTable DEF LockingSteps, SingleRowSteps, KeySteps, UnorderedSteps
  <1>3. CASE x.op.kind = "ReorderProducts"
    BY <1>3, StepsTable DEF LockingSteps, SingleRowSteps, KeySteps, UnorderedSteps
  <1> QED
    BY <1>1, <1>2, <1>3 DEF Placers

(* What the other structural writers have run before a statement. *)
LEMMA CategoryWriterSteps ==
  ASSUME NEW x, x.op.kind \in {"CreateCategory", "MoveCategory"}, x.pc \in Nat \ {0}
  PROVE  /\ x.outcome = "running" /\ x.pc > 2 => Past(x, "advisoryMenu")
         /\ Here(x, "menuOwned") => x.pc \in {1, 3}
         /\ Here(x, "checkMenuKey") => x.pc > 3
         /\ x.outcome = "running" /\ x.pc = 3 => Here(x, "menuOwned")
         /\ x.outcome = "running" /\ x.pc > Len(StepsOf(x)) => 
              /\ x.pc > 3
              /\ x.op.kind = "MoveCategory" => Past(x, "lockCategory")
  <1>1. CASE x.op.kind = "CreateCategory"  BY <1>1, StepsTable
  <1>2. CASE x.op.kind = "MoveCategory"  BY <1>2, StepsTable
  <1> QED
    BY <1>1, <1>2

LEMMA DeleteMenuSteps_ ==
  ASSUME NEW x, x.op.kind = "DeleteMenu", x.pc \in Nat \ {0}
  PROVE  /\ Here(x, "lockProducts") \/ Past(x, "lockProducts") => Past(x, "advisoryMenu")
         /\ Here(x, "lockCategories") \/ Past(x, "lockCategories") =>
              Past(x, "advisoryMenu") /\ Past(x, "lockProducts")
         /\ Here(x, "cascade") \/ Past(x, "cascade") =>
              /\ Past(x, "advisoryMenu") /\ Past(x, "lockProducts") /\ Past(x, "lockCategories")
              /\ Past(x, "lockMenu")
         /\ x.outcome = "running" /\ x.pc > Len(StepsOf(x)) => Past(x, "cascade")
  BY StepsTable

LEMMA DeleteCategorySteps_ ==
  ASSUME NEW x, x.op.kind = "DeleteCategory", x.pc \in Nat \ {0}
  PROVE  /\ Here(x, "lockProducts") \/ Past(x, "lockProducts") => Past(x, "advisoryCategory")
         /\ Here(x, "lockCategory") \/ Past(x, "lockCategory") =>
              Past(x, "advisoryCategory") /\ Past(x, "lockProducts")
         /\ Here(x, "cascade") \/ Past(x, "cascade") =>
              /\ Past(x, "advisoryCategory") /\ Past(x, "lockProducts") /\ Past(x, "lockCategory")
         /\ x.outcome = "running" /\ x.pc > Len(StepsOf(x)) => Past(x, "cascade")
  BY StepsTable

LEMMA ProductWriterSteps ==
  ASSUME NEW x, x.op.kind \in {"EditProduct", "DeleteProduct", "ApplyPrices"}, x.pc \in Nat \ {0}
  PROVE  /\ Here(x, "touchMenu") /\ x.op.kind = "EditProduct" => Past(x, "lockProduct")
         /\ x.outcome = "running" /\ x.pc > Len(StepsOf(x)) /\ x.op.kind = "DeleteProduct" =>
              Past(x, "lockProduct")
  <1>1. CASE x.op.kind = "EditProduct"  BY <1>1, StepsTable
  <1>2. CASE x.op.kind = "DeleteProduct"  BY <1>2, StepsTable
  <1>3. CASE x.op.kind = "ApplyPrices"  BY <1>3, StepsTable
  <1> QED
    BY <1>1, <1>2, <1>3

(* A later statement locks things of a higher rank. *)
LEMMA RanksRise ==
  ASSUME NEW x, x.op.kind \in Kinds, x.pc \in Nat \ {0}, NEW step \in LockingSteps,
         NEW earlier \in LockingSteps, Past(x, earlier), Here(x, step), step # "cascade"
  PROVE  RankOf(earlier) < RankOf(step)
  <1>1. CASE x.op.kind = "CreateCategory"  BY <1>1, StepsTable DEF RankOf, LockingSteps, SingleRowSteps, KeySteps, UnorderedSteps
  <1>2. CASE x.op.kind = "MoveCategory"  BY <1>2, StepsTable DEF RankOf, LockingSteps, SingleRowSteps, KeySteps, UnorderedSteps
  <1>3. CASE x.op.kind = "EditCategory"  BY <1>3, StepsTable DEF RankOf, LockingSteps, SingleRowSteps, KeySteps, UnorderedSteps
  <1>4. CASE x.op.kind = "ReorderCategories"  BY <1>4, StepsTable DEF RankOf, LockingSteps, SingleRowSteps, KeySteps, UnorderedSteps
  <1>5. CASE x.op.kind = "DeleteCategory"  BY <1>5, StepsTable DEF RankOf, LockingSteps, SingleRowSteps, KeySteps, UnorderedSteps
  <1>6. CASE x.op.kind = "CreateProduct"  BY <1>6, StepsTable DEF RankOf, LockingSteps, SingleRowSteps, KeySteps, UnorderedSteps
  <1>7. CASE x.op.kind = "MoveProduct"  BY <1>7, StepsTable DEF RankOf, LockingSteps, SingleRowSteps, KeySteps, UnorderedSteps
  <1>8. CASE x.op.kind = "EditProduct"  BY <1>8, StepsTable DEF RankOf, LockingSteps, SingleRowSteps, KeySteps, UnorderedSteps
  <1>9. CASE x.op.kind = "DeleteProduct"  BY <1>9, StepsTable DEF RankOf, LockingSteps, SingleRowSteps, KeySteps, UnorderedSteps
  <1>10. CASE x.op.kind = "ReorderProducts"  BY <1>10, StepsTable DEF RankOf, LockingSteps, SingleRowSteps, KeySteps, UnorderedSteps
  <1>11. CASE x.op.kind = "ApplyPrices"  BY <1>11, StepsTable DEF RankOf, LockingSteps, SingleRowSteps, KeySteps, UnorderedSteps
  <1>12. CASE x.op.kind = "UpdateMenu"  BY <1>12, StepsTable DEF RankOf, LockingSteps, SingleRowSteps, KeySteps, UnorderedSteps
  <1>13. CASE x.op.kind = "DeleteMenu"  BY <1>13, StepsTable DEF RankOf, LockingSteps, SingleRowSteps, KeySteps, UnorderedSteps
  <1> QED
    BY <1>1, <1>2, <1>3, <1>4, <1>5, <1>6, <1>7, <1>8, <1>9, <1>10, <1>11, <1>12, <1>13 DEF Kinds, Steps

HIDE DEF Here, Past, StepsOf

-----------------------------------------------------------------------------
(* What a statement goes after.                                            *)

(* An order of a finite set is a sequence of its elements. *)
LEMMA OrdersCover ==
  ASSUME NEW S, IsFiniteSet(S), NEW sorted, NEW q \in Orders(S, sorted)
  PROVE  /\ q \in Seq(S)
         /\ Len(q) = Cardinality(S)
         /\ {q[i] : i \in 1..Len(q)} = S
         /\ \A i, j \in 1..Len(q) : q[i] = q[j] => i = j
         /\ sorted => \A i, j \in 1..Len(q) : i < j => q[i].what[2] < q[j].what[2]
  <1> DEFINE n == Cardinality(S)
  <1>1. n \in Nat
    BY FS_CardinalityType
  <1>2. q \in [1..n -> S] /\ \A i, j \in 1..n : q[i] = q[j] => i = j
    BY DEF Orders
  <1>3. q \in Seq(S) /\ Len(q) = n
    BY <1>1, <1>2
  <1>4. IsFiniteSet(1..n) /\ Cardinality(1..n) = n
    BY <1>1, FS_Interval
  <1>5. q \in Surjection(1..n, S)
    <2>1. q \in Injection(1..n, S)
      BY <1>2 DEF Injection, IsInjective
    <2> QED  BY <2>1, <1>4, FS_Injection
  <1>6. \A y \in S : \E i \in 1..n : q[i] = y
    BY <1>5 DEF Surjection
  <1> QED  BY <1>2, <1>3, <1>6 DEF Orders

LEMMA LocksFinite ==
  ASSUME NEW ids, IsFiniteSet(ids), NEW class, NEW mode
  PROVE  IsFiniteSet(Lock(class, ids, mode)) /\ IsFiniteSet(LockUnder(class, ids, mode))
  <1> DEFINE f == [i \in ids |-> [what |-> <<class, i>>, mode |-> mode, under |-> Gone]]
             g == [i \in ids |-> [what |-> <<class, i>>, mode |-> mode, under |-> Parent(<<class, i>>)]]
  <1>1. f \in Surjection(ids, Lock(class, ids, mode))
    BY DEF Surjection, Lock
  <1>2. g \in Surjection(ids, LockUnder(class, ids, mode))
    BY DEF Surjection, LockUnder
  <1> QED  BY <1>1, <1>2, FS_Surjection

(* A statement goes after finitely many locks. *)
LEMMA WantedFinite ==
  ASSUME NEW t \in Tx, tx[t] \in Transaction, NEW step \in LockingSteps
  PROVE  IsFiniteSet(Wanted(t, step))
  <1> DEFINE o == tx[t].op
  <1>1. o \in Operation /\ tx[t].priced \subseteq Product
    BY DEF Transaction
  <1>2. /\ \A i : IsFiniteSet({i})
        /\ \A S \in SUBSET Product : IsFiniteSet(S)
        /\ \A S \in SUBSET Category : IsFiniteSet(S)
    BY RequestConstants, FS_Singleton, FS_Subset
  <1>3. ASSUME NEW ps \in SUBSET Product
        PROVE  IsFiniteSet({menuOf[categoryOf[p]] : p \in ps} \ {Gone})
    <2> DEFINE T == {menuOf[categoryOf[p]] : p \in ps}
               f == [p \in ps |-> menuOf[categoryOf[p]]]
    <2>1. f \in Surjection(ps, T)
      BY DEF Surjection
    <2>2. IsFiniteSet(T)
      BY <2>1, <1>2, FS_Surjection
    <2> QED  BY <2>2, FS_Subset
  <1>4. CASE step \in {"advisoryMenu", "advisoryCategory", "lockCategory", "lockMenu"}
    BY <1>4, <1>2, LocksFinite DEF Wanted
  <1>5. CASE step \in {"lockProduct", "lockProducts", "lockCategories"}
    <2>1. /\ o.products \subseteq Product
          /\ {p \in o.products : categoryOf[p] # Gone} \subseteq Product
          /\ {c \in o.categories : menuOf[c] # Gone} \subseteq Category
      BY <1>1 DEF Operation
    <2>2. CategoriesIn(o.menu) \subseteq Category /\ \A cs : ProductsIn(cs) \subseteq Product
      BY DEF CategoriesIn, ProductsIn
    <2> QED  BY <1>5, <1>2, <2>1, <2>2, LocksFinite DEF Wanted
  <1>6. CASE step \in {"checkMenuKey", "checkCategoryKey"}
    <2>1. \A i : \A S \in SUBSET {i} : IsFiniteSet(S)
      BY <1>2, FS_Subset
    <2> QED  BY <1>6, <2>1, LocksFinite DEF Wanted
  <1>7. CASE step = "touchMenu"
    <2>1. \A m : IsFiniteSet({m} \ {Gone})
      BY <1>2, FS_Subset
    <2>2. o.products \subseteq Product
      BY <1>1 DEF Operation
    <2> QED  BY <1>7, <1>1, <1>3, <2>1, <2>2, LocksFinite, FS_EmptySet DEF Wanted
  <1>8. CASE step = "cascade"
    <2>1. DeletedCategories(o) \subseteq Category /\ ProductsIn(DeletedCategories(o)) \subseteq Product
      BY <1>1 DEF DeletedCategories, CategoriesIn, ProductsIn, Operation
    <2>2. IsFiniteSet(Lock("category", DeletedCategories(o), "Update")
                        \cup Lock("product", ProductsIn(DeletedCategories(o)), "Update"))
      BY <2>1, <1>2, LocksFinite, FS_Union
    <2> QED  BY <1>8, <2>2, FS_Subset DEF Wanted
  <1> QED
    BY <1>4, <1>5, <1>6, <1>7, <1>8 DEF LockingSteps, SingleRowSteps, KeySteps, UnorderedSteps

(* The menu a repricing touches is a menu: the products it repriced exist. *)
LEMMA TouchedMenus ==
  ASSUME WriterTypeOK, NEW t \in Tx, Sound(tx[t]), Here(tx[t], "touchMenu")
  PROVE  /\ tx[t].op.kind = "ApplyPrices" => \A p \in tx[t].priced : categoryOf[p] \in Category
         /\ tx[t].op.kind = "EditProduct" => \A p \in tx[t].op.products : categoryOf[p] \in Category
  <1> DEFINE x == tx[t]
  <1>1. x \in Transaction /\ x.op \in Operation /\ x.pc \in Nat \ {0} /\ x.op.kind \in Kinds
    BY DEF WriterTypeOK, Transaction, Operation, Kinds
  <1>2. x.priced \subseteq Product /\ x.op.products \subseteq Product
    BY <1>1 DEF Transaction, Operation
  <1>3. ASSUME NEW p \in Product, LockedBy(x, <<"product", p>>)
        PROVE  categoryOf[p] \in Category
    BY <1>3 DEF Sound, RowsThere, LockedBy, Exists, WriterTypeOK
  <1>4. ASSUME x.op.kind = "EditProduct", NEW p \in x.op.products
        PROVE  LockedBy(x, <<"product", p>>)
    <2>1. Past(x, "lockProduct")
      BY <1>1, <1>4, ProductWriterSteps
    <2>2. [what |-> <<"product", p>>, mode |-> "NoKeyUpdate"] \in Fixed(x, "lockProduct")
      BY <1>4 DEF Fixed, Locks
    <2> QED  BY <2>1, <2>2 DEF Sound, Has, Needs, FixedSteps, LockingSteps, SingleRowSteps, LockedBy
  <1>5. \A p \in x.priced : LockedBy(x, <<"product", p>>)
    BY DEF Sound, WellFormed, Here
  <1> QED  BY <1>2, <1>3, <1>4, <1>5

LEMMA LocksTyped ==
  ASSUME NEW class, NEW ids, NEW mode \in Mode, \A i \in ids : <<class, i>> \in Lockable
  PROVE  /\ \A r \in Lock(class, ids, mode) :
              /\ r \in LockRequest /\ r.what[1] = class /\ r.what[2] \in ids
              /\ r.mode = mode /\ r.under = Gone
         /\ (\A i \in ids : Parent(<<class, i>>) \in Nat \cup {Gone}) =>
              \A r \in LockUnder(class, ids, mode) :
                /\ r \in LockRequest /\ r.what[1] = class /\ r.what[2] \in ids
                /\ r.mode = mode /\ r.under = Parent(r.what)
  <1>1. ASSUME NEW r \in Lock(class, ids, mode)
        PROVE  r.what[1] = class /\ r.what[2] \in ids /\ r.mode = mode /\ r.under = Gone
    BY DEF Lock
  <1>2. ASSUME NEW r \in LockUnder(class, ids, mode)
        PROVE  \E i \in ids : r = [what |-> <<class, i>>, mode |-> mode, under |-> Parent(<<class, i>>)]
    BY DEF LockUnder
  <1>3. ASSUME NEW r \in LockUnder(class, ids, mode)
        PROVE  r.what[1] = class /\ r.what[2] \in ids /\ r.mode = mode /\ r.under = Parent(r.what)
    <2>1. PICK i \in ids : r = [what |-> <<class, i>>, mode |-> mode, under |-> Parent(<<class, i>>)]
      BY <1>2
    <2>2. r.what = <<class, i>> /\ r.mode = mode /\ r.under = Parent(<<class, i>>)
      BY <2>1
    <2>3. r.under = Parent(r.what)
      BY <2>2
    <2> QED  BY <2>2, <2>3
  <1>4. Lock(class, ids, mode) \subseteq LockRequest
    BY DEF Lock, LockRequest
  <1>5. ASSUME \A i \in ids : Parent(<<class, i>>) \in Nat \cup {Gone}, NEW r \in LockUnder(class, ids, mode)
        PROVE  r \in LockRequest
    <2>1. PICK i \in ids : r = [what |-> <<class, i>>, mode |-> mode, under |-> Parent(<<class, i>>)]
      BY <1>2
    <2>2. PICK parent : parent = Parent(<<class, i>>)
      OBVIOUS
    <2> QED  BY <1>5, <2>1, <2>2 DEF LockRequest
  <1> QED  BY <1>1, <1>3, <1>4, <1>5

(* A mode a writer uses on a class of locks. *)
ModeFits(x, class, mode) ==
  /\ mode \in Mode
  /\ class = "product" => mode \in {"NoKeyUpdate", "Update"}
  /\ class \in {"product", "category"} /\ x.op.kind \in Deleters => mode = "Update"
  /\ class = "product" /\ x.op.kind \in {"ReorderProducts", "DeleteProduct"} => mode = "Update"

LEMMA LocksFit ==
  ASSUME NEW x, NEW step, NEW class \in ClassesOf(step), NEW ids, NEW mode,
         ModeFits(x, class, mode), \A i \in ids : <<class, i>> \in Lockable,
         step = "checkMenuKey" => ids \subseteq {x.op.menu},
         step = "checkCategoryKey" => ids \subseteq {x.op.category}
  PROVE  /\ \A r \in Lock(class, ids, mode) : Fits(x, step, r)
         /\ step \in {"lockProducts", "lockCategories"}
              /\ (\A i \in ids : Parent(<<class, i>>) \in Nat \cup {Gone}) =>
              \A r \in LockUnder(class, ids, mode) : Fits(x, step, r)
  <1>1. mode \in Mode
    BY DEF ModeFits
  <1>2. ASSUME NEW r \in Lock(class, ids, mode)  PROVE  Fits(x, step, r)
    BY <1>1, LocksTyped DEF Fits, ModeFits
  <1>3. ASSUME step \in {"lockProducts", "lockCategories"},
               \A i \in ids : Parent(<<class, i>>) \in Nat \cup {Gone},
               NEW r \in LockUnder(class, ids, mode)
        PROVE  Fits(x, step, r)
    BY <1>1, <1>3, LocksTyped DEF Fits, ModeFits
  <1> QED  BY <1>2, <1>3

LEMMA WantedFits ==
  ASSUME WriterTypeOK, NEW t \in Tx, Sound(tx[t]), NEW step \in LockingSteps, Here(tx[t], step)
  PROVE  \A r \in Wanted(t, step) : Fits(tx[t], step, r)
  <1> DEFINE x == tx[t]
             o == x.op
  <1>1. /\ x \in Transaction /\ o \in Operation /\ x.menu \in Menu /\ x.priced \subseteq Product
        /\ x.pc \in Nat \ {0} /\ o.kind \in Kinds
        /\ o.products \subseteq Product /\ o.categories \subseteq Category
        /\ o.category \in Category /\ o.menu \in Menu
    BY DEF WriterTypeOK, Transaction, Operation, Kinds
  <1>2. /\ \A m \in Menu : <<"menuAdvisory", m>> \in Lockable /\ <<"menu", m>> \in Lockable
        /\ \A c \in Category : <<"categoryAdvisory", c>> \in Lockable /\ <<"category", c>> \in Lockable
        /\ \A p \in Product : <<"product", p>> \in Lockable
    BY DEF Lockable
  <1>3. /\ \A p \in Product : Parent(<<"product", p>>) \in Nat \cup {Gone}
        /\ \A c \in Category : Parent(<<"category", c>>) \in Nat \cup {Gone}
    BY WriterConstants DEF Parent, WriterTypeOK
  <1>4. /\ \A cs : ProductsIn(cs) \subseteq Product
        /\ \A m : CategoriesIn(m) \subseteq Category
        /\ DeletedCategories(o) \subseteq Category
    BY <1>1 DEF ProductsIn, CategoriesIn, DeletedCategories
  <1>5. CASE step = "advisoryMenu"
    <2>1. PICK mode \in Mode : Wanted(t, step) = Lock("menuAdvisory", {x.menu}, mode)
      BY <1>5 DEF Wanted, Mode
    <2>2. ModeFits(x, "menuAdvisory", mode) /\ "menuAdvisory" \in ClassesOf(step)
      BY <1>5 DEF ModeFits, ClassesOf
    <2> QED  BY <1>5, <1>1, <1>2, <2>1, <2>2, LocksFit
  <1>6. CASE step = "advisoryCategory"
    <2>1. PICK mode \in Mode : Wanted(t, step) = Lock("categoryAdvisory", {o.category}, mode)
      BY <1>6 DEF Wanted, Mode
    <2>2. ModeFits(x, "categoryAdvisory", mode) /\ "categoryAdvisory" \in ClassesOf(step)
      BY <1>6 DEF ModeFits, ClassesOf
    <2> QED  BY <1>6, <1>1, <1>2, <2>1, <2>2, LocksFit
  <1>7. CASE step = "lockMenu"
    <2>1. PICK mode \in Mode : Wanted(t, step) = Lock("menu", {o.menu}, mode)
      BY <1>7 DEF Wanted, Mode
    <2>2. ModeFits(x, "menu", mode) /\ "menu" \in ClassesOf(step)
      BY <1>7 DEF ModeFits, ClassesOf
    <2> QED  BY <1>7, <1>1, <1>2, <2>1, <2>2, LocksFit
  <1>8. CASE step = "lockCategory"
    <2>1. o.kind \in Deleters => o.kind = "DeleteCategory"
      BY <1>1, <1>8, StepOwners DEF Deleters
    <2>2. PICK mode \in Mode :
            /\ Wanted(t, step) = Lock("category", {o.category}, mode)
            /\ o.kind = "DeleteCategory" => mode = "Update"
      BY <1>8 DEF Wanted, Mode
    <2>3. ModeFits(x, "category", mode) /\ "category" \in ClassesOf(step)
      BY <1>8, <2>1, <2>2 DEF ModeFits, ClassesOf
    <2> QED  BY <1>8, <1>1, <1>2, <2>2, <2>3, LocksFit
  <1>9. CASE step = "lockProduct"
    <2>1. o.kind \in {"MoveProduct", "EditProduct", "DeleteProduct"}
      BY <1>1, <1>9, StepOwners
    <2>2. PICK mode \in {"NoKeyUpdate", "Update"} :
            /\ Wanted(t, step) = Lock("product", o.products, mode)
            /\ o.kind = "DeleteProduct" => mode = "Update"
      BY <1>9 DEF Wanted
    <2>3. ModeFits(x, "product", mode) /\ "product" \in ClassesOf(step)
      BY <1>9, <2>1, <2>2 DEF ModeFits, ClassesOf, Deleters, Mode
    <2> QED  BY <1>9, <1>1, <1>2, <2>2, <2>3, LocksFit
  <1>10. CASE step = "lockProducts"
    <2>1. PICK ps \in SUBSET Product :
            \/ Wanted(t, step) = Lock("product", ps, "Update")
            \/ Wanted(t, step) = LockUnder("product", ps, "Update")
      <3>1. {p \in o.products : categoryOf[p] # Gone} \subseteq Product
        BY <1>1
      <3> QED  BY <1>4, <1>10, <3>1 DEF Wanted
    <2>2. ModeFits(x, "product", "Update") /\ "product" \in ClassesOf(step)
      BY <1>10 DEF ModeFits, ClassesOf, Mode
    <2>3. \A p \in ps : <<"product", p>> \in Lockable /\ Parent(<<"product", p>>) \in Nat \cup {Gone}
      BY <1>2, <1>3
    <2> QED  BY <1>10, <2>1, <2>2, <2>3, LocksFit
  <1>11. CASE step = "lockCategories"
    <2>1. o.kind \in Deleters => o.kind = "DeleteMenu"
      BY <1>1, <1>11, StepOwners DEF Deleters
    <2>2. PICK cs \in SUBSET Category :
            \/ Wanted(t, step) = LockUnder("category", cs, "Update")
            \/ o.kind # "DeleteMenu" /\ Wanted(t, step) = Lock("category", cs, "NoKeyUpdate")
      <3>1. {c \in o.categories : menuOf[c] # Gone} \subseteq Category
        BY <1>1
      <3> QED  BY <1>4, <1>11, <3>1 DEF Wanted
    <2>3. /\ ModeFits(x, "category", "Update") /\ "category" \in ClassesOf(step)
          /\ o.kind # "DeleteMenu" => ModeFits(x, "category", "NoKeyUpdate")
      BY <1>11, <2>1 DEF ModeFits, ClassesOf, Mode
    <2>4. \A c \in cs : <<"category", c>> \in Lockable /\ Parent(<<"category", c>>) \in Nat \cup {Gone}
      BY <1>2, <1>3
    <2> QED  BY <1>11, <2>2, <2>3, <2>4, LocksFit
  <1>12. CASE step = "checkMenuKey"
    <2>1. PICK ms \in SUBSET Menu : ms \subseteq {o.menu} /\ Wanted(t, step) = Lock("menu", ms, "KeyShare")
      BY <1>1, <1>12 DEF Wanted
    <2>2. ModeFits(x, "menu", "KeyShare") /\ "menu" \in ClassesOf(step)
      BY <1>12 DEF ModeFits, ClassesOf, Mode
    <2> QED  BY <1>12, <1>2, <2>1, <2>2, LocksFit
  <1>13. CASE step = "checkCategoryKey"
    <2>1. o.kind \notin Deleters
      BY <1>1, <1>13, StepOwners DEF Deleters, Placers
    <2>2. PICK cs \in SUBSET Category :
            cs \subseteq {o.category} /\ Wanted(t, step) = Lock("category", cs, "KeyShare")
      BY <1>1, <1>13 DEF Wanted
    <2>3. ModeFits(x, "category", "KeyShare") /\ "category" \in ClassesOf(step)
      BY <1>13, <2>1 DEF ModeFits, ClassesOf, Mode
    <2> QED  BY <1>13, <1>2, <2>2, <2>3, LocksFit
  <1>14. CASE step = "touchMenu"
    <2>1. \A c \in Category : menuOf[c] \in Menu \cup {Gone}
      BY DEF WriterTypeOK
    <2>2. o.kind \in {"MoveProduct", "EditProduct", "ApplyPrices"}
      BY <1>1, <1>14, StepOwners
    <2>3. /\ o.kind = "ApplyPrices" =>
               {menuOf[categoryOf[p]] : p \in x.priced} \ {Gone} \subseteq Menu
          /\ o.kind = "EditProduct" =>
               {menuOf[categoryOf[p]] : p \in o.products} \ {Gone} \subseteq Menu
          /\ {menuOf[o.category]} \ {Gone} \subseteq Menu
      BY <1>1, <1>14, <2>1, TouchedMenus
    <2>4. PICK ms \in SUBSET Menu : Wanted(t, step) = Lock("menu", ms, "NoKeyUpdate")
      <3>1. CASE o.kind = "ApplyPrices"
        BY <1>14, <2>3, <3>1 DEF Wanted
      <3>2. CASE o.kind = "MoveProduct"
        BY <1>14, <2>3, <3>2 DEF Wanted
      <3>3. CASE o.kind = "EditProduct"
        BY <1>14, <2>3, <3>3 DEF Wanted
      <3> QED  BY <2>2, <3>1, <3>2, <3>3
    <2>5. ModeFits(x, "menu", "NoKeyUpdate") /\ "menu" \in ClassesOf(step)
      BY <1>14 DEF ModeFits, ClassesOf, Mode
    <2> QED  BY <1>14, <1>2, <2>4, <2>5, LocksFit
  <1>15. CASE step = "cascade"
    <2>1. o.kind \in Deleters
      BY <1>1, <1>15, StepOwners
    <2>2. \A r \in Wanted(t, step) :
            \/ r \in Lock("category", DeletedCategories(o), "Update")
            \/ r \in Lock("product", ProductsIn(DeletedCategories(o)), "Update")
      BY <1>15 DEF Wanted
    <2>3. ModeFits(x, "category", "Update") /\ ModeFits(x, "product", "Update")
      BY DEF ModeFits, Mode
    <2>4. {"category", "product"} \subseteq ClassesOf(step)
      BY <1>15 DEF ClassesOf
    <2>5. \A r \in Lock("category", DeletedCategories(o), "Update") : Fits(x, step, r)
      BY <1>15, <1>2, <1>4, <2>3, <2>4, LocksFit
    <2>6. \A r \in Lock("product", ProductsIn(DeletedCategories(o)), "Update") : Fits(x, step, r)
      BY <1>15, <1>2, <1>4, <2>3, <2>4, LocksFit
    <2> QED  BY <2>2, <2>5, <2>6
  <1> QED
    BY <1>5, <1>6, <1>7, <1>8, <1>9, <1>10, <1>11, <1>12, <1>13, <1>14, <1>15
    DEF LockingSteps, SingleRowSteps, KeySteps, UnorderedSteps

(* It goes after every lock it always takes. *)
LEMMA FixedWanted ==
  ASSUME NEW t \in Tx, NEW step \in FixedSteps, NEW l \in Fixed(tx[t], step)
  PROVE  \E r \in Wanted(t, step) : r.what = l.what /\ r.mode = l.mode
  <1>1. ASSUME NEW class, NEW ids, NEW mode, l \in Locks(class, ids, mode)
        PROVE  \E r \in Lock(class, ids, mode) : r.what = l.what /\ r.mode = l.mode
    <2>1. PICK i \in ids : l = [what |-> <<class, i>>, mode |-> mode]
      BY <1>1 DEF Locks
    <2> DEFINE r == [what |-> <<class, i>>, mode |-> mode, under |-> Gone]
    <2>2. r \in Lock(class, ids, mode)
      BY DEF Lock
    <2>3. r.what = l.what /\ r.mode = l.mode
      BY <2>1
    <2> QED  BY <2>2, <2>3
  <1>2. \E class, ids, mode :
          Fixed(tx[t], step) = Locks(class, ids, mode) /\ Wanted(t, step) = Lock(class, ids, mode)
    <2>1. CASE step = "advisoryMenu"  BY <2>1 DEF Fixed, Wanted
    <2>2. CASE step = "advisoryCategory"  BY <2>2 DEF Fixed, Wanted
    <2>3. CASE step = "lockProduct"  BY <2>3 DEF Fixed, Wanted
    <2>4. CASE step = "lockCategory"  BY <2>4 DEF Fixed, Wanted
    <2>5. CASE step = "lockMenu"  BY <2>5 DEF Fixed, Wanted
    <2> QED  BY <2>1, <2>2, <2>3, <2>4, <2>5 DEF FixedSteps
  <1> QED  BY <1>1, <1>2

(* A statement goes after whatever it needs and does not have. *)
LEMMA NeedsWanted ==
  ASSUME WriterTypeOK, NEW t \in Tx, Sound(tx[t]),
         NEW step \in LockingSteps, Here(tx[t], step), NEW l \in Needs(tx[t], step)
  PROVE  l \in tx[t].held \/ \E r \in Wanted(t, step) : r.what = l.what /\ r.mode = l.mode
  <1> DEFINE x == tx[t]
             o == x.op
  <1>1. x \in Transaction /\ x.pc \in Nat \ {0} /\ o.kind \in Kinds /\ o.category \in Category
    BY DEF WriterTypeOK, Transaction, Operation, Kinds
  <1>2. ASSUME NEW class, NEW ids, NEW mode, l \in Locks(class, ids, mode)
        PROVE  /\ \E i \in ids : l.what = <<class, i>> /\ l.mode = mode
               /\ \E r \in Lock(class, ids, mode) : r.what = l.what /\ r.mode = l.mode
               /\ \E r \in LockUnder(class, ids, mode) : r.what = l.what /\ r.mode = l.mode
    <2>1. PICK i \in ids : l = [what |-> <<class, i>>, mode |-> mode]
      BY <1>2 DEF Locks
    <2> DEFINE r == [what |-> <<class, i>>, mode |-> mode, under |-> Gone]
               u == [what |-> <<class, i>>, mode |-> mode, under |-> Parent(<<class, i>>)]
    <2>2. r \in Lock(class, ids, mode) /\ u \in LockUnder(class, ids, mode)
      BY DEF Lock, LockUnder
    <2>3. r.what = l.what /\ r.mode = l.mode /\ u.what = l.what /\ u.mode = l.mode
      BY <2>1
    <2> QED  BY <2>1, <2>2, <2>3
  <1>3. CASE step \in FixedSteps
    <2>1. l \in Fixed(x, step)
      BY <1>3 DEF Needs, FixedSteps
    <2> QED  BY <1>3, <2>1, FixedWanted
  <1>4. CASE step = "checkCategoryKey"
    <2>1. o.kind \in Placers /\ l = KeyLock(x) /\ Replaces(x)
      BY <1>1, <1>4, StepOwners DEF Needs, FixedSteps
    <2>2. Wanted(t, step) = Lock("category", {o.category}, "KeyShare")
      <3>1. \/ o.kind = "CreateProduct"
            \/ \E p \in LockedProducts(t) : categoryOf[p] # o.category
        BY <2>1 DEF Replaces, LockedProducts, Locked, LockedBy
      <3> QED  BY <1>4, <3>1 DEF Wanted
    <2>3. l \in Locks("category", {o.category}, "KeyShare")
      BY <2>1 DEF Locks, KeyLock
    <2> QED  BY <1>2, <2>2, <2>3
  <1>5. CASE step = "lockCategories"
    <2>1. l \in Locks("category", {c \in CategoriesIn(o.menu) : o.kind = "DeleteMenu"}, "Update")
      BY <1>5 DEF Needs, FixedSteps
    <2>2. o.kind = "DeleteMenu"
      BY <2>1 DEF Locks
    <2>3. l \in Locks("category", CategoriesIn(o.menu), "Update")
      BY <2>1 DEF Locks
    <2>4. Wanted(t, step) = LockUnder("category", CategoriesIn(o.menu), "Update")
      BY <1>5, <2>2 DEF Wanted
    <2> QED  BY <1>2, <2>3, <2>4
  <1>6. CASE step = "lockProducts"
    <2>1. l \in Locks("product", {p \in ProductsIn({o.category}) : o.kind = "DeleteCategory"}, "Update")
      BY <1>6 DEF Needs, FixedSteps
    <2>2. o.kind = "DeleteCategory"
      BY <2>1 DEF Locks
    <2>3. l \in Locks("product", ProductsIn({o.category}), "Update")
      BY <2>1 DEF Locks
    <2>4. DeletedCategories(o) = {o.category}
      BY <2>2 DEF DeletedCategories
    <2>5. Wanted(t, step) = LockUnder("product", ProductsIn({o.category}), "Update")
      BY <1>6, <2>2, <2>4 DEF Wanted
    <2> QED  BY <1>2, <2>3, <2>5
  <1>7. CASE step = "cascade"
    <2> DEFINE ps == ProductsIn(DeletedCategories(o))
    <2>1. l \in Locks("product", ps, "Update")
      BY <1>7 DEF Needs, FixedSteps
    <2>2. PICK p \in ps : l = [what |-> <<"product", p>>, mode |-> "Update"]
      BY <2>1 DEF Locks
    <2>3. CASE LockedBy(x, <<"product", p>>)
      <3>1. PICK k \in x.held : k.what = <<"product", p>>
        BY <2>3 DEF LockedBy
      <3>2. k.mode = "Update"
        BY <1>1, <1>7, <3>1, StepOwners DEF Sound, WellFormed
      <3>3. k \in [what : Lockable, mode : Mode]
        BY <1>1 DEF Transaction
      <3>4. k = l
        BY <2>2, <3>1, <3>2, <3>3
      <3> QED  BY <3>4
    <2>4. CASE ~LockedBy(x, <<"product", p>>)
      <3>1. PICK r \in Lock("product", ps, "Update") : r.what = l.what /\ r.mode = l.mode
        BY <1>2, <2>1
      <3>2. ~Locked(t, r.what)
        BY <2>2, <2>4, <3>1 DEF Locked, LockedBy
      <3>3. r \in Wanted(t, step)
        BY <1>7, <3>1, <3>2 DEF Wanted
      <3> QED  BY <3>1, <3>3
    <2> QED  BY <2>3, <2>4
  <1>8. CASE step \notin FixedSteps \cup {"checkCategoryKey", "lockCategories", "lockProducts", "cascade"}
    BY <1>8 DEF Needs
  <1> QED  BY <1>3, <1>4, <1>5, <1>6, <1>7, <1>8

-----------------------------------------------------------------------------
(* One transaction goes on, and the rows stay.                             *)

(* Where a transaction is, after it moved on. *)
LEMMA MovedOn ==
  ASSUME NEW x, NEW y, x.op = y.op, x.outcome = "running", y.outcome = "running",
         x.pc \in Nat \ {0}, x.pc <= Len(StepsOf(x)), y.pc = x.pc + 1, NEW step
  PROVE  Past(y, step) <=> Past(x, step) \/ Here(x, step)
  BY DEF Past, Here, StepsOf

LEMMA StaysThere ==
  ASSUME NEW x, NEW y, x.op = y.op, x.outcome = y.outcome, x.pc = y.pc, NEW step
  PROVE  (Past(y, step) <=> Past(x, step)) /\ (Here(y, step) <=> Here(x, step))
  BY DEF Past, Here, StepsOf

LEMMA NeedsKept ==
  ASSUME NEW x, NEW y, x.op = y.op, NEW step \in LockingSteps,
         step = "advisoryMenu" => x.menu = y.menu,
         step = "checkCategoryKey" =>
           \A p \in Product : LockedBy(y, <<"product", p>>) => LockedBy(x, <<"product", p>>)
  PROVE  Needs(y, step) \subseteq Needs(x, step)
  <1>1. CASE step = "checkCategoryKey"
    BY <1>1 DEF Needs, FixedSteps, Replaces, KeyLock
  <1>2. CASE step # "checkCategoryKey"
    BY <1>2 DEF Needs, Fixed, FixedSteps
  <1> QED  BY <1>1, <1>2

(* A transaction that passed a statement, holding all the statement needs. *)
LEMMA Passed ==
  ASSUME NEW x \in Transaction, Sound(x), NEW y \in Transaction, NEW step, Here(x, step),
         x.todo = <<>>, y.todo = <<>>, y.op = x.op, y.outcome = "running", y.pc = x.pc + 1,
         y.held = x.held,
         y.menu = x.menu \/ (x.op.kind \in Placers /\ step = "readMenu"),
         y.priced = x.priced \/ \A p \in y.priced : LockedBy(x, <<"product", p>>),
         step \in LockingSteps => Needs(x, step) \subseteq x.held,
         x.op.kind \in {"CreateCategory", "MoveCategory"} /\ x.pc = 3 => x.op.menu \in menus
  PROVE  Sound(y)
  <1>1. x.outcome = "running" /\ x.pc \in Nat \ {0} /\ x.pc <= Len(StepsOf(x)) /\ x.op.kind \in Kinds
    BY DEF Here, Transaction, Operation, Kinds
  <1>2. \A s : Past(y, s) <=> Past(x, s) \/ s = step
    BY <1>1, MovedOn DEF Here
  <1>3. Pending(y) = {}
    BY DEF Pending
  <1>4. \A what : LockedBy(y, what) <=> LockedBy(x, what)
    BY DEF LockedBy
  <1>5. WellFormed(y)
    BY <1>1, <1>3, <1>4 DEF Sound, WellFormed
  <1>6. Has(y)
    <2> SUFFICES ASSUME NEW s \in LockingSteps, NEW l \in Needs(y, s), Past(y, s)
                 PROVE  l \in x.held
      BY DEF Has, Begun
    <2>1. s = "advisoryMenu" => x.menu = y.menu
      <3>1. CASE x.op.kind \in Placers /\ step = "readMenu"
        <4>1. x.pc = 1
          BY <1>1, <3>1, PlacerSteps
        <4>2. ~Past(x, s) /\ s # step
          BY <3>1, <4>1 DEF Past, LockingSteps, SingleRowSteps, KeySteps, UnorderedSteps
        <4> QED  BY <1>2, <4>2
      <3>2. CASE y.menu = x.menu
        BY <3>2
      <3> QED  BY <3>1, <3>2
    <2>2. l \in Needs(x, s)
      BY <1>4, <2>1, NeedsKept
    <2>3. CASE Past(x, s)
      BY <2>2, <2>3 DEF Sound, Has
    <2>4. CASE s = step
      BY <2>2, <2>4
    <2> QED  BY <1>2, <2>3, <2>4
  <1>7. UnderDeleted(y) /\ OnlyCounted(y)
    BY <1>3, <1>4 DEF Sound, UnderDeleted, OnlyCounted, Begun
  <1>8. RowsThere(y) /\ CreatesNew(y)
    BY <1>1 DEF Sound, RowsThere, CreatesNew
  <1>9. MenuStands(y)
    BY <1>1 DEF Sound, MenuStands
  <1> QED  BY <1>5, <1>6, <1>7, <1>8, <1>9 DEF Sound

(* A transaction that holds nothing and is past nothing. *)
LEMMA Empty ==
  ASSUME NEW x \in Transaction, Sound(x), NEW y \in Transaction, y.op = x.op,
         y.held = {}, y.todo = <<>>,
         \/ y.outcome # "running" /\ y.menu = x.menu
         \/ y.outcome = x.outcome /\ y.pc = 1 /\ y.menu = x.op.menu /\ y.priced = {}
  PROVE  Sound(y)
  <1>1. \A s : ~Past(y, s)
    BY DEF Past
  <1>2. Pending(y) = {} /\ \A what : ~LockedBy(y, what)
    BY DEF Pending, LockedBy
  <1>3. WellFormed(y)
    BY <1>2 DEF Sound, WellFormed
  <1>4. Has(y) /\ UnderDeleted(y)
    BY <1>1, <1>2 DEF Has, UnderDeleted, Begun
  <1>5. OnlyCounted(y) /\ RowsThere(y)
    BY <1>2 DEF OnlyCounted, RowsThere
  <1>6. CreatesNew(y) /\ MenuStands(y)
    BY DEF Sound, CreatesNew, MenuStands
  <1> QED  BY <1>3, <1>4, <1>5, <1>6 DEF Sound

(* A locking statement that took its snapshot. *)
LEMMA Began ==
  ASSUME WriterTypeOK, NEW t \in Tx, Sound(tx[t]), NEW step \in LockingSteps, Here(tx[t], step),
         tx[t].todo = <<>>, NEW q \in Seq(Wanted(t, step)), {q[i] : i \in 1..Len(q)} = Wanted(t, step),
         NEW y, y = [tx[t] EXCEPT !.todo = q]
  PROVE  y \in Transaction /\ Sound(y)
  <1> DEFINE x == tx[t]
             o == x.op
  <1>1. x \in Transaction /\ x.outcome = "running" /\ x.pc \in Nat \ {0} /\ o.kind \in Kinds
    BY DEF WriterTypeOK, Here, Transaction, Operation, Kinds
  <1>2. \A r \in Wanted(t, step) : Fits(x, step, r)
    BY WantedFits
  <1>3. q \in Seq(LockRequest)
    <2>1. Wanted(t, step) \subseteq LockRequest
      BY <1>2 DEF Fits
    <2> QED  BY <2>1
  <1>4. /\ y \in Transaction /\ y.todo = q /\ y.op = o /\ y.held = x.held /\ y.menu = x.menu
        /\ y.pc = x.pc /\ y.outcome = x.outcome /\ y.priced = x.priced
    BY <1>1, <1>3 DEF Transaction
  <1>5. \A s : (Past(y, s) <=> Past(x, s)) /\ (Here(y, s) <=> s = step)
    <2>1. ASSUME NEW s  PROVE  (Past(y, s) <=> Past(x, s)) /\ (Here(y, s) <=> Here(x, s))
      BY <1>4 DEF Past, Here, StepsOf
    <2>2. \A s : Here(x, s) <=> s = step
      BY DEF Here
    <2> QED  BY <2>1, <2>2
  <1>6. Pending(y) = Wanted(t, step)
    BY <1>4 DEF Pending
  <1>7. \A what : LockedBy(y, what) <=> LockedBy(x, what)
    BY <1>4 DEF LockedBy
  <1>8. WellFormed(y)
    <2>1. \A r \in Pending(y) : Fits(y, step, r)
      BY <1>2, <1>4, <1>6 DEF Fits
    <2> QED  BY <1>1, <1>4, <1>5, <1>7, <2>1 DEF Sound, WellFormed
  <1>9. Has(y)
    <2> SUFFICES ASSUME NEW s \in LockingSteps, NEW l \in Needs(y, s)
                 PROVE  /\ Past(y, s) => l \in y.held
                        /\ Begun(y, s) => HasOrAwaits(y, l)
      BY DEF Has
    <2>1. l \in Needs(x, s)
      BY <1>4, <1>7, NeedsKept
    <2>2. Past(y, s) => l \in y.held
      BY <1>4, <1>5, <2>1 DEF Sound, Has
    <2>3. Begun(y, s) => HasOrAwaits(y, l)
      BY <1>4, <1>5, <1>6, <2>1, NeedsWanted DEF Begun, HasOrAwaits
    <2> QED  BY <2>2, <2>3
  <1>10. UnderDeleted(y)
    <2>1. ASSUME o.kind = "DeleteMenu", step = "lockCategories", NEW r \in Wanted(t, step)
          PROVE  r.under = o.menu
      <3>1. r \in LockUnder("category", CategoriesIn(o.menu), "Update")
        BY <2>1 DEF Wanted
      <3>2. PICK c \in CategoriesIn(o.menu) :
              r = [what |-> <<"category", c>>, mode |-> "Update", under |-> Parent(<<"category", c>>)]
        BY <3>1 DEF LockUnder
      <3> QED  BY <3>2 DEF Parent, CategoriesIn
    <2>2. ASSUME o.kind = "DeleteCategory", NEW r \in Wanted(t, step), r.what[1] = "product"
          PROVE  r.under = o.category
      <3>1. DeletedCategories(o) = {o.category}
        BY <2>2 DEF DeletedCategories
      <3>2. CASE step = "lockProducts"
        <4>1. r \in LockUnder("product", ProductsIn({o.category}), "Update")
          BY <2>2, <3>1, <3>2 DEF Wanted
        <4>2. PICK p \in ProductsIn({o.category}) :
                r = [what |-> <<"product", p>>, mode |-> "Update", under |-> Parent(<<"product", p>>)]
          BY <4>1 DEF LockUnder
        <4> QED  BY <4>2 DEF Parent, ProductsIn
      <3>3. CASE step = "cascade"
        <4>1. r \in Lock("product", ProductsIn({o.category}), "Update") /\ ~Locked(t, r.what)
          <5>1. /\ ~Locked(t, r.what)
                /\ r \in Lock("category", {o.category}, "Update")
                           \cup Lock("product", ProductsIn({o.category}), "Update")
            BY <2>2, <3>1, <3>3 DEF Wanted
          <5>2. r \notin Lock("category", {o.category}, "Update")
            BY <2>2 DEF Lock
          <5> QED  BY <5>1, <5>2
        <4>2. PICK p \in ProductsIn({o.category}) :
                r = [what |-> <<"product", p>>, mode |-> "Update", under |-> Gone]
          BY <4>1 DEF Lock
        <4>3. Past(x, "lockProducts")
          BY <1>1, <2>2, <3>3, DeleteCategorySteps_
        <4>4. [what |-> <<"product", p>>, mode |-> "Update"] \in Needs(x, "lockProducts")
          BY <2>2 DEF Needs, FixedSteps, Locks
        <4>5. [what |-> <<"product", p>>, mode |-> "Update"] \in x.held
          BY <4>3, <4>4 DEF Sound, Has, LockingSteps
        <4> QED  BY <4>1, <4>2, <4>5 DEF Locked
      <3>4. step \in {"lockProducts", "cascade", "lockProduct"}
        BY <1>2, <2>2 DEF Fits, ClassesOf, LockingSteps, SingleRowSteps, KeySteps, UnorderedSteps
      <3>5. step # "lockProduct"
        BY <1>1, <2>2, StepOwners
      <3> QED  BY <3>2, <3>3, <3>4, <3>5
    <2> QED  BY <1>4, <1>5, <1>6, <2>1, <2>2 DEF UnderDeleted, Begun
  <1>11. OnlyCounted(y) /\ RowsThere(y) /\ CreatesNew(y) /\ MenuStands(y)
    BY <1>4, <1>7 DEF Sound, OnlyCounted, RowsThere, CreatesNew, MenuStands
  <1> QED  BY <1>4, <1>8, <1>9, <1>10, <1>11 DEF Sound

LEMMA NeedsTyped ==
  ASSUME WriterTypeOK, NEW x \in Transaction, NEW step, NEW l \in Needs(x, step)
  PROVE  l \in [what : Lockable, mode : Mode]
  <1>1. /\ x.menu \in Menu /\ x.op.menu \in Menu /\ x.op.category \in Category /\ x.op.products \subseteq Product
    BY DEF Transaction, Operation
  <1>2. /\ \A m \in Menu : <<"menuAdvisory", m>> \in Lockable /\ <<"menu", m>> \in Lockable
        /\ \A c \in Category : <<"categoryAdvisory", c>> \in Lockable /\ <<"category", c>> \in Lockable
        /\ \A p \in Product : <<"product", p>> \in Lockable
    BY DEF Lockable
  <1>3. ASSUME NEW class, NEW ids, NEW mode \in Mode, \A i \in ids : <<class, i>> \in Lockable
        PROVE  Locks(class, ids, mode) \subseteq [what : Lockable, mode : Mode]
    BY <1>3 DEF Locks
  <1>4. CASE step = "advisoryMenu"
    BY <1>1, <1>2, <1>3, <1>4 DEF Needs, Fixed, FixedSteps, Mode
  <1>5. CASE step = "advisoryCategory"
    BY <1>1, <1>2, <1>3, <1>5 DEF Needs, Fixed, FixedSteps, Mode
  <1>6. CASE step = "lockProduct"
    BY <1>1, <1>2, <1>3, <1>6 DEF Needs, Fixed, FixedSteps, Mode
  <1>7. CASE step = "lockCategory"
    BY <1>1, <1>2, <1>3, <1>7 DEF Needs, Fixed, FixedSteps, Mode
  <1>8. CASE step = "lockMenu"
    BY <1>1, <1>2, <1>3, <1>8 DEF Needs, Fixed, FixedSteps, Mode
  <1>9. CASE step = "checkCategoryKey"
    <2>1. l = KeyLock(x)
      BY <1>9 DEF Needs, FixedSteps
    <2>2. <<"category", x.op.category>> \in Lockable /\ "KeyShare" \in Mode
      BY <1>1, <1>2 DEF Mode
    <2> QED  BY <2>1, <2>2 DEF KeyLock
  <1>10. CASE step = "lockCategories"
    BY <1>2, <1>3, <1>10 DEF Needs, FixedSteps, CategoriesIn, Mode
  <1>11. CASE step = "lockProducts"
    BY <1>2, <1>3, <1>11 DEF Needs, FixedSteps, ProductsIn, Mode
  <1>12. CASE step = "cascade"
    <2>1. ProductsIn(DeletedCategories(x.op)) \subseteq Product /\ "Update" \in Mode
      BY DEF ProductsIn, Mode
    <2>2. l \in Locks("product", ProductsIn(DeletedCategories(x.op)), "Update")
      BY <1>12 DEF Needs, FixedSteps
    <2> QED  BY <1>2, <1>3, <2>1, <2>2
  <1> QED
    BY <1>4, <1>5, <1>6, <1>7, <1>8, <1>9, <1>10, <1>11, <1>12 DEF Needs, FixedSteps

(* The row an Acquire found to be there still, below the same parent. *)
Found(r) == Exists(r.what) /\ (r.under # Gone => Parent(r.what) = r.under)

(* A row that is needed is found. *)
LEMMA NeededIsFound ==
  ASSUME WriterTypeOK, NEW x \in Transaction, Sound(x), NEW step \in LockingSteps, Begun(x, step),
         step \notin SingleRowSteps \cup KeySteps,
         NEW r \in Pending(x), NEW l \in Needs(x, step), l.what = r.what
  PROVE  Found(r)
  <1>1. Fits(x, step, r) /\ Here(x, step)
    BY DEF Sound, WellFormed, Begun
  <1>2. x.op.menu \in Menu /\ x.op.category \in Category
    BY DEF Transaction, Operation
  <1>3. CASE step \in {"advisoryMenu", "advisoryCategory"}
    BY <1>1, <1>3 DEF Fits, ClassesOf, Found, Exists
  <1>4. CASE step = "lockCategories"
    <2>1. PICK c \in CategoriesIn(x.op.menu) : l.what = <<"category", c>> /\ x.op.kind = "DeleteMenu"
      BY <1>4 DEF Needs, FixedSteps, Locks
    <2>2. r.under = x.op.menu
      BY <1>4, <2>1 DEF Sound, UnderDeleted
    <2> QED  BY <1>2, <2>1, <2>2, WriterConstants DEF Found, Exists, Parent, CategoriesIn
  <1>5. CASE step = "lockProducts"
    <2>1. PICK p \in ProductsIn({x.op.category}) :
            l.what = <<"product", p>> /\ x.op.kind = "DeleteCategory"
      BY <1>5 DEF Needs, FixedSteps, Locks
    <2>2. r.under = x.op.category
      <3>1. r.what[1] = "product" /\ x.op.kind = "DeleteCategory"
        BY <2>1
      <3> QED  BY <3>1 DEF Sound, UnderDeleted
    <2>3. categoryOf[p] = x.op.category /\ categoryOf[p] # Gone
      BY <1>2, <2>1, WriterConstants DEF ProductsIn
    <2>4. r.what = <<"product", p>>
      BY <2>1
    <2> QED  BY <2>2, <2>3, <2>4 DEF Found, Exists, Parent
  <1>6. CASE step = "cascade"
    <2>1. PICK p \in ProductsIn(DeletedCategories(x.op)) : l.what = <<"product", p>>
      BY <1>6 DEF Needs, FixedSteps, Locks
    <2>2. r.under = Gone
      BY <1>1, <1>6 DEF Fits
    <2>3. DeletedCategories(x.op) \subseteq Category
      BY <1>2 DEF DeletedCategories, CategoriesIn
    <2> QED  BY <2>1, <2>2, <2>3, WriterConstants DEF Found, Exists, ProductsIn
  <1>7. CASE step = "touchMenu"
    BY <1>7 DEF Needs, FixedSteps
  <1> QED
    BY <1>3, <1>4, <1>5, <1>6, <1>7 DEF LockingSteps, SingleRowSteps, KeySteps, UnorderedSteps

LEMMA PendingTail ==
  ASSUME NEW S, NEW x, x.todo \in Seq(S), x.todo # <<>>, NEW y, y.todo = Tail(x.todo)
  PROVE  /\ Pending(x) = {Head(x.todo)} \cup Pending(y)
         /\ Len(x.todo) = 1 <=> y.todo = <<>>
         /\ y.todo = <<>> => Pending(y) = {}
         /\ Len(x.todo) \in Nat \ {0} /\ Len(y.todo) = Len(x.todo) - 1
         /\ Head(x.todo) = x.todo[1]
         /\ \A i \in 1..Len(y.todo) : y.todo[i] = x.todo[i + 1]
  <1>1. PICK q \in Seq(S) : q = x.todo /\ q # <<>>
    OBVIOUS
  <1>2. PICK w \in Seq(S) : w = Tail(q)
    <2>1. q # <<>>
      BY <1>1
    <2>2. Tail(q) \in Seq(S)
      BY <2>1
    <2> QED  BY <2>2
  <1>3. Head(q) = q[1] /\ Len(q) \in Nat \ {0} /\ Len(w) = Len(q) - 1
    BY <1>1, <1>2
  <1>4. \A i \in 1..Len(w) : w[i] = q[i + 1]
    BY <1>1, <1>2
  <1>5. Len(q) = 1 <=> w = <<>>
    <2>1. w = <<>> <=> Len(w) = 0
      OBVIOUS
    <2>2. Len(q) = 1 <=> Len(w) = 0
      BY <1>3
    <2> QED  BY <2>1, <2>2
  <1>6. Pending(x) = {q[i] : i \in 1..Len(q)} /\ Pending(y) = {w[i] : i \in 1..Len(w)}
    BY <1>1, <1>2 DEF Pending
  <1>7. \A e \in {q[i] : i \in 1..Len(q)} : e \in {q[1]} \cup {w[i] : i \in 1..Len(w)}
    <2>1. \A i \in 1..Len(q) : i = 1 \/ (i - 1 \in 1..Len(w) /\ w[i - 1] = q[i])
      BY <1>3, <1>4
    <2> QED  BY <2>1
  <1>8. \A e \in {q[1]} \cup {w[i] : i \in 1..Len(w)} : e \in {q[i] : i \in 1..Len(q)}
    <2>1. 1 \in 1..Len(q) /\ \A i \in 1..Len(w) : i + 1 \in 1..Len(q)
      BY <1>3
    <2> QED  BY <1>4, <2>1
  <1>9. {q[i] : i \in 1..Len(q)} = {q[1]} \cup {w[i] : i \in 1..Len(w)}
    BY <1>7, <1>8
  <1>10. w = <<>> => {w[i] : i \in 1..Len(w)} = {}
    <2>1. w = <<>> => 1..Len(w) = {}
      OBVIOUS
    <2> QED  BY <2>1, Zenon
  <1>11. y.todo = w
    BY <1>1, <1>2
  <1> QED  BY <1>1, <1>3, <1>4, <1>5, <1>6, <1>9, <1>10, <1>11

(* A lock taken, or a row passed over that is gone. *)
LEMMA Took ==
  ASSUME WriterTypeOK, NEW t \in Tx, Sound(tx[t]), tx[t].outcome = "running", tx[t].todo # <<>>,
         NEW r, r = Head(tx[t].todo),
         ~Found(r) => \A s \in SingleRowSteps \cup KeySteps : ~Here(tx[t], s),
         NEW y, y.op = tx[t].op, y.outcome = "running", y.menu = tx[t].menu, y.priced = tx[t].priced,
         y \in Transaction,
         y.todo = Tail(tx[t].todo),
         y.pc = IF Len(tx[t].todo) = 1 THEN tx[t].pc + 1 ELSE tx[t].pc,
         y.held = IF Found(r) THEN tx[t].held \cup {[what |-> r.what, mode |-> r.mode]} ELSE tx[t].held
  PROVE  Sound(y)
  <1> DEFINE x == tx[t]
             o == x.op
  <1>1. /\ x \in Transaction /\ x.pc \in Nat \ {0} /\ o.kind \in Kinds /\ x.todo \in Seq(LockRequest)
        /\ o.category \in Category
    BY DEF WriterTypeOK, Transaction, Operation, Kinds
  <1>2. PICK step \in LockingSteps : Here(x, step)
    BY DEF Sound, WellFormed
  <1>3. /\ r \in Pending(x)
        /\ Pending(x) = {r} \cup Pending(y)
        /\ Len(x.todo) = 1 <=> y.todo = <<>>
        /\ y.todo = <<>> => Pending(y) = {}
    <2>1. /\ Pending(x) = {Head(x.todo)} \cup Pending(y)
          /\ Len(x.todo) = 1 <=> y.todo = <<>>
          /\ y.todo = <<>> => Pending(y) = {}
      <3>1. x.todo \in Seq(LockRequest) /\ x.todo # <<>> /\ y.todo = Tail(x.todo)
        BY <1>1
      <3> HIDE DEF x
      <3> QED  BY <3>1, PendingTail
    <2> QED  BY <2>1
  <1>4. Fits(x, step, r)
    BY <1>2, <1>3 DEF Sound, WellFormed
  <1>5. Begun(x, step) /\ \A s : Here(x, s) <=> s = step
    BY <1>2 DEF Begun, Here
  <1>6. /\ \A s : Past(y, s) <=> Past(x, s) \/ (Len(x.todo) = 1 /\ s = step)
        /\ \A s : Begun(y, s) => s = step /\ Len(x.todo) # 1
    <2>1. CASE Len(x.todo) = 1
      <3>1. \A s : Past(y, s) <=> Past(x, s) \/ Here(x, s)
        BY <1>1, <1>2, <2>1 DEF Past, Here, StepsOf
      <3> QED  BY <1>3, <1>5, <2>1, <3>1 DEF Begun
    <2>2. CASE Len(x.todo) # 1
      <3>1. \A s : (Past(y, s) <=> Past(x, s)) /\ (Here(y, s) <=> Here(x, s))
        BY <2>2 DEF Past, Here, StepsOf
      <3> QED  BY <1>5, <2>2, <3>1 DEF Begun
    <2> QED  BY <2>1, <2>2
  <1>7. /\ \A what : LockedBy(x, what) => LockedBy(y, what)
        /\ \A what : LockedBy(y, what) => LockedBy(x, what) \/ (Found(r) /\ what = r.what)
    BY DEF LockedBy
  <1>8. WellFormed(y)
    <2>1. y.todo # <<>> => Here(y, step)
      BY <1>2, <1>3 DEF Here, StepsOf
    <2>2. \A s : Here(y, s) => \A q \in Pending(y) : Fits(y, s, q)
      <3>1. ASSUME NEW s, Here(y, s), NEW q \in Pending(y)  PROVE  Fits(y, s, q)
        <4>1. y.todo # <<>>
          BY <1>3, <3>1
        <4>2. s = step
          BY <1>6, <3>1, <4>1 DEF Begun
        <4>3. Fits(x, step, q)
          BY <1>2, <1>3 DEF Sound, WellFormed
        <4> QED  BY <4>2, <4>3 DEF Fits
      <3> QED  BY <3>1
    <2>3. \A l \in y.held :
            /\ l.what[1] = "product" => l.mode \in {"NoKeyUpdate", "Update"}
            /\ l.what[1] \in {"product", "category"} /\ o.kind \in Deleters => l.mode = "Update"
            /\ l.what[1] = "product" /\ o.kind \in {"ReorderProducts", "DeleteProduct"} =>
                 l.mode = "Update"
      BY <1>4 DEF Sound, WellFormed, Fits
    <2>4. \A p \in y.priced : LockedBy(y, <<"product", p>>)
      BY <1>7 DEF Sound, WellFormed
    <2> QED  BY <2>1, <2>2, <2>3, <2>4 DEF Sound, WellFormed
  <1>9. ASSUME NEW l \in Needs(x, step)
        PROVE  HasOrAwaits(y, l)
    <2>1. CASE l \in x.held
      BY <2>1 DEF HasOrAwaits
    <2>2. CASE \E q \in Pending(y) : q.what = l.what /\ q.mode = l.mode
      BY <2>2 DEF HasOrAwaits
    <2>3. CASE r.what = l.what /\ r.mode = l.mode
      <3>1. Found(r)
        BY <1>1, <1>3, <1>5, <2>3, NeededIsFound
      <3>2. l \in [what : Lockable, mode : Mode]
        BY <1>1, NeedsTyped
      <3>3. l = [what |-> r.what, mode |-> r.mode]
        BY <2>3, <3>2
      <3> QED  BY <3>1, <3>3 DEF HasOrAwaits
    <2> QED  BY <1>3, <1>5, <2>1, <2>2, <2>3 DEF Sound, Has, HasOrAwaits
  <1>10. Has(y)
    <2> SUFFICES ASSUME NEW s \in LockingSteps, NEW l \in Needs(y, s), Past(y, s) \/ Begun(y, s)
                 PROVE  /\ Past(y, s) => l \in y.held
                        /\ Begun(y, s) => HasOrAwaits(y, l)
      BY DEF Has
    <2>1. ASSUME s = "checkCategoryKey"
          PROVE  \A p \in Product : LockedBy(y, <<"product", p>>) => LockedBy(x, <<"product", p>>)
      <3>1. step = s \/ Past(x, s)
        BY <1>6
      <3>2. step = "touchMenu" \/ step = "checkCategoryKey"
        BY <1>1, <1>2, <2>1, <3>1, StepOwners, PlacerSteps
      <3>3. r.what[1] # "product"
        BY <1>4, <3>2 DEF Fits, ClassesOf
      <3> QED  BY <1>7, <3>3
    <2>2. l \in Needs(x, s)
      BY <2>1, NeedsKept
    <2>3. Past(x, s) => l \in y.held
      BY <2>2 DEF Sound, Has
    <2>4. s = step => HasOrAwaits(y, l)
      BY <1>9, <2>2
    <2>5. Len(x.todo) = 1 /\ s = step => l \in y.held
      BY <1>3, <2>4 DEF HasOrAwaits
    <2> QED  BY <1>6, <2>3, <2>4, <2>5
  <1>11. UnderDeleted(y)
    BY <1>3, <1>5, <1>6 DEF Sound, UnderDeleted
  <1>12. OnlyCounted(y)
    <2> SUFFICES ASSUME o.kind = "DeleteCategory", NEW p \in Product, r.what = <<"product", p>>, Found(r)
                 PROVE  categoryOf[p] = o.category
      BY <1>7 DEF Sound, OnlyCounted
    <2>1. r.what[1] = "product" /\ r.what[2] = p
      OBVIOUS
    <2>2. r.under = o.category
      BY <1>3, <2>1 DEF Sound, UnderDeleted
    <2>3. Parent(r.what) = o.category
      BY <1>1, <2>2, WriterConstants DEF Found
    <2> QED  BY <2>1, <2>3 DEF Parent
  <1>13. RowsThere(y)
    BY DEF Sound, RowsThere, Found
  <1>14. CreatesNew(y)
    BY DEF Sound, CreatesNew
  <1>15. MenuStands(y)
    <2>1. o.kind \in {"CreateCategory", "MoveCategory"} => x.pc # 3
      BY <1>1, <1>2, CategoryWriterSteps DEF Here, LockingSteps, SingleRowSteps, KeySteps, UnorderedSteps
    <2> QED  BY <1>1, <2>1 DEF Sound, MenuStands
  <1> QED  BY <1>8, <1>10, <1>11, <1>12, <1>13, <1>14, <1>15 DEF Sound

-----------------------------------------------------------------------------
(* Every action but Commit.                                                *)

(* The transaction of t becomes y, which took no lock another one minds. *)
Goes(t, y) ==
  /\ tx' = [tx EXCEPT ![t] = y]
  /\ y.op = tx[t].op
  /\ \A l \in y.held :
       \/ l \in tx[t].held
       \/ \A u \in Tx \ {t} : \A k \in tx[u].held : k.what = l.what => ~Conflicts(k.mode, l.mode)

LEMMA Ends ==
  ASSUME WriterTypeOK, NEW t \in Tx, Sound(tx[t]), NEW outcome, outcome # "running",
         outcome \in {"running", "ok", "notFound", "parentNotFound", "foreignKey", "conflict"},
         End(t, outcome)
  PROVE  \E y \in Transaction : /\ Goes(t, y) /\ Sound(y) /\ y.outcome = outcome
                               /\ y.held = {} /\ y.todo = <<>> /\ y.menu = tx[t].menu
  <1>1. PICK x \in Transaction : x = tx[t]
    BY DEF WriterTypeOK
  <1>2. PICK y : y = [op |-> x.op, pc |-> x.pc, todo |-> <<>>, held |-> {}, menu |-> x.menu,
                      priced |-> x.priced, run |-> x.run, attempt |-> x.attempt, outcome |-> outcome]
    OBVIOUS
  <1>3. y \in Transaction
    BY <1>2 DEF Transaction
  <1>4. tx' = [tx EXCEPT ![t] = y]
    <2>1. tx'[t] = y
      BY <1>1, <1>2 DEF End, WriterTypeOK, Transaction
    <2> QED  BY <2>1 DEF End, WriterTypeOK
  <1>5. Sound(y)
    BY <1>1, <1>2, <1>3, Empty
  <1> QED  BY <1>1, <1>2, <1>3, <1>4, <1>5 DEF Goes

LEMMA StartsOver ==
  ASSUME WriterTypeOK, NEW t \in Tx, Sound(tx[t]), NEW run \in Nat, NEW attempt \in Nat,
         StartOver(t, run, attempt)
  PROVE  \E y \in Transaction :
           /\ Goes(t, y) /\ Sound(y) /\ y.pc = 1 /\ y.held = {} /\ y.todo = <<>>
           /\ y.priced = {} /\ y.outcome = tx[t].outcome
  <1>1. PICK x \in Transaction : x = tx[t]
    BY DEF WriterTypeOK
  <1>2. PICK y : y = [op |-> x.op, pc |-> 1, todo |-> <<>>, held |-> {}, menu |-> x.op.menu,
                      priced |-> {}, run |-> run, attempt |-> attempt, outcome |-> x.outcome]
    OBVIOUS
  <1>3. y \in Transaction
    <2>1. x.op.menu \in Menu
      BY DEF Transaction, Operation
    <2> QED  BY <1>2, <2>1 DEF Transaction
  <1>4. tx' = [tx EXCEPT ![t] = y]
    <2>1. tx'[t] = y
      BY <1>1, <1>2 DEF StartOver, WriterTypeOK, Transaction
    <2> QED  BY <2>1 DEF StartOver, WriterTypeOK
  <1>5. Sound(y)
    BY <1>1, <1>2, <1>3, Empty
  <1> QED  BY <1>1, <1>2, <1>3, <1>4, <1>5 DEF Goes

(* A statement passed, having what it needs: it may have read a menu or prices. *)
MovedTo(x, menu, priced) == [x EXCEPT !.menu = menu, !.priced = priced, !.pc = x.pc + 1]

LEMMA Passes ==
  ASSUME WriterTypeOK, NEW t \in Tx, Sound(tx[t]), NEW step, Here(tx[t], step), tx[t].todo = <<>>,
         NEW menu \in Menu, NEW priced \in SUBSET Product,
         tx' = [tx EXCEPT ![t] = MovedTo(tx[t], menu, priced)],
         menu = tx[t].menu \/ (tx[t].op.kind \in Placers /\ step = "readMenu"),
         priced = tx[t].priced \/ \A p \in priced : LockedBy(tx[t], <<"product", p>>),
         step \in LockingSteps => Needs(tx[t], step) \subseteq tx[t].held,
         tx[t].op.kind \in {"CreateCategory", "MoveCategory"} /\ tx[t].pc = 3 => tx[t].op.menu \in menus
  PROVE  \E y \in Transaction :
           /\ Goes(t, y) /\ Sound(y) /\ y.outcome = "running" /\ y.pc = tx[t].pc + 1
           /\ y.held = tx[t].held /\ y.todo = <<>> /\ y.menu = menu /\ y.priced = priced
  <1>1. PICK x \in Transaction : x = tx[t]
    BY DEF WriterTypeOK
  <1>2. PICK y : y = [op |-> x.op, pc |-> x.pc + 1, todo |-> x.todo, held |-> x.held, menu |-> menu,
                      priced |-> priced, run |-> x.run, attempt |-> x.attempt, outcome |-> x.outcome]
    OBVIOUS
  <1>3. y \in Transaction
    BY <1>2 DEF Transaction
  <1>4. tx' = [tx EXCEPT ![t] = y]
    <2>1. tx'[t] = y
      BY <1>1, <1>2 DEF MovedTo, WriterTypeOK, Transaction
    <2> QED  BY <2>1 DEF WriterTypeOK
  <1>5. x.outcome = "running"
    BY <1>1 DEF Here
  <1>6. Sound(y)
    BY <1>1, <1>2, <1>3, <1>5, Passed
  <1> QED  BY <1>1, <1>2, <1>3, <1>4, <1>5, <1>6 DEF Goes

(* No reading statement locks, none is in the middle of one that does. *)
LEMMA ReadsHoldStill ==
  ASSUME NEW x, WellFormed(x), NEW step, Here(x, step),
         step \in {"menuOwned", "categoryOwned", "readMenu", "rereadMenu", "readPrices"}
  PROVE  x.todo = <<>> /\ step \notin LockingSteps
  BY DEF WellFormed, Here, LockingSteps, SingleRowSteps, KeySteps, UnorderedSteps

-----------------------------------------------------------------------------
(* The same steps where no category changes its menu.                      *)

LEMMA FitsRank ==
  ASSUME NEW x, NEW step \in LockingSteps, step # "cascade", NEW r, Fits(x, step, r)
  PROVE  Rank(r.what) = RankOf(step)
  BY DEF Fits, ClassesOf, RankOf, Rank, LockingSteps, SingleRowSteps, KeySteps, UnorderedSteps

(* The rows a DELETE takes along are locked when it runs. *)
LEMMA CascadeReady ==
  ASSUME WriterTypeOK, NEW t \in Tx, Sound(tx[t]), ProductsLocked(tx[t]), Here(tx[t], "cascade")
  PROVE  /\ \A c \in DeletedCategories(tx[t].op) : Locked(t, <<"category", c>>)
         /\ \A p \in ProductsIn(DeletedCategories(tx[t].op)) : Locked(t, <<"product", p>>)
  <1> DEFINE x == tx[t]
             o == x.op
  <1>1. x \in Transaction /\ x.pc \in Nat \ {0} /\ o.kind \in Deleters
    <2>1. x \in Transaction /\ x.pc \in Nat \ {0} /\ o.kind \in Kinds
      BY DEF WriterTypeOK, Transaction, Operation, Kinds
    <2> QED  BY <2>1, StepOwners
  <1>2. ASSUME NEW step \in LockingSteps, Past(x, step), NEW l \in Needs(x, step)
        PROVE  Locked(t, l.what)
    BY <1>2 DEF Sound, Has, Locked
  <1>3. CASE o.kind = "DeleteMenu"
    <2>1. Past(x, "lockProducts") /\ Past(x, "lockCategories")
      BY <1>1, <1>3, DeleteMenuSteps_
    <2>2. DeletedCategories(o) = CategoriesIn(o.menu)
      BY <1>3 DEF DeletedCategories
    <2>3. ASSUME NEW c \in CategoriesIn(o.menu)  PROVE  Locked(t, <<"category", c>>)
      <3> DEFINE l == [what |-> <<"category", c>>, mode |-> "Update"]
      <3>1. l \in Needs(x, "lockCategories")
        BY <1>3 DEF Needs, FixedSteps, Locks
      <3>2. Locked(t, l.what)
        BY <1>2, <2>1, <3>1 DEF LockingSteps
      <3> QED  BY <3>2
    <2>4. ASSUME NEW p \in ProductsIn(CategoriesIn(o.menu))  PROVE  Locked(t, <<"product", p>>)
      BY <1>3, <2>1 DEF ProductsLocked, LockedBy, Locked
    <2> QED  BY <2>2, <2>3, <2>4
  <1>4. CASE o.kind = "DeleteCategory"
    <2>1. Past(x, "lockProducts") /\ Past(x, "lockCategory")
      BY <1>1, <1>4, DeleteCategorySteps_
    <2>2. DeletedCategories(o) = {o.category}
      BY <1>4 DEF DeletedCategories
    <2>3. Locked(t, <<"category", o.category>>)
      <3> DEFINE l == [what |-> <<"category", o.category>>, mode |-> "Update"]
      <3>1. l \in Needs(x, "lockCategory")
        BY <1>4 DEF Needs, Fixed, FixedSteps, Locks
      <3>2. Locked(t, l.what)
        BY <1>2, <2>1, <3>1 DEF LockingSteps, SingleRowSteps
      <3> QED  BY <3>2
    <2>4. ASSUME NEW p \in ProductsIn({o.category})  PROVE  Locked(t, <<"product", p>>)
      <3> DEFINE l == [what |-> <<"product", p>>, mode |-> "Update"]
      <3>1. l \in Needs(x, "lockProducts")
        BY <1>4 DEF Needs, FixedSteps, Locks
      <3>2. Locked(t, l.what)
        BY <1>2, <2>1, <3>1 DEF LockingSteps
      <3> QED  BY <3>2
    <2> QED  BY <2>2, <2>3, <2>4
  <1> QED  BY <1>1, <1>3, <1>4 DEF Deleters

LEMMA CascadeWantsNothing ==
  ASSUME WriterTypeOK, NEW t \in Tx, Sound(tx[t]), ProductsLocked(tx[t]), Here(tx[t], "cascade")
  PROVE  Wanted(t, "cascade") = {}
  <1> DEFINE o == tx[t].op
  <1>1. \A l \in Lock("category", DeletedCategories(o), "Update") : Locked(t, l.what)
    BY CascadeReady DEF Lock
  <1>2. \A l \in Lock("product", ProductsIn(DeletedCategories(o)), "Update") : Locked(t, l.what)
    BY CascadeReady DEF Lock
  <1> QED  BY <1>1, <1>2 DEF Wanted

(* A repricing touches one menu. *)
LEMMA OneMenuTouched ==
  ASSUME WriterTypeOK, NEW t \in Tx, Sound(tx[t]), PricedTogether(tx[t]), tx[t].op \in Requests[t],
         Here(tx[t], "touchMenu"), NEW r \in Wanted(t, "touchMenu"), NEW q \in Wanted(t, "touchMenu")
  PROVE  r = q
  <1> DEFINE x == tx[t]
             o == x.op
  <1>1. o.kind \in {"MoveProduct", "EditProduct", "ApplyPrices"} /\ x.outcome = "running"
    <2>1. x.pc \in Nat \ {0} /\ o.kind \in Kinds
      BY DEF WriterTypeOK, Transaction, Operation, Kinds
    <2> QED  BY <2>1, StepOwners DEF Here
  <1>2. PICK ms : /\ \A m, n \in ms : m = n
                  /\ Wanted(t, "touchMenu") \subseteq Lock("menu", ms, "NoKeyUpdate")
    <2>1. CASE o.kind = "ApplyPrices"
      <3>1. \A p \in x.priced : menuOf[categoryOf[p]] = o.menu
        BY <1>1, <2>1 DEF PricedTogether
      <3>2. Wanted(t, "touchMenu") \subseteq Lock("menu", {o.menu}, "NoKeyUpdate")
        BY <2>1, <3>1 DEF Wanted, Lock
      <3> QED  BY <3>2
    <2>2. CASE o.kind = "MoveProduct"
      <3>1. Wanted(t, "touchMenu") \subseteq Lock("menu", {menuOf[o.category]}, "NoKeyUpdate")
        BY <2>2 DEF Wanted, Lock
      <3> QED  BY <3>1
    <2>3. CASE o.kind = "EditProduct"
      <3>1. PICK p \in Product : o.products = {p}
        BY <2>3, RequestConstants
      <3>2. Wanted(t, "touchMenu") \subseteq Lock("menu", {menuOf[categoryOf[p]]}, "NoKeyUpdate")
        BY <2>3, <3>1 DEF Wanted, Lock
      <3> QED  BY <3>2
    <2> QED  BY <1>1, <2>1, <2>2, <2>3
  <1> QED  BY <1>2 DEF Lock

LEMMA EmptyOrdered ==
  ASSUME NEW y, y.held = {}, y.todo = <<>>, y.outcome # "foreignKey",
         y.outcome # "running" \/ (y.pc = 1 /\ y.priced = {})
  PROVE  Ordered(y)
  <1>1. (\A s : ~Past(y, s)) /\ Pending(y) = {} /\ Len(y.todo) = 0
    BY DEF Past, Pending
  <1>2. MenuKept(y) /\ ProductsLocked(y) /\ PricedTogether(y) /\ ~Begun(y, "cascade")
    BY <1>1 DEF MenuKept, ProductsLocked, PricedTogether, Begun
  <1>3. TakenUpwards(y)
    BY <1>1 DEF TakenUpwards
  <1> QED  BY <1>2, <1>3 DEF Ordered

LEMMA PassedOrdered ==
  ASSUME NEW x \in Transaction, Ordered(x), NEW y, NEW step, Here(x, step),
         x.todo = <<>>, y.todo = <<>>, y.op = x.op, y.outcome = "running", y.pc = x.pc + 1,
         y.held = x.held,
         y.menu = x.menu \/ (x.op.kind \in Placers /\ step = "readMenu"),
         x.op.kind \in Placers /\ step = "readMenu" => menuOf[x.op.category] = y.menu,
         x.op.kind \in Placers /\ step = "rereadMenu" => menuOf[x.op.category] = x.menu,
         x.op.kind = "DeleteMenu" /\ step = "lockProducts" =>
           \A p \in ProductsIn(CategoriesIn(x.op.menu)) : LockedBy(x, <<"product", p>>),
         \/ y.priced = x.priced
         \/ \A p \in y.priced : menuOf[categoryOf[p]] = x.op.menu
  PROVE  Ordered(y)
  <1>1. x.outcome = "running" /\ x.pc \in Nat \ {0} /\ x.pc <= Len(StepsOf(x))
    BY DEF Here, Transaction
  <1>2. \A s : Past(y, s) <=> Past(x, s) \/ s = step
    BY <1>1, MovedOn DEF Here
  <1>3. (\A s : ~Begun(y, s)) /\ (\A s : ~Begun(x, s)) /\ Pending(y) = {} /\ Len(y.todo) = 0
    BY DEF Begun, Pending
  <1>4. \A what : LockedBy(y, what) <=> LockedBy(x, what)
    BY DEF LockedBy
  <1>5. MenuKept(y)
    <2>1. CASE x.op.kind \in Placers /\ step = "readMenu"
      <3>1. x.pc = 1
        BY <1>1, <2>1, PlacerSteps
      <3>2. \A s : ~Past(x, s)
        BY <3>1 DEF Past
      <3> QED  BY <1>2, <2>1, <3>2 DEF MenuKept
    <2>2. CASE step # "readMenu"
      BY <1>2, <2>2 DEF Ordered, MenuKept
    <2>3. CASE x.op.kind \notin Placers
      BY <2>3 DEF MenuKept
    <2> QED  BY <2>1, <2>2, <2>3
  <1>6. ProductsLocked(y)
    BY <1>2, <1>3, <1>4 DEF Ordered, ProductsLocked
  <1>7. PricedTogether(y)
    BY <1>1 DEF Ordered, PricedTogether
  <1>8. TakenUpwards(y)
    BY <1>2, <1>3 DEF Ordered, TakenUpwards
  <1> QED  BY <1>3, <1>5, <1>6, <1>7, <1>8 DEF Ordered

LEMMA BeganOrdered ==
  ASSUME WriterTypeOK, NEW t \in Tx, Sound(tx[t]), Ordered(tx[t]), tx[t].op \in Requests[t],
         NEW step \in LockingSteps, Here(tx[t], step), tx[t].todo = <<>>, Wanted(t, step) # {},
         NEW q \in Orders(Wanted(t, step), step \notin UnorderedSteps),
         NEW y, y.op = tx[t].op, y.pc = tx[t].pc, y.outcome = "running", y.held = tx[t].held,
         y.menu = tx[t].menu, y.priced = tx[t].priced, y.todo = q
  PROVE  Ordered(y)
  <1> DEFINE x == tx[t]
             o == x.op
  <1>1. x \in Transaction /\ x.outcome = "running" /\ x.pc \in Nat \ {0} /\ o.kind \in Kinds
    BY DEF WriterTypeOK, Here, Transaction, Operation, Kinds
  <1>2. step # "cascade"
    BY CascadeWantsNothing DEF Ordered
  <1>3. /\ Pending(y) = Wanted(t, step)
        /\ \A i, j \in 1..Len(q) : q[i] = q[j] => i = j
        /\ step \notin UnorderedSteps => \A i, j \in 1..Len(q) : i < j => q[i].what[2] < q[j].what[2]
    <2>1. IsFiniteSet(Wanted(t, step))
      BY <1>1, WantedFinite
    <2>2. PICK S : S = Wanted(t, step)
      OBVIOUS
    <2>3. PICK sorted : sorted = (step \notin UnorderedSteps)
      OBVIOUS
    <2>4. /\ {q[i] : i \in 1..Len(q)} = S
          /\ \A i, j \in 1..Len(q) : q[i] = q[j] => i = j
          /\ sorted => \A i, j \in 1..Len(q) : i < j => q[i].what[2] < q[j].what[2]
      BY <2>1, <2>2, <2>3, OrdersCover
    <2>5. Pending(y) = {q[i] : i \in 1..Len(q)}
      BY DEF Pending
    <2> QED  BY <2>2, <2>3, <2>4, <2>5
  <1>4. /\ \A s : Past(y, s) <=> Past(x, s)
        /\ \A s : Begun(y, s) => s = step
        /\ \A s : ~Begun(x, s)
    BY <1>1 DEF Past, Begun, Here, StepsOf
  <1>5. \A r \in Wanted(t, step) : Fits(x, step, r) /\ Rank(r.what) = RankOf(step)
    BY <1>2, WantedFits, FitsRank
  <1>6. \A what : LockedBy(y, what) <=> LockedBy(x, what)
    BY DEF LockedBy
  <1>7. ProductsLocked(y)
    <2> SUFFICES ASSUME o.kind = "DeleteMenu", step = "lockProducts",
                        NEW p \in ProductsIn(CategoriesIn(o.menu))
                 PROVE  \E r \in Wanted(t, step) : r.what = <<"product", p>> /\ r.under = categoryOf[p]
      BY <1>3, <1>4, <1>6 DEF Ordered, ProductsLocked
    <2> DEFINE r == [what |-> <<"product", p>>, mode |-> "Update", under |-> Parent(<<"product", p>>)]
    <2>1. DeletedCategories(o) = CategoriesIn(o.menu)
      BY DEF DeletedCategories
    <2>2. Wanted(t, step) = LockUnder("product", ProductsIn(CategoriesIn(o.menu)), "Update")
      BY <2>1 DEF Wanted
    <2>3. r \in Wanted(t, step)
      BY <2>2 DEF LockUnder
    <2>4. Parent(<<"product", p>>) = categoryOf[p]
      BY DEF Parent
    <2> QED  BY <2>3, <2>4
  <1>8. TakenUpwards(y)
    <2>1. ASSUME NEW l \in x.held
          PROVE  \E s \in LockingSteps : Past(x, s) /\ Rank(l.what) = RankOf(s)
      BY <1>4 DEF Ordered, TakenUpwards
    <2>2. ASSUME NEW l \in x.held, NEW r \in Wanted(t, step)
          PROVE  Before(l.what, r.what)
      <3>1. PICK s \in LockingSteps : Past(x, s) /\ Rank(l.what) = RankOf(s)
        BY <2>1
      <3>2. RankOf(s) < RankOf(step)
        BY <1>1, <1>2, <3>1, RanksRise
      <3> QED  BY <1>5, <3>1, <3>2 DEF Before
    <2>3. ASSUME NEW i \in 1..Len(q), NEW j \in 1..Len(q), i < j
          PROVE  Before(q[i].what, q[j].what)
      <3>1. q[i] \in Wanted(t, step) /\ q[j] \in Wanted(t, step)
        BY <1>3 DEF Pending
      <3>2. step # "touchMenu"
        BY <1>1, <1>3, <2>3, <3>1, OneMenuTouched DEF Ordered
      <3>3. q[i].what[2] < q[j].what[2]
        BY <1>2, <1>3, <2>3, <3>2 DEF UnorderedSteps
      <3> QED  BY <1>5, <3>1, <3>3 DEF Before
    <2> QED  BY <1>3, <1>4, <2>1, <2>2, <2>3 DEF TakenUpwards
  <1>9. MenuKept(y) /\ PricedTogether(y)
    BY <1>1, <1>4 DEF Ordered, MenuKept, PricedTogether
  <1> QED  BY <1>2, <1>4, <1>7, <1>8, <1>9 DEF Ordered

LEMMA TookOrdered ==
  ASSUME WriterTypeOK, NEW x \in Transaction, Sound(x), Ordered(x), x.outcome = "running",
         x.todo # <<>>, NEW r, r = Head(x.todo),
         NEW y, y.op = x.op, y.outcome = "running", y.menu = x.menu, y.priced = x.priced,
         y.todo = Tail(x.todo),
         y.pc = IF Len(x.todo) = 1 THEN x.pc + 1 ELSE x.pc,
         y.held = IF Found(r) THEN x.held \cup {[what |-> r.what, mode |-> r.mode]} ELSE x.held
  PROVE  Ordered(y)
  <1> DEFINE o == x.op
  <1>1. x.pc \in Nat \ {0} /\ o.kind \in Kinds /\ x.todo \in Seq(LockRequest)
    BY DEF Transaction, Operation, Kinds
  <1>2. PICK step \in LockingSteps : Here(x, step)
    BY DEF Sound, WellFormed
  <1>3. /\ Pending(x) = {r} \cup Pending(y)
        /\ Len(x.todo) = 1 <=> y.todo = <<>>
        /\ y.todo = <<>> => Pending(y) = {}
        /\ Len(x.todo) \in Nat \ {0} /\ Len(y.todo) = Len(x.todo) - 1
        /\ r = x.todo[1]
        /\ \A i \in 1..Len(y.todo) : y.todo[i] = x.todo[i + 1]
    BY <1>1, PendingTail
  <1>4. Begun(x, step) /\ \A s : Here(x, s) <=> s = step
    BY <1>2 DEF Begun, Here
  <1>5. step # "cascade" /\ Rank(r.what) = RankOf(step)
    <2>1. step # "cascade"
      BY <1>4 DEF Ordered
    <2>2. Fits(x, step, r)
      BY <1>2, <1>3 DEF Sound, WellFormed
    <2> QED  BY <2>1, <2>2, FitsRank
  <1>6. /\ \A s : Past(y, s) <=> Past(x, s) \/ (Len(x.todo) = 1 /\ s = step)
        /\ \A s : Begun(y, s) <=> s = step /\ Len(x.todo) # 1
    <2>1. CASE Len(x.todo) = 1
      <3>1. \A s : Past(y, s) <=> Past(x, s) \/ Here(x, s)
        BY <1>1, <1>2, <2>1 DEF Past, Here, StepsOf
      <3> QED  BY <1>3, <1>4, <2>1, <3>1 DEF Begun
    <2>2. CASE Len(x.todo) # 1
      <3>1. \A s : (Past(y, s) <=> Past(x, s)) /\ (Here(y, s) <=> Here(x, s))
        BY <2>2 DEF Past, Here, StepsOf
      <3> QED  BY <1>3, <1>4, <2>2, <3>1 DEF Begun
    <2> QED  BY <2>1, <2>2
  <1>7. /\ \A what : LockedBy(x, what) => LockedBy(y, what)
        /\ Found(r) => LockedBy(y, r.what)
    <2>1. x.held \subseteq y.held
      OBVIOUS
    <2>2. Found(r) => [what |-> r.what, mode |-> r.mode] \in y.held
      OBVIOUS
    <2> QED  BY <2>1, <2>2 DEF LockedBy
  <1>8. MenuKept(y) /\ PricedTogether(y)
    BY <1>6 DEF Ordered, MenuKept, PricedTogether, LockingSteps, SingleRowSteps, KeySteps, UnorderedSteps
  <1>9. ProductsLocked(y)
    <2>1. ASSUME o.kind = "DeleteMenu", NEW p \in ProductsIn(CategoriesIn(o.menu)),
                 Past(y, "lockProducts") \/ Begun(y, "lockProducts"), ~LockedBy(y, <<"product", p>>)
          PROVE  /\ \E q \in Pending(y) : q.what = <<"product", p>> /\ q.under = categoryOf[p]
                 /\ ~Past(x, "lockProducts")
      <3>1. categoryOf[p] \in Category /\ ~LockedBy(x, <<"product", p>>)
        BY <1>7, <2>1 DEF ProductsIn, CategoriesIn
      <3>2. ~Past(x, "lockProducts")
        BY <2>1, <3>1 DEF Ordered, ProductsLocked
      <3>3. step = "lockProducts"
        BY <1>6, <2>1, <3>2
      <3>4. PICK q \in Pending(x) : q.what = <<"product", p>> /\ q.under = categoryOf[p]
        BY <1>4, <2>1, <3>1, <3>3 DEF Ordered, ProductsLocked
      <3>5. Found(q)
        BY <3>1, <3>4, WriterConstants DEF Found, Exists, Parent
      <3>6. q # r
        BY <1>7, <2>1, <3>4, <3>5
      <3> QED  BY <1>3, <3>2, <3>4, <3>6
    <2>2. Past(y, "lockProducts") => Past(x, "lockProducts") \/ Pending(y) = {}
      BY <1>3, <1>6
    <2> QED  BY <2>1, <2>2 DEF ProductsLocked
  <1>10. TakenUpwards(y)
    <2>1. ASSUME NEW l \in y.held
          PROVE  l \in x.held \/ l.what = r.what
      OBVIOUS
    <2>2. ASSUME NEW l \in y.held
          PROVE  \E s \in LockingSteps : (Past(y, s) \/ Begun(y, s)) /\ Rank(l.what) = RankOf(s)
      <3>1. CASE l \in x.held
        <4>1. PICK s \in LockingSteps : (Past(x, s) \/ Begun(x, s)) /\ Rank(l.what) = RankOf(s)
          BY <3>1 DEF Ordered, TakenUpwards
        <4> QED  BY <1>4, <1>6, <4>1 DEF Begun
      <3>2. CASE l.what = r.what
        BY <1>5, <1>6, <3>2
      <3> QED  BY <2>1, <3>1, <3>2
    <2>3. \A i, j \in 1..Len(x.todo) : i < j => Before(x.todo[i].what, x.todo[j].what)
      BY DEF Ordered, TakenUpwards
    <2>4. ASSUME NEW q \in Pending(y)  PROVE  Before(r.what, q.what)
      <3>1. PICK i \in 1..Len(y.todo) : q = y.todo[i]
        BY DEF Pending
      <3>2. q = x.todo[i + 1] /\ i + 1 \in 1..Len(x.todo) /\ 1 \in 1..Len(x.todo) /\ 1 < i + 1
        BY <1>3, <3>1
      <3> QED  BY <1>3, <2>3, <3>2
    <2>5. ASSUME NEW l \in y.held, NEW q \in Pending(y)  PROVE  Before(l.what, q.what)
      BY <1>3, <2>1, <2>4 DEF Ordered, TakenUpwards
    <2>6. ASSUME NEW i \in 1..Len(y.todo), NEW j \in 1..Len(y.todo), i < j
          PROVE  Before(y.todo[i].what, y.todo[j].what)
      <3>1. i + 1 \in 1..Len(x.todo) /\ j + 1 \in 1..Len(x.todo) /\ i + 1 < j + 1
        BY <1>3, <2>6
      <3> QED  BY <1>3, <2>3, <3>1
    <2> QED  BY <2>2, <2>5, <2>6 DEF TakenUpwards
  <1>11. ~Begun(y, "cascade")
    BY <1>5, <1>6
  <1> QED  BY <1>8, <1>9, <1>10, <1>11 DEF Ordered

-----------------------------------------------------------------------------
(* The actions, one transaction's statement at a time.                     *)

(* It reads no menu but of a category that exists. *)
ReadsOnlyWhatIs(x, y) ==
  y.outcome = "running" =>
    /\ x.outcome = "running"
    /\ Past(y, "readMenu") => Past(x, "readMenu") \/ menuOf[x.op.category] # Gone

GoesOn(t) ==
  \E y \in Transaction :
    Goes(t, y) /\ Sound(y) /\ ReadsOnlyWhatIs(tx[t], y) /\ (Ordered(tx[t]) => Ordered(y))

LEMMA AtStepIsHere ==
  ASSUME NEW t \in Tx, NEW step
  PROVE  AtStep(t, step) <=> Here(tx[t], step)
  BY DEF AtStep, Running, Here, StepsOf

LEMMA EndsOn ==
  ASSUME WriterTypeOK, NEW t \in Tx, Sound(tx[t]),
         NEW outcome \in {"ok", "notFound", "parentNotFound", "foreignKey", "conflict"},
         Ordered(tx[t]) => outcome # "foreignKey",
         End(t, outcome)
  PROVE  GoesOn(t)
  <1>1. PICK y \in Transaction :
          Goes(t, y) /\ Sound(y) /\ y.outcome = outcome /\ y.held = {} /\ y.todo = <<>>
    BY Ends
  <1>2. Ordered(tx[t]) => Ordered(y)
    BY <1>1, EmptyOrdered
  <1>3. ReadsOnlyWhatIs(tx[t], y)
    BY <1>1 DEF ReadsOnlyWhatIs
  <1> QED  BY <1>1, <1>2, <1>3 DEF GoesOn

LEMMA StartsOverOn ==
  ASSUME WriterTypeOK, NEW t \in Tx, Sound(tx[t]), NEW run \in Nat, NEW attempt \in Nat,
         StartOver(t, run, attempt)
  PROVE  GoesOn(t)
  <1>1. PICK y \in Transaction :
          Goes(t, y) /\ Sound(y) /\ y.pc = 1 /\ y.held = {} /\ y.todo = <<>> /\ y.outcome = tx[t].outcome
                     /\ y.priced = {}
    BY StartsOver
  <1>2. Ordered(tx[t]) => Ordered(y)
    BY <1>1, EmptyOrdered DEF Ordered
  <1>3. ReadsOnlyWhatIs(tx[t], y)
    BY <1>1 DEF ReadsOnlyWhatIs, Past
  <1> QED  BY <1>1, <1>2, <1>3 DEF GoesOn

LEMMA PassesOn ==
  ASSUME WriterTypeOK, NEW t \in Tx, Sound(tx[t]), NEW step, Here(tx[t], step), tx[t].todo = <<>>,
         NEW menu \in Menu, NEW priced \in SUBSET Product,
         tx' = [tx EXCEPT ![t] = MovedTo(tx[t], menu, priced)],
         menu = tx[t].menu \/ step = "readMenu",
         step = "readMenu" => menuOf[tx[t].op.category] = menu,
         step = "menuOwned" => tx[t].op.menu \in menus,
         step = "rereadMenu" /\ Ordered(tx[t]) => menuOf[tx[t].op.category] = tx[t].menu,
         priced = tx[t].priced \/ \A p \in priced : LockedBy(tx[t], <<"product", p>>),
         priced = tx[t].priced \/ \A p \in priced : menuOf[categoryOf[p]] = tx[t].op.menu,
         step \in LockingSteps => Needs(tx[t], step) \subseteq tx[t].held,
         tx[t].op.kind = "DeleteMenu" /\ step = "lockProducts" =>
           \A p \in ProductsIn(CategoriesIn(tx[t].op.menu)) : LockedBy(tx[t], <<"product", p>>)
  PROVE  GoesOn(t)
  <1>1. PICK x \in Transaction : x = tx[t]
    BY DEF WriterTypeOK
  <1>2. x.pc \in Nat \ {0} /\ x.op.kind \in Kinds /\ x.outcome = "running"
    BY <1>1 DEF Transaction, Operation, Kinds, Here
  <1>3. step = "readMenu" => x.op.kind \in Placers
    BY <1>1, <1>2, StepOwners
  <1>4. x.op.kind \in {"CreateCategory", "MoveCategory"} /\ x.pc = 3 => x.op.menu \in menus
    <2>1. x.op.kind \in {"CreateCategory", "MoveCategory"} /\ x.pc = 3 => Here(x, "menuOwned")
      BY <1>2, CategoryWriterSteps
    <2>2. Here(x, "menuOwned") => step = "menuOwned"
      BY <1>1 DEF Here
    <2> QED  BY <1>1, <2>1, <2>2
  <1>5. PICK y \in Transaction :
          /\ Goes(t, y) /\ Sound(y) /\ y.outcome = "running" /\ y.pc = x.pc + 1
          /\ y.held = x.held /\ y.todo = <<>> /\ y.menu = menu /\ y.priced = priced
    <2>1. menu = tx[t].menu \/ (tx[t].op.kind \in Placers /\ step = "readMenu")
      BY <1>1, <1>3
    <2>2. tx[t].op.kind \in {"CreateCategory", "MoveCategory"} /\ tx[t].pc = 3 => tx[t].op.menu \in menus
      BY <1>1, <1>4
    <2>3. \E y \in Transaction :
            /\ Goes(t, y) /\ Sound(y) /\ y.outcome = "running" /\ y.pc = tx[t].pc + 1
            /\ y.held = tx[t].held /\ y.todo = <<>> /\ y.menu = menu /\ y.priced = priced
      BY <2>1, <2>2, Passes, ZenonT(40)
    <2> QED  BY <1>1, <2>3
  <1>6. ASSUME Ordered(x)  PROVE  Ordered(y)
    <2>1. y.op = x.op
      BY <1>1, <1>5 DEF Goes
    <2> QED  BY <1>1, <1>3, <1>5, <1>6, <2>1, PassedOrdered
  <1>7. ReadsOnlyWhatIs(x, y)
    <2>1. y.op = x.op /\ x.pc <= Len(StepsOf(x))
      BY <1>1, <1>5 DEF Goes, Here
    <2>2. \A s : Past(y, s) <=> Past(x, s) \/ Here(x, s)
      BY <1>2, <1>5, <2>1, MovedOn
    <2>3. Here(x, "readMenu") => step = "readMenu"
      BY <1>1 DEF Here
    <2>4. step = "readMenu" => menuOf[x.op.category] # Gone
      BY <1>1, WriterConstants
    <2> QED  BY <1>2, <2>2, <2>3, <2>4 DEF ReadsOnlyWhatIs
  <1> QED  BY <1>1, <1>5, <1>6, <1>7 DEF GoesOn

LEMMA AdvanceIs ==
  ASSUME WriterTypeOK, NEW t \in Tx, Advance(t)
  PROVE  /\ tx' = [tx EXCEPT ![t] = MovedTo(tx[t], tx[t].menu, tx[t].priced)]
         /\ tx[t].menu \in Menu /\ tx[t].priced \in SUBSET Product
  <1>1. PICK x \in Transaction : x = tx[t]
    BY DEF WriterTypeOK
  <1>2. [x EXCEPT !.pc = x.pc + 1] = MovedTo(x, x.menu, x.priced)
    BY DEF MovedTo, Transaction
  <1>3. tx' = [tx EXCEPT ![t] = [x EXCEPT !.pc = x.pc + 1]]
    BY <1>1 DEF Advance
  <1>4. x.menu \in Menu /\ x.priced \in SUBSET Product
    BY DEF Transaction
  <1> QED  BY <1>1, <1>2, <1>3, <1>4

LEMMA MenuOwnedGoesOn ==
  ASSUME WriterTypeOK, NEW t \in Tx, Sound(tx[t]), MenuOwned(t)
  PROVE  GoesOn(t)
  <1>1. Here(tx[t], "menuOwned") /\ tx[t].todo = <<>> /\ "menuOwned" \notin LockingSteps
    BY AtStepIsHere, ReadsHoldStill DEF MenuOwned, Sound
  <1>2. CASE tx[t].op.menu \in menus
    <2>1. Advance(t)
      BY <1>2 DEF MenuOwned
    <2> QED
      BY <1>1, <1>2, <2>1, AdvanceIs, PassesOn
  <1>3. CASE tx[t].op.menu \notin menus
    BY <1>3, EndsOn DEF MenuOwned
  <1> QED  BY <1>2, <1>3

LEMMA CategoryOwnedGoesOn ==
  ASSUME WriterTypeOK, NEW t \in Tx, Sound(tx[t]), CategoryOwned(t)
  PROVE  GoesOn(t)
  <1>1. Here(tx[t], "categoryOwned") /\ tx[t].todo = <<>> /\ "categoryOwned" \notin LockingSteps
    BY AtStepIsHere, ReadsHoldStill DEF CategoryOwned, Sound
  <1>2. CASE menuOf[tx[t].op.category] # Gone
    <2>1. Advance(t)
      BY <1>2 DEF CategoryOwned
    <2> QED
      BY <1>1, <2>1, AdvanceIs, PassesOn
  <1>3. CASE menuOf[tx[t].op.category] = Gone
    BY <1>3, EndsOn DEF CategoryOwned
  <1> QED  BY <1>2, <1>3

LEMMA ReadMenuGoesOn ==
  ASSUME WriterTypeOK, NEW t \in Tx, Sound(tx[t]), ReadMenu(t)
  PROVE  GoesOn(t)
  <1> DEFINE m == menuOf[tx[t].op.category]
  <1>1. Here(tx[t], "readMenu") /\ tx[t].todo = <<>> /\ "readMenu" \notin LockingSteps
    BY AtStepIsHere, ReadsHoldStill DEF ReadMenu, Sound
  <1>2. CASE m # Gone
    <2>1. PICK x \in Transaction : x = tx[t]
      BY DEF WriterTypeOK
    <2>2. m \in Menu /\ x.priced \in SUBSET Product
      BY <1>2, <2>1 DEF WriterTypeOK, Transaction, Operation
    <2>3. tx' = [tx EXCEPT ![t] = MovedTo(x, m, x.priced)]
      <3>1. [x EXCEPT !.menu = m, !.pc = x.pc + 1] = MovedTo(x, m, x.priced)
        BY DEF MovedTo, Transaction
      <3>2. tx' = [tx EXCEPT ![t].menu = m, ![t].pc = @ + 1]
        BY <1>2 DEF ReadMenu
      <3>3. tx' = [tx EXCEPT ![t] = [x EXCEPT !.menu = m, !.pc = x.pc + 1]]
        BY <2>1, <3>2 DEF WriterTypeOK
      <3> QED  BY <3>1, <3>3
    <2> QED
      BY <1>1, <2>1, <2>2, <2>3, PassesOn
  <1>3. CASE m = Gone
    BY <1>3, EndsOn DEF ReadMenu
  <1> QED  BY <1>2, <1>3

LEMMA RereadMenuGoesOn ==
  ASSUME WriterTypeOK, NEW t \in Tx, Sound(tx[t]), RereadMenu(t)
  PROVE  GoesOn(t)
  <1> DEFINE m == menuOf[tx[t].op.category]
  <1>1. Here(tx[t], "rereadMenu") /\ tx[t].todo = <<>> /\ "rereadMenu" \notin LockingSteps
    BY AtStepIsHere, ReadsHoldStill DEF RereadMenu, Sound
  <1>2. tx[t].run \in Nat /\ tx[t].attempt \in Nat /\ tx[t].pc \in Nat \ {0} /\ tx[t].op.kind \in Kinds
    BY DEF WriterTypeOK, Transaction, Operation, Kinds
  <1>3. CASE m = Gone
    BY <1>3, EndsOn DEF RereadMenu
  <1>4. CASE m # Gone /\ m # tx[t].menu /\ tx[t].run < WriteIntoCategoryRuns
    <2>1. StartOver(t, tx[t].run + 1, tx[t].attempt)
      BY <1>4 DEF RereadMenu
    <2> QED  BY <1>2, <2>1, StartsOverOn
  <1>5. CASE m # Gone /\ ~(m # tx[t].menu /\ tx[t].run < WriteIntoCategoryRuns)
    <2>1. Advance(t)
      BY <1>5 DEF RereadMenu
    <2>2. Ordered(tx[t]) => m = tx[t].menu
      <3>1. tx[t].op.kind \in Placers
        BY <1>1, <1>2, StepOwners
      <3>2. Past(tx[t], "readMenu")
        BY <1>1, <1>2, <3>1, PlacerSteps
      <3> QED  BY <1>5, <3>1, <3>2 DEF Ordered, MenuKept
    <2> QED
      BY <1>1, <2>1, <2>2, AdvanceIs, PassesOn
  <1> QED  BY <1>3, <1>4, <1>5

LEMMA ReadPricesGoesOn ==
  ASSUME WriterTypeOK, NEW t \in Tx, Sound(tx[t]), ReadPrices(t)
  PROVE  GoesOn(t)
  <1>1. Here(tx[t], "readPrices") /\ tx[t].todo = <<>> /\ "readPrices" \notin LockingSteps
    BY AtStepIsHere, ReadsHoldStill DEF ReadPrices, Sound
  <1>2. PICK x \in Transaction : x = tx[t]
    BY DEF WriterTypeOK
  <1>3. PICK priced \in SUBSET Product :
          /\ priced = LockedProducts(t) \cap ProductsIn(CategoriesIn(x.op.menu))
          /\ \A p \in priced : LockedBy(x, <<"product", p>>) /\ menuOf[categoryOf[p]] = x.op.menu
    <2>1. LockedProducts(t) \subseteq Product
      BY DEF LockedProducts
    <2>2. \A p \in LockedProducts(t) : LockedBy(x, <<"product", p>>)
      BY <1>2 DEF LockedProducts, Locked, LockedBy
    <2> DEFINE priced == LockedProducts(t) \cap ProductsIn(CategoriesIn(x.op.menu))
    <2>3. \A p \in ProductsIn(CategoriesIn(x.op.menu)) : menuOf[categoryOf[p]] = x.op.menu
      BY DEF ProductsIn, CategoriesIn
    <2>4. priced \in SUBSET Product
      BY <2>1
    <2>5. \A p \in priced : LockedBy(x, <<"product", p>>) /\ menuOf[categoryOf[p]] = x.op.menu
      BY <2>2, <2>3
    <2> HIDE DEF priced
    <2>6. \E S \in SUBSET Product :
            S = priced /\ \A p \in S : LockedBy(x, <<"product", p>>) /\ menuOf[categoryOf[p]] = x.op.menu
      BY <2>4, <2>5
    <2> QED  BY <2>6 DEF priced
  <1>4. tx' = [tx EXCEPT ![t] = MovedTo(x, x.menu, priced)]
    <2>1. [x EXCEPT !.priced = priced, !.pc = x.pc + 1] = MovedTo(x, x.menu, priced)
      BY DEF MovedTo, Transaction
    <2>2. tx' = [tx EXCEPT ![t].priced = priced, ![t].pc = @ + 1]
      BY <1>2, <1>3 DEF ReadPrices
    <2>3. tx' = [tx EXCEPT ![t] = [x EXCEPT !.priced = priced, !.pc = x.pc + 1]]
      BY <1>2, <2>2 DEF WriterTypeOK
    <2> QED  BY <2>1, <2>3
  <1>5. x.menu \in Menu
    BY DEF Transaction
  <1> QED
    BY <1>1, <1>2, <1>3, <1>4, <1>5, PassesOn

LEMMA BeginLockingGoesOn ==
  ASSUME WriterTypeOK, NEW t \in Tx, tx[t].op \in Requests[t], Sound(tx[t]), BeginLocking(t)
  PROVE  GoesOn(t)
  <1>1. PICK step \in LockingSteps :
          /\ Here(tx[t], step) /\ tx[t].todo = <<>>
          /\ IF Wanted(t, step) = {} THEN Advance(t)
             ELSE \E q \in Orders(Wanted(t, step), step \notin UnorderedSteps) : tx' = [tx EXCEPT ![t].todo = q]
    BY AtStepIsHere DEF BeginLocking
  <1>2. PICK x \in Transaction : x = tx[t]
    BY DEF WriterTypeOK
  <1>3. CASE Wanted(t, step) = {}
    <2>1. Needs(tx[t], step) \subseteq tx[t].held
      BY <1>1, <1>3, NeedsWanted
    <2>2. ASSUME tx[t].op.kind = "DeleteMenu", step = "lockProducts", NEW p \in ProductsIn(CategoriesIn(tx[t].op.menu))
          PROVE  FALSE
      <3>1. DeletedCategories(tx[t].op) = CategoriesIn(tx[t].op.menu)
        BY <2>2 DEF DeletedCategories
      <3>2. Wanted(t, step) = LockUnder("product", ProductsIn(CategoriesIn(tx[t].op.menu)), "Update")
        BY <2>2, <3>1 DEF Wanted
      <3> QED  BY <1>3, <2>2, <3>2 DEF LockUnder
    <2>3. Advance(t)
      BY <1>1, <1>3
    <2>4. step \notin {"readMenu", "menuOwned", "rereadMenu"}
      BY DEF LockingSteps, SingleRowSteps, KeySteps, UnorderedSteps
    <2> QED  BY <1>1, <2>1, <2>2, <2>3, <2>4, AdvanceIs, PassesOn
  <1>4. CASE Wanted(t, step) # {}
    <2>1. PICK q \in Orders(Wanted(t, step), step \notin UnorderedSteps) : tx' = [tx EXCEPT ![t].todo = q]
      BY <1>1, <1>4
    <2>2. q \in Seq(Wanted(t, step)) /\ {q[i] : i \in 1..Len(q)} = Wanted(t, step)
      <3>1. IsFiniteSet(Wanted(t, step))
        BY <1>2, WantedFinite
      <3>2. PICK sorted : sorted = (step \notin UnorderedSteps)
        OBVIOUS
      <3> QED  BY <2>1, <3>1, <3>2, OrdersCover
    <2>3. PICK y : y = [tx[t] EXCEPT !.todo = q]
      OBVIOUS
    <2>4. y \in Transaction /\ Sound(y)
      BY <1>1, <2>2, <2>3, Began
    <2>5. /\ tx' = [tx EXCEPT ![t] = y]
          /\ y.op = tx[t].op /\ y.pc = tx[t].pc /\ y.outcome = tx[t].outcome /\ y.held = tx[t].held
          /\ y.menu = tx[t].menu /\ y.priced = tx[t].priced /\ y.todo = q
      BY <1>2, <2>1, <2>3 DEF WriterTypeOK, Transaction
    <2>6. ASSUME Ordered(tx[t])  PROVE  Ordered(y)
      <3>1. y.outcome = "running"
        BY <1>1, <2>5 DEF Here
      <3> QED  BY <1>1, <1>4, <2>5, <2>6, <3>1, BeganOrdered
    <2>7. ReadsOnlyWhatIs(tx[t], y)
      BY <2>5 DEF ReadsOnlyWhatIs, Past, StepsOf
    <2> QED  BY <2>4, <2>5, <2>6, <2>7 DEF GoesOn, Goes
  <1> QED  BY <1>3, <1>4

(* Where the menus of categories stay, a foreign key is always found. *)
LEMMA KeysFound ==
  ASSUME WriterTypeOK, NEW x \in Transaction, Sound(x), Ordered(x), NEW step \in KeySteps, Here(x, step),
         NEW r \in Pending(x)
  PROVE  Found(r)
  <1>1. /\ x.pc \in Nat \ {0} /\ x.op.kind \in Kinds /\ x.outcome = "running"
        /\ x.op.category \in Category /\ x.menu \in Menu
    BY DEF Transaction, Operation, Kinds, Here
  <1>2. Fits(x, step, r) /\ r.under = Gone
    <2>1. step \in LockingSteps
      BY DEF LockingSteps
    <2>2. Fits(x, step, r)
      BY <2>1 DEF Sound, WellFormed
    <2> QED  BY <2>2 DEF Fits, KeySteps
  <1>3. CASE step = "checkMenuKey"
    <2>1. r.what[1] = "menu" /\ r.what[2] = x.op.menu
      BY <1>2, <1>3 DEF Fits, ClassesOf
    <2>2. x.op.kind \in {"CreateCategory", "MoveCategory"}
      BY <1>1, <1>3, StepOwners
    <2>3. x.pc > 3
      BY <1>1, <1>3, <2>2, CategoryWriterSteps
    <2>4. x.op.menu \in menus
      BY <1>1, <2>2, <2>3 DEF Sound, MenuStands
    <2> QED  BY <1>2, <2>1, <2>4 DEF Found, Exists
  <1>4. CASE step = "checkCategoryKey"
    <2>1. r.what[1] = "category" /\ r.what[2] = x.op.category
      BY <1>2, <1>4 DEF Fits, ClassesOf
    <2>2. x.op.kind \in Placers
      BY <1>1, <1>4, StepOwners
    <2>3. Past(x, "rereadMenu")
      BY <1>1, <1>4, <2>2, PlacerSteps
    <2>4. menuOf[x.op.category] = x.menu
      BY <2>2, <2>3 DEF Ordered, MenuKept
    <2>5. x.menu # Gone
      BY <1>1, WriterConstants
    <2> QED  BY <1>2, <2>1, <2>4, <2>5 DEF Found, Exists
  <1> QED  BY <1>3, <1>4 DEF KeySteps

LEMMA AcquireGoesOn ==
  ASSUME WriterTypeOK, NEW t \in Tx, Sound(tx[t]), Acquire(t)
  PROVE  GoesOn(t)
  <1>1. PICK x \in Transaction : x = tx[t]
    BY DEF WriterTypeOK
  <1>2. PICK r : r = Head(x.todo)
    OBVIOUS
  <1>3. x.outcome = "running" /\ x.todo # <<>> /\ x.todo \in Seq(LockRequest)
    BY <1>1 DEF Acquire, Running, Transaction
  <1>4. r \in LockRequest /\ r \in Pending(x)
    <2>1. Len(x.todo) \in Nat \ {0} /\ r = x.todo[1]
      BY <1>2, <1>3
    <2>2. 1 \in 1..Len(x.todo)
      BY <2>1
    <2> QED  BY <1>3, <2>1, <2>2 DEF Pending
  <1>5. CASE ~Found(r) /\ \E s \in SingleRowSteps \cup KeySteps : Here(tx[t], s)
    <2>1. CASE \E s \in SingleRowSteps : Here(tx[t], s)
      <3>1. /\ \E s \in SingleRowSteps : AtStep(t, s)
            /\ ~\E s \in KeySteps : AtStep(t, s)
        BY <2>1, AtStepIsHere DEF Here, SingleRowSteps, KeySteps
      <3>2. End(t, "notFound")
        BY <1>1, <1>2, <1>5, <3>1 DEF Acquire, Found
      <3> QED  BY <3>2, EndsOn
    <2>2. CASE ~(\E s \in SingleRowSteps : Here(tx[t], s))
      <3>1. End(t, "foreignKey")
        BY <1>1, <1>2, <1>5, <2>2, AtStepIsHere DEF Acquire, Found
      <3>2. ~Ordered(x)
        BY <1>1, <1>4, <1>5, <2>2, KeysFound
      <3> QED  BY <1>1, <3>1, <3>2, EndsOn
    <2> QED  BY <2>1, <2>2
  <1>6. CASE ~(~Found(r) /\ \E s \in SingleRowSteps \cup KeySteps : Here(tx[t], s))
    <2>1. PICK held : held = IF Found(r) THEN x.held \cup {[what |-> r.what, mode |-> r.mode]} ELSE x.held
      OBVIOUS
    <2>2. PICK pc : pc = IF Len(x.todo) = 1 THEN x.pc + 1 ELSE x.pc
      OBVIOUS
    <2>3. PICK y : y = [op |-> x.op, pc |-> pc, todo |-> Tail(x.todo), held |-> held, menu |-> x.menu,
                        priced |-> x.priced, run |-> x.run, attempt |-> x.attempt, outcome |-> x.outcome]
      OBVIOUS
    <2>4. tx' = [tx EXCEPT ![t] = y]
      <3>1. CASE Found(r)
        <4>1. tx' = [[tx EXCEPT ![t].todo = Tail(@), ![t].pc = IF Len(tx[t].todo) = 1 THEN @ + 1 ELSE @]
                       EXCEPT ![t].held = @ \cup {[what |-> r.what, mode |-> r.mode]}]
          BY <1>1, <1>2, <3>1 DEF Acquire, Found
        <4>2. tx'[t] = y
          BY <1>1, <2>1, <2>2, <2>3, <3>1, <4>1 DEF WriterTypeOK, Transaction
        <4>3. tx \in [Tx -> Transaction]
          BY DEF WriterTypeOK
        <4> QED  BY <4>1, <4>2, <4>3
      <3>2. CASE ~Found(r)
        <4>1. tx' = [tx EXCEPT ![t].todo = Tail(@), ![t].pc = IF Len(tx[t].todo) = 1 THEN @ + 1 ELSE @]
          BY <1>1, <1>2, <1>6, <3>2, AtStepIsHere DEF Acquire, Found
        <4>2. tx'[t] = y
          BY <1>1, <2>1, <2>2, <2>3, <3>2, <4>1 DEF WriterTypeOK, Transaction
        <4> QED  BY <4>1, <4>2 DEF WriterTypeOK
      <3> QED  BY <3>1, <3>2
    <2>5. y \in Transaction
      <3>1. held \in SUBSET [what : Lockable, mode : Mode]
        BY <1>4, <2>1 DEF Transaction, LockRequest
      <3>2. pc \in Nat \ {0}
        BY <2>2 DEF Transaction
      <3>3. Tail(x.todo) \in Seq(LockRequest)
        BY <1>3
      <3> QED  BY <2>3, <3>1, <3>2, <3>3 DEF Transaction
    <2>6. /\ y.op = x.op /\ y.outcome = "running" /\ y.menu = x.menu /\ y.priced = x.priced
          /\ y.todo = Tail(x.todo) /\ y.pc = (IF Len(x.todo) = 1 THEN x.pc + 1 ELSE x.pc)
          /\ y.held = IF Found(r) THEN x.held \cup {[what |-> r.what, mode |-> r.mode]} ELSE x.held
      BY <1>3, <2>1, <2>2, <2>3
    <2>7. Sound(y)
      <3>1. ~Found(r) => \A s \in SingleRowSteps \cup KeySteps : ~Here(tx[t], s)
        BY <1>6
      <3> QED  BY <1>1, <1>2, <1>3, <2>5, <2>6, <3>1, Took
    <2>8. Ordered(x) => Ordered(y)
      BY <1>1, <1>2, <1>3, <2>6, TookOrdered
    <2>9. ASSUME NEW l \in y.held, l \notin x.held, NEW u \in Tx \ {t}, NEW k \in tx[u].held, k.what = l.what
          PROVE  ~Conflicts(k.mode, l.mode)
      <3>1. l.what = r.what /\ l.mode = r.mode
        BY <2>6, <2>9
      <3>2. Blockers(t) = {}
        BY DEF Acquire
      <3> QED  BY <1>1, <1>2, <2>9, <3>1, <3>2 DEF Blockers
    <2>10. ReadsOnlyWhatIs(x, y)
      <3>1. ~Here(x, "readMenu")
        BY <1>1, <1>3 DEF Sound, WellFormed, Here, LockingSteps, SingleRowSteps, KeySteps, UnorderedSteps
      <3>2. x.pc \in Nat \ {0} /\ \E s \in LockingSteps : Here(x, s)
        BY <1>1, <1>3 DEF Sound, WellFormed, Transaction
      <3>3. Past(y, "readMenu") <=> Past(x, "readMenu")
        <4>1. CASE Len(x.todo) = 1
          BY <1>3, <2>6, <3>1, <3>2, <4>1, MovedOn DEF Here
        <4>2. CASE Len(x.todo) # 1
          BY <1>3, <2>6, <4>2 DEF Past, StepsOf
        <4> QED  BY <4>1, <4>2
      <3> QED  BY <1>3, <3>3 DEF ReadsOnlyWhatIs
    <2> QED  BY <1>1, <2>4, <2>5, <2>6, <2>7, <2>8, <2>9, <2>10 DEF GoesOn, Goes
  <1> QED  BY <1>5, <1>6

LEMMA DeadlockAbortsGoesOn ==
  ASSUME WriterTypeOK, NEW t \in Tx, Sound(tx[t]), DeadlockAborts(t)
  PROVE  GoesOn(t)
  <1>1. tx[t].attempt \in Nat /\ 1 \in Nat
    BY DEF WriterTypeOK, Transaction
  <1>2. StartOver(t, 1, tx[t].attempt + 1) \/ End(t, "conflict")
    BY DEF DeadlockAborts
  <1>3. tx[t].attempt + 1 \in Nat
    BY <1>1
  <1> QED  BY <1>1, <1>2, <1>3, StartsOverOn, EndsOn

LEMMA RowsSame ==
  ASSUME NEW z, UNCHANGED Rows
  PROVE  (Sound(z) => Sound(z)') /\ (Ordered(z) => Ordered(z)')
  <1>1. categoryOf' = categoryOf /\ menuOf' = menuOf /\ menus' = menus
    BY DEF Rows
  <1>2. ASSUME Sound(z)  PROVE  Sound(z)'
    <2>1. WellFormed(z)' /\ UnderDeleted(z)'
      BY <1>2 DEF Sound
    <2>2. OnlyCounted(z)' /\ RowsThere(z)'
      BY <1>1, <1>2 DEF Sound, OnlyCounted, RowsThere, Exists
    <2>3. CreatesNew(z)' /\ MenuStands(z)'
      BY <1>1, <1>2 DEF Sound, CreatesNew, MenuStands
    <2>4. Has(z)'
      BY <1>1, <1>2 DEF Sound, Has, Needs, CategoriesIn, ProductsIn, DeletedCategories, Replaces
    <2> QED  BY <2>1, <2>2, <2>3, <2>4 DEF Sound
  <1>3. ASSUME Ordered(z)  PROVE  Ordered(z)'
    <2>1. MenuKept(z)' /\ PricedTogether(z)'
      BY <1>1, <1>3 DEF Ordered, MenuKept, PricedTogether
    <2>2. ProductsLocked(z)'
      BY <1>1, <1>3 DEF Ordered, ProductsLocked, ProductsIn, CategoriesIn
    <2> QED  BY <1>3, <2>1, <2>2 DEF Ordered
  <1> QED  BY <1>2, <1>3

LEMMA ConflictsBothWays ==
  ASSUME NEW a, NEW b
  PROVE  Conflicts(a, b) <=> Conflicts(b, a)
  BY DEF Conflicts

(* Whatever a transaction does short of its commit, both invariants stay. *)
LEMMA GoesOnKeeps ==
  ASSUME WriterInv, NEW t \in Tx, GoesOn(t), UNCHANGED Rows
  PROVE  WriterInv' /\ (OrderInv => OrderInv')
  <1>1. PICK y \in Transaction :
          Goes(t, y) /\ Sound(y) /\ ReadsOnlyWhatIs(tx[t], y) /\ (Ordered(tx[t]) => Ordered(y))
    BY DEF GoesOn
  <1>2. /\ tx' \in [Tx -> Transaction] /\ tx[t]' = y
        /\ \A u \in Tx \ {t} : tx[u]' = tx[u]
    BY <1>1 DEF Goes, WriterInv, WriterTypeOK
  <1>3. WriterTypeOK' /\ TreeIntact'
    BY <1>2 DEF WriterInv, WriterTypeOK, TreeIntact, Rows
  <1>4. Compatible'
    <2> SUFFICES ASSUME NEW a \in Tx, NEW b \in Tx, a # b, NEW l \in tx[a]'.held, NEW k \in tx[b]'.held,
                        l.what = k.what
                 PROVE  ~Conflicts(l.mode, k.mode)
      BY DEF Compatible, Conflicts
    <2>1. ASSUME NEW u \in Tx \ {t}, NEW i \in y.held, NEW j \in tx[u].held, i.what = j.what
          PROVE  ~Conflicts(i.mode, j.mode) /\ ~Conflicts(j.mode, i.mode)
      <3>1. CASE i \in tx[t].held
        BY <2>1, <3>1, ConflictsBothWays DEF WriterInv, Compatible
      <3>2. CASE i \notin tx[t].held
        BY <1>1, <2>1, <3>2, ConflictsBothWays DEF Goes
      <3> QED  BY <3>1, <3>2
    <2>2. CASE a = t
      BY <1>2, <2>1, <2>2
    <2>3. CASE b = t
      BY <1>2, <2>1, <2>3
    <2>4. CASE a # t /\ b # t
      BY <1>2, <2>4 DEF WriterInv, Compatible
    <2> QED  BY <2>2, <2>3, <2>4
  <1>5. ASSUME NEW u \in Tx
        PROVE  tx[u]'.op \in Requests[u] /\ Sound(tx[u])'
    <2>1. CASE u = t
      <3>1. Sound(y)'
        BY <1>1, RowsSame
      <3> QED  BY <1>1, <1>2, <2>1, <3>1 DEF Goes, WriterInv
    <2>2. CASE u # t
      <3>1. PICK z : z = tx[u] /\ Sound(z)
        BY DEF WriterInv
      <3>2. Sound(z)' /\ tx[u]' = z
        BY <1>2, <2>2, <3>1, RowsSame
      <3> QED  BY <3>1, <3>2 DEF WriterInv
    <2> QED  BY <2>1, <2>2
  <1>6. ASSUME OrderInv, NEW u \in Tx
        PROVE  Ordered(tx[u])'
    <2>1. CASE u = t
      <3>1. Ordered(y)'
        BY <1>1, <1>6, RowsSame DEF OrderInv
      <3> QED  BY <1>2, <2>1, <3>1
    <2>2. CASE u # t
      <3>1. PICK z : z = tx[u] /\ Ordered(z)
        BY <1>6 DEF OrderInv
      <3>2. Ordered(z)' /\ tx[u]' = z
        BY <1>2, <2>2, <3>1, RowsSame
      <3> QED  BY <3>2
    <2> QED  BY <2>1, <2>2
  <1>7. ASSUME OrderInv, NEW u \in Tx
        PROVE  KnownCategory(tx[u])'
    <2> SUFFICES ASSUME tx[u]'.op.kind \in Placers, Past(tx[u]', "readMenu"), NEW v \in Tx,
                        tx[v]'.outcome = "running", tx[v]'.op.kind = "CreateCategory"
                 PROVE  tx[v]'.op.category # tx[u]'.op.category
      BY DEF KnownCategory, Running, Past, StepsOf
    <2>1. tx[u]'.op = tx[u].op /\ tx[v]'.op = tx[v].op
      BY <1>1, <1>2 DEF Goes
    <2>2. tx[v].outcome = "running"
      BY <1>1, <1>2 DEF ReadsOnlyWhatIs
    <2>3. Past(tx[u], "readMenu") \/ menuOf[tx[u].op.category] # Gone
      BY <1>1, <1>2 DEF ReadsOnlyWhatIs, Past
    <2>4. CASE Past(tx[u], "readMenu")
      BY <1>7, <2>1, <2>2, <2>4 DEF OrderInv, KnownCategory, Running
    <2>5. CASE menuOf[tx[u].op.category] # Gone
      <3>1. menuOf[tx[v].op.category] = Gone
        BY <2>1, <2>2 DEF WriterInv, Sound, CreatesNew
      <3> QED  BY <2>1, <2>5, <3>1
    <2> QED  BY <2>3, <2>4, <2>5
  <1> QED  BY <1>3, <1>4, <1>5, <1>6, <1>7 DEF WriterInv, OrderInv

LEMMA OneStepKeeps ==
  ASSUME WriterInv, NEW t \in Tx, Reads(t) \/ BeginLocking(t) \/ Acquire(t) \/ DeadlockAborts(t)
  PROVE  WriterInv' /\ (OrderInv => OrderInv')
  <1>1. WriterTypeOK /\ Sound(tx[t]) /\ tx[t].op \in Requests[t]
    BY DEF WriterInv
  <1>2. CASE MenuOwned(t)
    BY <1>1, <1>2, MenuOwnedGoesOn, GoesOnKeeps DEF MenuOwned
  <1>3. CASE CategoryOwned(t)
    BY <1>1, <1>3, CategoryOwnedGoesOn, GoesOnKeeps DEF CategoryOwned
  <1>4. CASE ReadMenu(t)
    BY <1>1, <1>4, ReadMenuGoesOn, GoesOnKeeps DEF ReadMenu
  <1>5. CASE RereadMenu(t)
    BY <1>1, <1>5, RereadMenuGoesOn, GoesOnKeeps DEF RereadMenu
  <1>6. CASE ReadPrices(t)
    BY <1>1, <1>6, ReadPricesGoesOn, GoesOnKeeps DEF ReadPrices
  <1>7. CASE BeginLocking(t)
    BY <1>1, <1>7, BeginLockingGoesOn, GoesOnKeeps DEF BeginLocking
  <1>8. CASE Acquire(t)
    BY <1>1, <1>8, AcquireGoesOn, GoesOnKeeps DEF Acquire
  <1>9. CASE DeadlockAborts(t)
    BY <1>1, <1>9, DeadlockAbortsGoesOn, GoesOnKeeps DEF DeadlockAborts
  <1> QED
    BY <1>2, <1>3, <1>4, <1>5, <1>6, <1>7, <1>8, <1>9 DEF Reads

-----------------------------------------------------------------------------
(* The commit.                                                             *)

Holds(x, class, id, mode) == [what |-> <<class, id>>, mode |-> mode] \in x.held

(* What a transaction holds once it is past a statement. *)
LEMMA HeldPast ==
  ASSUME NEW x, Sound(x)
  PROVE  /\ Past(x, "advisoryMenu") =>
              Holds(x, "menuAdvisory", x.menu, IF x.op.kind = "DeleteMenu" THEN "Exclusive" ELSE "Shared")
         /\ Past(x, "advisoryCategory") =>
              Holds(x, "categoryAdvisory", x.op.category,
                    IF x.op.kind = "DeleteCategory" THEN "Exclusive" ELSE "Shared")
         /\ Past(x, "lockProduct") => \A p \in x.op.products : LockedBy(x, <<"product", p>>)
         /\ Past(x, "lockCategory") => 
              Holds(x, "category", x.op.category,
                    IF x.op.kind = "DeleteCategory" THEN "Update" ELSE "NoKeyUpdate")
         /\ Past(x, "lockMenu") /\ x.op.kind = "DeleteMenu" => Holds(x, "menu", x.op.menu, "Update")
         /\ Past(x, "checkCategoryKey") /\ Replaces(x) => Holds(x, "category", x.op.category, "KeyShare")
         /\ Past(x, "lockCategories") /\ x.op.kind = "DeleteMenu" =>
              \A c \in CategoriesIn(x.op.menu) : Holds(x, "category", c, "Update")
         /\ Past(x, "cascade") =>
              \A p \in ProductsIn(DeletedCategories(x.op)) : Holds(x, "product", p, "Update")
  <1>1. ASSUME NEW step \in LockingSteps, Past(x, step), NEW class, NEW ids, NEW mode,
               Locks(class, ids, mode) \subseteq Needs(x, step)
        PROVE  \A i \in ids : Holds(x, class, i, mode)
    <2>1. \A i \in ids : [what |-> <<class, i>>, mode |-> mode] \in Locks(class, ids, mode)
      BY DEF Locks
    <2> QED  BY <1>1, <2>1 DEF Sound, Has, Holds
  <1>2. {"advisoryMenu", "advisoryCategory", "lockProduct", "lockCategory", "lockMenu", "checkCategoryKey",
         "lockCategories", "cascade"} \subseteq LockingSteps
    BY DEF LockingSteps, SingleRowSteps, KeySteps, UnorderedSteps
  <1>3. Past(x, "advisoryMenu") =>
          Holds(x, "menuAdvisory", x.menu, IF x.op.kind = "DeleteMenu" THEN "Exclusive" ELSE "Shared")
    BY <1>1, <1>2 DEF Needs, FixedSteps, Fixed
  <1>4. Past(x, "advisoryCategory") =>
          Holds(x, "categoryAdvisory", x.op.category,
                IF x.op.kind = "DeleteCategory" THEN "Exclusive" ELSE "Shared")
    BY <1>1, <1>2 DEF Needs, FixedSteps, Fixed
  <1>5. Past(x, "lockProduct") => \A p \in x.op.products : LockedBy(x, <<"product", p>>)
    <2> SUFFICES ASSUME Past(x, "lockProduct")
                 PROVE  \A p \in x.op.products : LockedBy(x, <<"product", p>>)
      OBVIOUS
    <2>1. PICK mode : Needs(x, "lockProduct") = Locks("product", x.op.products, mode)
      BY DEF Needs, FixedSteps, Fixed
    <2>2. \A p \in x.op.products : Holds(x, "product", p, mode)
      BY <1>1, <1>2, <2>1
    <2> QED  BY <2>2 DEF Holds, LockedBy
  <1>6. Past(x, "lockCategory") =>
          Holds(x, "category", x.op.category, IF x.op.kind = "DeleteCategory" THEN "Update" ELSE "NoKeyUpdate")
    BY <1>1, <1>2 DEF Needs, FixedSteps, Fixed
  <1>7. Past(x, "lockMenu") /\ x.op.kind = "DeleteMenu" => Holds(x, "menu", x.op.menu, "Update")
    BY <1>1, <1>2 DEF Needs, FixedSteps, Fixed
  <1>8. Past(x, "checkCategoryKey") /\ Replaces(x) => Holds(x, "category", x.op.category, "KeyShare")
    <2>1. Replaces(x) => KeyLock(x) \in Needs(x, "checkCategoryKey")
      BY DEF Needs, FixedSteps
    <2> QED  BY <1>2, <2>1 DEF Sound, Has, Holds, KeyLock
  <1>9. Past(x, "lockCategories") /\ x.op.kind = "DeleteMenu" =>
          \A c \in CategoriesIn(x.op.menu) : Holds(x, "category", c, "Update")
    <2>1. x.op.kind = "DeleteMenu" => Locks("category", CategoriesIn(x.op.menu), "Update") \subseteq Needs(x, "lockCategories")
      BY DEF Needs, FixedSteps, Locks
    <2> QED  BY <1>1, <1>2, <2>1
  <1>10. Past(x, "cascade") =>
           \A p \in ProductsIn(DeletedCategories(x.op)) : Holds(x, "product", p, "Update")
    <2>1. Locks("product", ProductsIn(DeletedCategories(x.op)), "Update") \subseteq Needs(x, "cascade")
      BY DEF Needs, FixedSteps
    <2> QED  BY <1>1, <1>2, <2>1
  <1> QED  BY <1>3, <1>4, <1>5, <1>6, <1>7, <1>8, <1>9, <1>10

(* What a transaction holds when it commits. *)
LEMMA HeldAtCommit ==
  ASSUME NEW x \in Transaction, Sound(x), x.outcome = "running", x.pc > Len(StepsOf(x))
  PROVE  /\ x.todo = <<>>
         /\ x.op.kind \in Placers =>
              /\ Past(x, "rereadMenu")
              /\ Holds(x, "menuAdvisory", x.menu, "Shared")
              /\ Holds(x, "categoryAdvisory", x.op.category, "Shared")
              /\ Replaces(x) => Holds(x, "category", x.op.category, "KeyShare")
              /\ x.op.kind = "MoveProduct" => \A p \in x.op.products : LockedBy(x, <<"product", p>>)
         /\ x.op.kind \in {"CreateCategory", "MoveCategory"} =>
              /\ Holds(x, "menuAdvisory", x.op.menu, "Shared")
              /\ x.op.menu \in menus
              /\ x.op.kind = "MoveCategory" => Holds(x, "category", x.op.category, "NoKeyUpdate")
         /\ x.op.kind = "DeleteProduct" => \A p \in x.op.products : LockedBy(x, <<"product", p>>)
         /\ x.op.kind \in Deleters =>
              /\ \A c \in DeletedCategories(x.op) : Holds(x, "category", c, "Update")
              /\ \A p \in ProductsIn(DeletedCategories(x.op)) : Holds(x, "product", p, "Update")
         /\ x.op.kind = "DeleteMenu" =>
              /\ Holds(x, "menuAdvisory", x.op.menu, "Exclusive")
              /\ Holds(x, "menu", x.op.menu, "Update")
         /\ x.op.kind = "DeleteCategory" => Holds(x, "categoryAdvisory", x.op.category, "Exclusive")
  <1>1. x.pc \in Nat \ {0} /\ x.op.kind \in Kinds
    BY DEF Transaction, Operation, Kinds
  <1>2. x.op.kind \notin Placers => x.menu = x.op.menu
    BY DEF Sound, WellFormed
  <1>3. x.todo = <<>>
    <2>1. \A s : ~Here(x, s)
      <3>1. Len(StepsOf(x)) \in Nat
        BY <1>1, StepsTable DEF StepsOf, Kinds, Steps
      <3> QED  BY <1>1, <3>1 DEF Here
    <2> QED  BY <2>1 DEF Sound, WellFormed
  <1>4. CASE x.op.kind \in Placers
    <2>1. Past(x, "checkCategoryKey")
      BY <1>1, <1>4, PlacerSteps
    <2>2. Past(x, "rereadMenu") /\ (x.op.kind = "MoveProduct" => Past(x, "lockProduct"))
      BY <1>1, <1>4, <2>1, PlacerSteps
    <2>3. Past(x, "advisoryMenu") /\ Past(x, "advisoryCategory")
      BY <1>1, <1>4, <2>2, PlacerSteps
    <2> QED  BY <1>3, <1>4, <2>1, <2>2, <2>3, HeldPast DEF Placers, Deleters
  <1>5. CASE x.op.kind \in {"CreateCategory", "MoveCategory"}
    <2>1. x.pc > 3 /\ (x.op.kind = "MoveCategory" => Past(x, "lockCategory"))
      BY <1>1, <1>5, CategoryWriterSteps
    <2>2. Past(x, "advisoryMenu")
      BY <1>1, <1>5, <2>1, CategoryWriterSteps
    <2>3. x.op.menu \in menus
      BY <1>5, <2>1 DEF Sound, MenuStands
    <2> QED  BY <1>2, <1>3, <1>5, <2>1, <2>2, <2>3, HeldPast DEF Placers, Deleters
  <1>6. CASE x.op.kind = "DeleteProduct"
    <2>1. Past(x, "lockProduct")
      BY <1>1, <1>6, ProductWriterSteps
    <2> QED  BY <1>3, <1>6, <2>1, HeldPast DEF Placers, Deleters
  <1>7. CASE x.op.kind = "DeleteMenu"
    <2>1. Past(x, "cascade")
      BY <1>1, <1>7, DeleteMenuSteps_
    <2>2. Past(x, "advisoryMenu") /\ Past(x, "lockCategories") /\ Past(x, "lockMenu")
      BY <1>1, <1>7, <2>1, DeleteMenuSteps_
    <2>3. DeletedCategories(x.op) = CategoriesIn(x.op.menu)
      BY <1>7 DEF DeletedCategories
    <2> QED  BY <1>2, <1>3, <1>7, <2>1, <2>2, <2>3, HeldPast DEF Placers, Deleters
  <1>8. CASE x.op.kind = "DeleteCategory"
    <2>1. Past(x, "cascade")
      BY <1>1, <1>8, DeleteCategorySteps_
    <2>2. Past(x, "advisoryCategory") /\ Past(x, "lockCategory")
      BY <1>1, <1>8, <2>1, DeleteCategorySteps_
    <2>3. DeletedCategories(x.op) = {x.op.category}
      BY <1>8 DEF DeletedCategories
    <2> QED  BY <1>3, <1>8, <2>1, <2>2, <2>3, HeldPast DEF Placers, Deleters
  <1>9. CASE x.op.kind \notin Placers \cup Deleters \cup {"CreateCategory", "MoveCategory", "DeleteProduct"}
    BY <1>3, <1>9 DEF Deleters
  <1> QED  BY <1>4, <1>5, <1>6, <1>7, <1>8, <1>9 DEF Deleters

(* The rows a commit changes. *)
LEMMA ProductChanges ==
  ASSUME WriterInv, NEW u \in Tx, Commit(u), NEW x, x = tx[u], NEW p \in Product
  PROVE  /\ categoryOf'[p] # categoryOf[p] =>
              \/ /\ x.op.kind = "CreateProduct" /\ p \in x.op.products /\ categoryOf[p] = Gone
                 /\ categoryOf'[p] = x.op.category /\ Replaces(x)
              \/ /\ x.op.kind \in Placers /\ LockedBy(x, <<"product", p>>)
                 /\ categoryOf'[p] = x.op.category /\ Replaces(x)
              \/ categoryOf'[p] = Gone /\ LockedBy(x, <<"product", p>>)
         /\ x.op.kind \in Deleters /\ p \in ProductsIn(DeletedCategories(x.op)) => categoryOf'[p] = Gone
  <1> DEFINE o == x.op
  <1>1. x \in Transaction /\ Sound(x) /\ x.outcome = "running" /\ x.pc > Len(StepsOf(x))
    BY DEF WriterInv, WriterTypeOK, Commit, Running, StepsOf
  <1>2. PICK placed : placed = CASE o.kind \in {"CreateProduct", "MoveProduct"} -> o.products
                                 [] o.kind = "ReorderProducts" -> LockedProducts(u)
                                 [] OTHER -> {}
    OBVIOUS
  <1>3. PICK deleted : deleted = IF o.kind = "DeleteProduct" THEN o.products ELSE ProductsIn(DeletedCategories(o))
    OBVIOUS
  <1>4. categoryOf'[p] = CASE p \in placed  -> o.category
                           [] p \in deleted -> Gone
                           [] OTHER         -> categoryOf[p]
    BY <1>2, <1>3 DEF Commit
  <1>5. o.kind \notin Deleters => DeletedCategories(o) = {}
    BY DEF DeletedCategories, Deleters
  <1>6. ProductsIn({}) = {}
    BY DEF ProductsIn
  <1>7. CASE o.kind \in Placers
    <2>1. deleted = {}
      BY <1>3, <1>5, <1>6, <1>7 DEF Placers, Deleters
    <2>2. p \notin placed => categoryOf'[p] = categoryOf[p]
      BY <1>4, <2>1
    <2>3. p \in placed => categoryOf'[p] = o.category
      BY <1>4, <2>1
    <2>4. CASE o.kind = "CreateProduct"
      BY <1>1, <1>2, <2>2, <2>3, <2>4 DEF Sound, CreatesNew, Replaces, Deleters
    <2>5. CASE o.kind = "MoveProduct"
      <3>1. p \in placed => LockedBy(x, <<"product", p>>)
        BY <1>1, <1>2, <2>5, HeldAtCommit DEF Placers
      <3> QED  BY <1>7, <2>2, <2>3, <2>5, <3>1 DEF Replaces, Deleters
    <2>6. CASE o.kind = "ReorderProducts"
      <3>1. p \in placed => LockedBy(x, <<"product", p>>)
        BY <1>2, <2>6 DEF LockedProducts, Locked, LockedBy
      <3> QED  BY <1>7, <2>2, <2>3, <2>6, <3>1 DEF Replaces, Deleters
    <2> QED  BY <1>7, <2>4, <2>5, <2>6 DEF Placers
  <1>8. CASE o.kind \notin Placers
    <2>1. placed = {}
      BY <1>2, <1>8 DEF Placers
    <2>2. categoryOf'[p] = IF p \in deleted THEN Gone ELSE categoryOf[p]
      BY <1>4, <2>1
    <2>3. CASE o.kind = "DeleteProduct"
      <3>1. p \in deleted => LockedBy(x, <<"product", p>>)
        BY <1>1, <1>3, <2>3, HeldAtCommit
      <3> QED  BY <2>2, <2>3, <3>1 DEF Deleters
    <2>4. CASE o.kind \in Deleters
      <3>1. deleted = ProductsIn(DeletedCategories(o))
        BY <1>3, <2>4 DEF Deleters
      <3>2. p \in deleted => LockedBy(x, <<"product", p>>)
        BY <1>1, <2>4, <3>1, HeldAtCommit DEF Holds, LockedBy
      <3> QED  BY <2>2, <3>1, <3>2
    <2>5. CASE o.kind \notin Deleters \cup {"DeleteProduct"}
      <3>1. deleted = {}
        BY <1>3, <1>5, <1>6, <2>5
      <3> QED  BY <2>2, <2>5, <3>1
    <2> QED  BY <2>3, <2>4, <2>5
  <1> QED  BY <1>7, <1>8

LEMMA CategoryChanges ==
  ASSUME WriterInv, NEW u \in Tx, Commit(u), NEW x, x = tx[u], NEW c \in Category
  PROVE  /\ menuOf'[c] # menuOf[c] =>
              \/ x.op.kind = "CreateCategory" /\ c = x.op.category /\ menuOf[c] = Gone /\ menuOf'[c] = x.op.menu
              \/ /\ x.op.kind = "MoveCategory" /\ c = x.op.category /\ menuOf'[c] = x.op.menu
                 /\ LockedBy(x, <<"category", c>>)
              \/ /\ x.op.kind \in Deleters /\ c \in DeletedCategories(x.op) /\ menuOf'[c] = Gone
                 /\ Holds(x, "category", c, "Update")
         /\ x.op.kind \in Deleters /\ c \in DeletedCategories(x.op) => menuOf'[c] = Gone
  <1> DEFINE o == x.op
  <1>1. x \in Transaction /\ Sound(x) /\ x.outcome = "running" /\ x.pc > Len(StepsOf(x))
    BY DEF WriterInv, WriterTypeOK, Commit, Running, StepsOf
  <1>2. menuOf'[c] = CASE c \in DeletedCategories(o) -> Gone
                       [] c = o.category /\ o.kind \in {"CreateCategory", "MoveCategory"} -> o.menu
                       [] OTHER -> menuOf[c]
    BY DEF Commit
  <1>3. o.kind \notin Deleters => DeletedCategories(o) = {}
    BY DEF DeletedCategories, Deleters
  <1>4. CASE o.kind \in Deleters
    <2>1. menuOf'[c] = IF c \in DeletedCategories(o) THEN Gone ELSE menuOf[c]
      BY <1>2, <1>4 DEF Deleters
    <2>2. c \in DeletedCategories(o) => Holds(x, "category", c, "Update")
      BY <1>1, <1>4, HeldAtCommit
    <2> QED  BY <1>4, <2>1, <2>2
  <1>5. CASE o.kind = "CreateCategory"
    <2>1. menuOf'[c] = IF c = o.category THEN o.menu ELSE menuOf[c]
      BY <1>2, <1>3, <1>5 DEF Deleters
    <2>2. menuOf[o.category] = Gone
      BY <1>1, <1>5 DEF Sound, CreatesNew
    <2> QED  BY <1>5, <2>1, <2>2 DEF Deleters
  <1>6. CASE o.kind = "MoveCategory"
    <2>1. menuOf'[c] = IF c = o.category THEN o.menu ELSE menuOf[c]
      BY <1>2, <1>3, <1>6 DEF Deleters
    <2>2. LockedBy(x, <<"category", o.category>>)
      BY <1>1, <1>6, HeldAtCommit DEF Holds, LockedBy
    <2> QED  BY <1>6, <2>1, <2>2 DEF Deleters
  <1>7. CASE o.kind \notin Deleters \cup {"CreateCategory", "MoveCategory"}
    <2>1. menuOf'[c] = menuOf[c]
      BY <1>2, <1>3, <1>7
    <2> QED  BY <1>7, <2>1
  <1> QED  BY <1>4, <1>5, <1>6, <1>7

LEMMA MenuChanges ==
  ASSUME WriterInv, NEW u \in Tx, Commit(u), NEW x, x = tx[u], NEW m \in menus, m \notin menus'
  PROVE  /\ x.op.kind = "DeleteMenu" /\ m = x.op.menu
         /\ Holds(x, "menuAdvisory", m, "Exclusive") /\ Holds(x, "menu", m, "Update")
  <1>1. x \in Transaction /\ Sound(x) /\ x.outcome = "running" /\ x.pc > Len(StepsOf(x))
    BY DEF WriterInv, WriterTypeOK, Commit, Running, StepsOf
  <1>2. x.op.kind = "DeleteMenu" /\ m = x.op.menu
    BY DEF Commit
  <1> QED  BY <1>1, <1>2, HeldAtCommit

(* Two transactions do not hold locks that conflict. *)
LEMMA NotBoth ==
  ASSUME Compatible, NEW t \in Tx, NEW u \in Tx, t # u, NEW class, NEW id, NEW a, NEW b,
         Holds(tx[t], class, id, a), Holds(tx[u], class, id, b)
  PROVE  ~Conflicts(a, b)
  BY DEF Compatible, Holds

(* What another transaction has locked stays as it is, or at least there. *)
LEMMA LockedStays ==
  ASSUME WriterInv, NEW u \in Tx, Commit(u), NEW t \in Tx, t # u, NEW z, z = tx[t]
  PROVE  /\ \A p \in Product : LockedBy(z, <<"product", p>>) =>
              categoryOf'[p] = categoryOf[p] /\ categoryOf[p] # Gone
         /\ \A c \in Category : LockedBy(z, <<"category", c>>) => menuOf'[c] # Gone /\ menuOf[c] # Gone
         /\ \A m \in Menu : LockedBy(z, <<"menu", m>>) => m \in menus'
  <1>1. PICK x : x = tx[u]
    OBVIOUS
  <1>2. /\ x \in Transaction /\ Sound(x) /\ x.outcome = "running" /\ x.pc > Len(StepsOf(x))
        /\ z \in Transaction /\ Sound(z) /\ Compatible
    BY <1>1 DEF WriterInv, WriterTypeOK, Commit, Running, StepsOf
  <1>3. ASSUME NEW p \in Product, LockedBy(z, <<"product", p>>)
        PROVE  categoryOf'[p] = categoryOf[p] /\ categoryOf[p] # Gone
    <2>1. categoryOf[p] # Gone
      BY <1>2, <1>3 DEF Sound, RowsThere, LockedBy, Exists
    <2>2. ~LockedBy(x, <<"product", p>>)
      <3>1. ASSUME NEW l \in z.held, NEW k \in x.held, l.what = <<"product", p>>, k.what = <<"product", p>>
            PROVE  FALSE
        <4>1. l.mode \in {"NoKeyUpdate", "Update"} /\ k.mode \in {"NoKeyUpdate", "Update"}
          BY <1>2, <3>1 DEF Sound, WellFormed
        <4>2. ~Conflicts(l.mode, k.mode)
          BY <1>1, <1>2, <3>1 DEF Compatible
        <4> QED  BY <4>1, <4>2 DEF Conflicts
      <3> QED  BY <1>3, <3>1 DEF LockedBy
    <2> QED  BY <1>1, <2>1, <2>2, ProductChanges
  <1>4. ASSUME NEW c \in Category, LockedBy(z, <<"category", c>>)
        PROVE  menuOf'[c] # Gone /\ menuOf[c] # Gone
    <2>1. menuOf[c] # Gone
      BY <1>2, <1>4 DEF Sound, RowsThere, LockedBy, Exists
    <2>2. ~Holds(x, "category", c, "Update")
      BY <1>1, <1>2, <1>4 DEF Compatible, Conflicts, Holds, LockedBy
    <2>3. x.op.menu # Gone
      BY <1>2, WriterConstants DEF Transaction, Operation
    <2> QED  BY <1>1, <2>1, <2>2, <2>3, CategoryChanges
  <1>5. ASSUME NEW m \in Menu, LockedBy(z, <<"menu", m>>)
        PROVE  m \in menus'
    <2>1. m \in menus
      BY <1>2, <1>5 DEF Sound, RowsThere, LockedBy, Exists
    <2>2. ~Holds(x, "menu", m, "Update")
      BY <1>1, <1>2, <1>5 DEF Compatible, Conflicts, Holds, LockedBy
    <2> QED  BY <1>1, <2>1, <2>2, MenuChanges
  <1> QED  BY <1>3, <1>4, <1>5

LEMMA CommitKeepsTree ==
  ASSUME WriterInv, NEW u \in Tx, Commit(u)
  PROVE  WriterTypeOK' /\ TreeIntact' /\ menus' \subseteq menus
  <1>1. PICK x : x = tx[u]
    OBVIOUS
  <1>2. /\ x \in Transaction /\ Sound(x) /\ x.outcome = "running" /\ x.pc > Len(StepsOf(x))
        /\ x.op.category \in Category /\ x.op.menu \in Menu /\ Gone \notin Menu /\ Gone \notin Category
        /\ WriterTypeOK /\ TreeIntact
    BY <1>1, WriterConstants DEF WriterInv, WriterTypeOK, Commit, Running, StepsOf, Transaction, Operation
  <1>3. menus' \subseteq menus
    BY DEF Commit
  <1>4. \A p \in Product : categoryOf'[p] \in {categoryOf[p], x.op.category, Gone}
    BY <1>1, ProductChanges
  <1>5. \A c \in Category : menuOf'[c] \in {menuOf[c], x.op.menu, Gone}
    BY <1>1, CategoryChanges
  <1>6. WriterTypeOK'
    <2>1. categoryOf' \in [Product -> Category \cup {Gone}]
      <3>1. \E f : categoryOf' = [p \in Product |-> f[p]]
        BY DEF Commit
      <3> QED  BY <1>2, <1>4, <3>1 DEF WriterTypeOK
    <2>2. menuOf' \in [Category -> Menu \cup {Gone}]
      <3>1. \E f : menuOf' = [c \in Category |-> f[c]]
        BY DEF Commit
      <3> QED  BY <1>2, <1>5, <3>1 DEF WriterTypeOK
    <2>3. tx' \in [Tx -> Transaction]
      <3>1. End(u, "ok")
        BY DEF Commit
      <3>2. PICK y \in Transaction : Goes(u, y)
        BY <1>1, <1>2, <3>1, Ends
      <3> QED  BY <1>2, <3>2 DEF Goes, WriterTypeOK
    <2> QED  BY <1>2, <1>3, <2>1, <2>2, <2>3 DEF WriterTypeOK
  <1>7. ASSUME NEW p \in Product, categoryOf'[p] # Gone
        PROVE  menuOf'[categoryOf'[p]] # Gone
    <2>1. CASE categoryOf'[p] = categoryOf[p]
      <3>1. PICK c \in Category : c = categoryOf[p] /\ menuOf[c] # Gone
        BY <1>2, <1>7, <2>1 DEF WriterTypeOK, TreeIntact
      <3>2. ~(x.op.kind \in Deleters /\ c \in DeletedCategories(x.op))
        BY <1>1, <1>7, <2>1, <3>1, ProductChanges DEF ProductsIn
      <3> QED  BY <1>1, <1>2, <2>1, <3>1, <3>2, CategoryChanges
    <2>2. CASE categoryOf'[p] # categoryOf[p]
      <3>1. x.op.kind \in Placers /\ categoryOf'[p] = x.op.category /\ Replaces(x)
        BY <1>1, <1>7, <2>2, ProductChanges DEF Placers
      <3>2. Holds(x, "category", x.op.category, "KeyShare")
        BY <1>2, <3>1, HeldAtCommit
      <3>3. menuOf[x.op.category] # Gone
        BY <1>2, <3>2 DEF Sound, RowsThere, Holds, Exists
      <3>4. menuOf'[x.op.category] = menuOf[x.op.category]
        BY <1>1, <1>2, <3>1, CategoryChanges DEF Placers, Deleters
      <3> QED  BY <3>1, <3>3, <3>4
    <2> QED  BY <2>1, <2>2
  <1>8. ASSUME NEW c \in Category, menuOf'[c] # Gone
        PROVE  menuOf'[c] \in menus'
    <2>1. CASE menuOf'[c] = menuOf[c]
      <3>1. menuOf[c] \in menus
        BY <1>2, <1>8, <2>1 DEF TreeIntact
      <3>2. ~(x.op.kind = "DeleteMenu" /\ menuOf[c] = x.op.menu)
        <4>1. ASSUME x.op.kind = "DeleteMenu", menuOf[c] = x.op.menu  PROVE  FALSE
          <5>1. c \in DeletedCategories(x.op)
            BY <4>1 DEF DeletedCategories, CategoriesIn
          <5> QED  BY <1>1, <1>8, <4>1, <5>1, CategoryChanges DEF Deleters
        <4> QED  BY <4>1
      <3> QED  BY <1>1, <2>1, <3>1, <3>2, MenuChanges
    <2>2. CASE menuOf'[c] # menuOf[c]
      <3>1. x.op.kind \in {"CreateCategory", "MoveCategory"} /\ menuOf'[c] = x.op.menu
        BY <1>1, <1>8, <2>2, CategoryChanges
      <3>2. x.op.menu \in menus
        BY <1>2, <3>1, HeldAtCommit
      <3> QED  BY <1>1, <3>1, <3>2, MenuChanges
    <2> QED  BY <2>1, <2>2
  <1> QED  BY <1>3, <1>6, <1>7, <1>8 DEF TreeIntact

(* Another transaction still has what its statements needed. *)
LEMMA CommitKeepsHas ==
  ASSUME WriterInv, NEW u \in Tx, Commit(u), NEW t \in Tx, t # u, NEW z, z = tx[t]
  PROVE  Has(z)'
  <1>1. PICK x : x = tx[u]
    OBVIOUS
  <1>2. /\ x \in Transaction /\ Sound(x) /\ x.outcome = "running" /\ x.pc > Len(StepsOf(x))
        /\ z \in Transaction /\ Sound(z) /\ Compatible /\ z.pc \in Nat \ {0} /\ z.op.kind \in Kinds
        /\ x.op.category \in Category /\ z.op.category \in Category
    BY <1>1 DEF WriterInv, WriterTypeOK, Commit, Running, StepsOf, Transaction, Operation, Kinds
  <1>3. ASSUME NEW class, NEW id, NEW a, NEW b, Holds(x, class, id, a), Holds(z, class, id, b)
        PROVE  ~Conflicts(a, b)
    BY <1>1, <1>2, <1>3, NotBoth
  <1>4. z.op.kind \notin Placers => z.menu = z.op.menu
    BY <1>2 DEF Sound, WellFormed
  <1>5. ASSUME NEW p \in Product, categoryOf'[p] # categoryOf[p], categoryOf'[p] \in Category
        PROVE  /\ x.op.kind \in Placers /\ categoryOf'[p] = x.op.category
               /\ Holds(x, "category", x.op.category, "KeyShare")
               /\ Holds(x, "categoryAdvisory", x.op.category, "Shared")
    <2>1. \/ x.op.kind = "CreateProduct" /\ categoryOf'[p] = x.op.category /\ Replaces(x)
          \/ x.op.kind \in Placers /\ categoryOf'[p] = x.op.category /\ Replaces(x)
          \/ categoryOf'[p] = Gone
      BY <1>1, <1>5, ProductChanges
    <2>2. categoryOf'[p] # Gone /\ "CreateProduct" \in Placers
      BY <1>5, WriterConstants DEF Placers
    <2>3. x.op.kind \in Placers /\ categoryOf'[p] = x.op.category /\ Replaces(x)
      BY <2>1, <2>2
    <2> QED  BY <1>2, <2>3, HeldAtCommit
  <1>6. ASSUME z.op.kind = "DeleteMenu", Past(z, "advisoryMenu")
        PROVE  CategoriesIn(z.op.menu)' \subseteq CategoriesIn(z.op.menu)
    <2>1. Holds(z, "menuAdvisory", z.op.menu, "Exclusive")
      BY <1>2, <1>4, <1>6, HeldPast DEF Placers
    <2> SUFFICES ASSUME NEW c \in Category, menuOf'[c] = z.op.menu, menuOf[c] # z.op.menu
                 PROVE  FALSE
      BY DEF CategoriesIn
    <2>2. z.op.menu # Gone
      BY <1>2, WriterConstants DEF Transaction, Operation
    <2>3. x.op.kind \in {"CreateCategory", "MoveCategory"} /\ x.op.menu = z.op.menu
      BY <1>1, <2>2, CategoryChanges
    <2>4. Holds(x, "menuAdvisory", z.op.menu, "Shared")
      BY <1>2, <2>3, HeldAtCommit
    <2> QED  BY <1>3, <2>1, <2>4 DEF Conflicts
  <1>7. ASSUME NEW step \in LockingSteps, Past(z, step) \/ Begun(z, step)
        PROVE  Needs(z, step)' \subseteq Needs(z, step)
    <2>1. Past(z, step) \/ Here(z, step)
      BY <1>7 DEF Begun
    <2>2. CASE step \in FixedSteps
      BY <2>2 DEF Needs, Fixed
    <2>3. CASE step = "checkCategoryKey"
      <3>1. \A p \in Product : LockedBy(z, <<"product", p>>) => categoryOf'[p] = categoryOf[p]
        BY LockedStays
      <3>2. Replaces(z)' => Replaces(z)
        BY <3>1 DEF Replaces, LockedBy
      <3> QED  BY <2>3, <3>2 DEF Needs, FixedSteps, KeyLock
    <2>4. CASE step = "lockCategories"
      <3>1. z.op.kind = "DeleteMenu" => Past(z, "advisoryMenu")
        BY <1>2, <2>1, <2>4, DeleteMenuSteps_
      <3>2. z.op.kind = "DeleteMenu" => CategoriesIn(z.op.menu)' \subseteq CategoriesIn(z.op.menu)
        BY <1>6, <3>1
      <3> QED  BY <2>4, <3>2 DEF Needs, FixedSteps, Locks
    <2>5. CASE step = "lockProducts"
      <3>1. ASSUME z.op.kind = "DeleteCategory", NEW p \in Product, categoryOf'[p] = z.op.category
            PROVE  categoryOf[p] = z.op.category
        <4>1. Past(z, "advisoryCategory")
          BY <1>2, <2>1, <2>5, <3>1, DeleteCategorySteps_
        <4>2. Holds(z, "categoryAdvisory", z.op.category, "Exclusive")
          BY <1>2, <3>1, <4>1, HeldPast
        <4> QED  BY <1>2, <1>3, <1>5, <3>1, <4>2 DEF Conflicts
      <3> QED  BY <2>5, <3>1 DEF Needs, FixedSteps, Locks, ProductsIn
    <2>6. CASE step = "cascade"
      <3>1. z.op.kind \in Deleters
        BY <1>2, <2>1, <2>6, StepOwners
      <3>2. DeletedCategories(z.op)' \subseteq DeletedCategories(z.op)
        <4>1. CASE z.op.kind = "DeleteMenu"
          <5>1. Past(z, "advisoryMenu")
            BY <1>2, <2>1, <2>6, <4>1, DeleteMenuSteps_
          <5> QED  BY <1>6, <4>1, <5>1 DEF DeletedCategories
        <4>2. CASE z.op.kind = "DeleteCategory"
          BY <4>2 DEF DeletedCategories
        <4> QED  BY <3>1, <4>1, <4>2 DEF Deleters
      <3>3. \A c \in DeletedCategories(z.op) : Holds(z, "category", c, "Update")
        <4>1. CASE z.op.kind = "DeleteMenu"
          <5>1. Past(z, "lockCategories")
            BY <1>2, <2>1, <2>6, <4>1, DeleteMenuSteps_
          <5> QED  BY <1>2, <4>1, <5>1, HeldPast DEF DeletedCategories
        <4>2. CASE z.op.kind = "DeleteCategory"
          <5>1. Past(z, "lockCategory")
            BY <1>2, <2>1, <2>6, <4>2, DeleteCategorySteps_
          <5> QED  BY <1>2, <4>2, <5>1, HeldPast DEF DeletedCategories
        <4> QED  BY <3>1, <4>1, <4>2 DEF Deleters
      <3>4. ASSUME NEW p \in Product, categoryOf'[p] \in DeletedCategories(z.op)
            PROVE  categoryOf[p] \in DeletedCategories(z.op)
        <4>1. DeletedCategories(z.op) \subseteq Category
          BY <1>2 DEF DeletedCategories, CategoriesIn
        <4> QED  BY <1>3, <1>5, <3>3, <3>4, <4>1 DEF Conflicts
      <3>5. ProductsIn(DeletedCategories(z.op))' \subseteq ProductsIn(DeletedCategories(z.op))
        BY <3>2, <3>4 DEF ProductsIn
      <3> QED  BY <2>6, <3>5 DEF Needs, FixedSteps, Locks
    <2>7. CASE step \notin FixedSteps \cup {"checkCategoryKey", "lockCategories", "lockProducts", "cascade"}
      BY <2>7 DEF Needs
    <2> QED  BY <2>2, <2>3, <2>4, <2>5, <2>6, <2>7
  <1> QED  BY <1>2, <1>7 DEF Sound, Has

LEMMA CommitKeepsSound ==
  ASSUME WriterInv, NEW u \in Tx, Commit(u), NEW t \in Tx, t # u, NEW z, z = tx[t]
  PROVE  Sound(z)'
  <1>1. PICK x : x = tx[u]
    OBVIOUS
  <1>2. /\ x \in Transaction /\ Sound(x) /\ x.outcome = "running" /\ x.pc > Len(StepsOf(x))
        /\ z \in Transaction /\ Sound(z) /\ Compatible /\ z.pc \in Nat \ {0}
        /\ z.op.products \subseteq Product /\ z.op.category \in Category
        /\ x.op \in Requests[u] /\ z.op \in Requests[t]
    BY <1>1 DEF WriterInv, WriterTypeOK, Commit, Running, StepsOf, Transaction, Operation
  <1>3. WellFormed(z)' /\ UnderDeleted(z)'
    BY <1>2 DEF Sound
  <1>4. Has(z)'
    BY CommitKeepsHas
  <1>5. OnlyCounted(z)'
    BY <1>2, LockedStays DEF Sound, OnlyCounted
  <1>6. RowsThere(z)'
    <2> SUFFICES ASSUME NEW l \in z.held  PROVE  Exists(l.what)'
      BY DEF RowsThere
    <2>1. l.what \in Lockable /\ LockedBy(z, l.what)
      BY <1>2 DEF Transaction, LockedBy
    <2>2. CASE \E p \in Product : l.what = <<"product", p>>
      BY <2>1, <2>2, LockedStays DEF Exists
    <2>3. CASE \E c \in Category : l.what = <<"category", c>>
      BY <2>1, <2>3, LockedStays DEF Exists
    <2>4. CASE \E m \in Menu : l.what = <<"menu", m>>
      BY <2>1, <2>4, LockedStays DEF Exists
    <2>5. CASE l.what[1] \in {"menuAdvisory", "categoryAdvisory"}
      BY <2>5 DEF Exists
    <2> QED  BY <2>1, <2>2, <2>3, <2>4, <2>5 DEF Lockable
  <1>7. CreatesNew(z)'
    <2>1. ASSUME z.outcome = "running", z.op.kind = "CreateProduct", NEW p \in z.op.products
          PROVE  categoryOf'[p] = Gone
      <3>1. categoryOf[p] = Gone
        BY <1>2, <2>1 DEF Sound, CreatesNew
      <3>2. ~LockedBy(x, <<"product", p>>)
        BY <1>2, <3>1 DEF Sound, RowsThere, LockedBy, Exists
      <3>3. ~(x.op.kind = "CreateProduct" /\ p \in x.op.products)
        <4>1. ASSUME x.op.kind = "CreateProduct", p \in x.op.products  PROVE  FALSE
          <5>1. x.op.products # z.op.products
            BY <1>2, <2>1, <4>1, RequestConstants
          <5>2. (\E i \in Product : x.op.products = {i}) /\ (\E i \in Product : z.op.products = {i})
            BY <1>2, <2>1, <4>1, RequestConstants
          <5> QED  BY <2>1, <4>1, <5>1, <5>2
        <4> QED  BY <4>1
      <3> QED  BY <1>1, <1>2, <3>1, <3>2, <3>3, ProductChanges
    <2>2. ASSUME z.outcome = "running", z.op.kind = "CreateCategory"
          PROVE  menuOf'[z.op.category] = Gone
      <3>1. menuOf[z.op.category] = Gone
        BY <1>2, <2>2 DEF Sound, CreatesNew
      <3>2. ~LockedBy(x, <<"category", z.op.category>>)
        BY <1>2, <3>1 DEF Sound, RowsThere, LockedBy, Exists
      <3>3. ~(x.op.kind = "CreateCategory" /\ z.op.category = x.op.category)
        BY <1>2, <2>2, RequestConstants
      <3> QED  BY <1>1, <1>2, <3>1, <3>2, <3>3, CategoryChanges
    <2> QED  BY <2>1, <2>2 DEF CreatesNew
  <1>8. MenuStands(z)'
    <2> SUFFICES ASSUME z.op.kind \in {"CreateCategory", "MoveCategory"}, z.outcome = "running", z.pc > 3
                 PROVE  z.op.menu \in menus'
      BY DEF MenuStands
    <2>1. z.op.menu \in menus
      BY <1>2 DEF Sound, MenuStands
    <2>2. Past(z, "advisoryMenu") /\ z.menu = z.op.menu
      BY <1>2, CategoryWriterSteps DEF Sound, WellFormed, Placers
    <2>3. Holds(z, "menuAdvisory", z.op.menu, "Shared")
      BY <1>2, <2>2, HeldPast
    <2>4. ~Holds(x, "menuAdvisory", z.op.menu, "Exclusive")
      BY <1>1, <1>2, <2>3, NotBoth DEF Conflicts
    <2> QED  BY <1>1, <2>1, <2>4, MenuChanges
  <1> QED  BY <1>3, <1>4, <1>5, <1>6, <1>7, <1>8 DEF Sound

LEMMA CommitKeepsOrdered ==
  ASSUME WriterInv, OrderInv, NoCategoryMoves, NEW u \in Tx, Commit(u), NEW t \in Tx, t # u, NEW z, z = tx[t]
  PROVE  Ordered(z)'
  <1>1. PICK x : x = tx[u]
    OBVIOUS
  <1>2. /\ x \in Transaction /\ Sound(x) /\ x.outcome = "running" /\ x.pc > Len(StepsOf(x)) /\ Ordered(x)
        /\ z \in Transaction /\ Sound(z) /\ Compatible /\ z.pc \in Nat \ {0} /\ Ordered(z)
        /\ x.op.category \in Category /\ z.op.category \in Category /\ z.menu \in Menu /\ z.op.menu \in Menu
        /\ Gone \notin Menu /\ Gone \notin Category
        /\ KnownCategory(z) /\ x.op.kind # "MoveCategory" /\ z.priced \subseteq Product
    BY <1>1, WriterConstants DEF WriterInv, OrderInv, NoCategoryMoves, WriterTypeOK, Commit, Running, StepsOf,
         Transaction, Operation
  <1>3. ASSUME NEW class, NEW id, NEW a, NEW b, Holds(x, class, id, a), Holds(z, class, id, b)
        PROVE  ~Conflicts(a, b)
    BY <1>1, <1>2, <1>3, NotBoth
  <1>4. ASSUME NEW c \in Category, menuOf'[c] # menuOf[c], menuOf'[c] # Gone
        PROVE  /\ x.op.kind = "CreateCategory" /\ c = x.op.category /\ menuOf[c] = Gone /\ menuOf'[c] = x.op.menu
               /\ Holds(x, "menuAdvisory", menuOf'[c], "Shared")
    <2>1. \/ x.op.kind = "CreateCategory" /\ c = x.op.category /\ menuOf[c] = Gone /\ menuOf'[c] = x.op.menu
          \/ x.op.kind = "MoveCategory"
          \/ menuOf'[c] = Gone
      BY <1>1, <1>4, CategoryChanges
    <2>2. x.op.kind = "CreateCategory" /\ c = x.op.category /\ menuOf[c] = Gone /\ menuOf'[c] = x.op.menu
      BY <1>2, <1>4, <2>1
    <2> QED  BY <1>2, <2>2, HeldAtCommit
  <1>5. ASSUME NEW c \in Category, menuOf'[c] = Gone, menuOf[c] # Gone
        PROVE  \/ Holds(x, "menuAdvisory", menuOf[c], "Exclusive")
               \/ Holds(x, "categoryAdvisory", c, "Exclusive")
    <2>1. x.op.kind \in Deleters /\ c \in DeletedCategories(x.op)
      <3>1. x.op.menu # Gone
        BY <1>2 DEF Transaction, Operation
      <3> QED  BY <1>1, <1>2, <1>5, <3>1, CategoryChanges
    <2>2. CASE x.op.kind = "DeleteMenu"
      <3>1. menuOf[c] = x.op.menu
        BY <2>1, <2>2 DEF DeletedCategories, CategoriesIn
      <3> QED  BY <1>2, <2>2, <3>1, HeldAtCommit
    <2>3. CASE x.op.kind = "DeleteCategory"
      <3>1. c = x.op.category
        BY <2>1, <2>3 DEF DeletedCategories
      <3> QED  BY <1>2, <2>3, <3>1, HeldAtCommit
    <2> QED  BY <2>1, <2>2, <2>3 DEF Deleters
  <1>6. MenuKept(z)'
    <2> SUFFICES ASSUME z.op.kind \in Placers
                 PROVE  /\ Past(z, "readMenu") => menuOf'[z.op.category] \in {z.menu, Gone}
                        /\ Past(z, "rereadMenu") => menuOf'[z.op.category] = z.menu
      BY DEF MenuKept
    <2>1. ASSUME Past(z, "readMenu")  PROVE  menuOf'[z.op.category] \in {z.menu, Gone}
      <3>1. menuOf[z.op.category] \in {z.menu, Gone}
        BY <1>2, <2>1 DEF Ordered, MenuKept
      <3>2. ~(x.op.kind = "CreateCategory" /\ z.op.category = x.op.category)
        BY <1>1, <1>2, <2>1 DEF KnownCategory, Running
      <3> QED  BY <1>2, <1>4, <3>1, <3>2
    <2>2. ASSUME Past(z, "rereadMenu")  PROVE  menuOf'[z.op.category] = z.menu
      <3>1. menuOf[z.op.category] = z.menu
        BY <1>2, <2>2 DEF Ordered, MenuKept
      <3>2. Past(z, "readMenu") /\ Past(z, "advisoryMenu") /\ Past(z, "advisoryCategory")
        BY <1>2, <2>2, PlacerSteps
      <3>3. Holds(z, "menuAdvisory", z.menu, "Shared") /\ Holds(z, "categoryAdvisory", z.op.category, "Shared")
        BY <1>2, <3>2, HeldPast DEF Placers
      <3>4. menuOf'[z.op.category] # Gone
        BY <1>2, <1>3, <1>5, <3>1, <3>3 DEF Conflicts
      <3> QED  BY <2>1, <3>2, <3>4
    <2> QED  BY <2>1, <2>2
  <1>7. ASSUME z.op.kind = "DeleteMenu", Past(z, "advisoryMenu"), NEW p \in Product,
               categoryOf'[p] \in Category, menuOf'[categoryOf'[p]] = z.op.menu
        PROVE  p \in ProductsIn(CategoriesIn(z.op.menu)) /\ categoryOf'[p] = categoryOf[p]
    <2>1. Holds(z, "menuAdvisory", z.op.menu, "Exclusive")
      <3>1. z.menu = z.op.menu
        BY <1>2, <1>7 DEF Sound, WellFormed, Placers
      <3> QED  BY <1>2, <1>7, <3>1, HeldPast
    <2>2. ~Holds(x, "menuAdvisory", z.op.menu, "Shared")
      BY <1>3, <2>1 DEF Conflicts
    <2>3. menuOf[categoryOf'[p]] = z.op.menu
      BY <1>2, <1>4, <1>7, <2>2
    <2>4. categoryOf'[p] = categoryOf[p]
      <3> SUFFICES ASSUME categoryOf'[p] # categoryOf[p]  PROVE  FALSE
        OBVIOUS
      <3>1. x.op.kind \in Placers /\ categoryOf'[p] = x.op.category
        BY <1>1, <1>2, <1>7, ProductChanges DEF Placers
      <3>2. Holds(x, "menuAdvisory", x.menu, "Shared") /\ Past(x, "rereadMenu")
        BY <1>2, <3>1, HeldAtCommit
      <3>3. menuOf[x.op.category] = x.menu
        BY <1>2, <3>1, <3>2 DEF Ordered, MenuKept
      <3> QED  BY <2>2, <2>3, <3>1, <3>2, <3>3
    <2> QED  BY <1>7, <2>3, <2>4 DEF ProductsIn, CategoriesIn
  <1>8. ProductsLocked(z)'
    <2> SUFFICES ASSUME z.op.kind = "DeleteMenu", NEW p \in Product,
                        categoryOf'[p] \in Category, menuOf'[categoryOf'[p]] = z.op.menu
                 PROVE  /\ Past(z, "lockProducts") => LockedBy(z, <<"product", p>>)
                        /\ Begun(z, "lockProducts") =>
                             \/ LockedBy(z, <<"product", p>>)
                             \/ \E r \in Pending(z) : r.what = <<"product", p>> /\ r.under = categoryOf'[p]
      BY DEF ProductsLocked, ProductsIn, CategoriesIn
    <2>1. Past(z, "lockProducts") \/ Begun(z, "lockProducts") => Past(z, "advisoryMenu")
      BY <1>2, DeleteMenuSteps_ DEF Begun
    <2>2. Past(z, "lockProducts") \/ Begun(z, "lockProducts") =>
            p \in ProductsIn(CategoriesIn(z.op.menu)) /\ categoryOf'[p] = categoryOf[p]
      BY <1>7, <2>1
    <2> QED  BY <1>2, <2>2 DEF Ordered, ProductsLocked
  <1>9. PricedTogether(z)'
    <2> SUFFICES ASSUME z.op.kind = "ApplyPrices", z.outcome = "running", NEW p \in z.priced
                 PROVE  menuOf'[categoryOf'[p]] = z.op.menu
      BY DEF PricedTogether
    <2>1. menuOf[categoryOf[p]] = z.op.menu
      BY <1>2 DEF Ordered, PricedTogether
    <2>2. p \in Product /\ LockedBy(z, <<"product", p>>)
      BY <1>2 DEF Sound, WellFormed
    <2>3. categoryOf'[p] = categoryOf[p] /\ categoryOf[p] # Gone
      BY <2>2, LockedStays
    <2>4. categoryOf[p] \in Category /\ menuOf'[categoryOf[p]] # Gone
      <3>1. TreeIntact' /\ WriterTypeOK
        BY CommitKeepsTree DEF WriterInv
      <3> QED  BY <2>2, <2>3, <3>1 DEF TreeIntact, WriterTypeOK
    <2> QED  BY <1>2, <1>4, <2>1, <2>3, <2>4
  <1>10. TakenUpwards(z)' /\ ~Begun(z, "cascade")' /\ z.outcome # "foreignKey"
    BY <1>2 DEF Ordered
  <1> QED  BY <1>6, <1>8, <1>9, <1>10 DEF Ordered

(* A transaction that has ended is sound and ordered whatever the rows are. *)
LEMMA EndedStays ==
  ASSUME NEW y, y.held = {}, y.todo = <<>>, y.outcome = "ok", y.op.kind \notin Placers => y.menu = y.op.menu
  PROVE  Sound(y)' /\ Ordered(y)'
  <1>1. (\A s : ~Past(y, s) /\ ~Here(y, s)) /\ Pending(y) = {} /\ (\A what : ~LockedBy(y, what))
    BY DEF Past, Here, Pending, LockedBy
  <1>2. WellFormed(y)'
    BY <1>1 DEF WellFormed
  <1>3. Has(y)'
    <2>1. \A s : ~Past(y, s) /\ ~Begun(y, s)
      BY <1>1 DEF Begun
    <2> QED  BY <2>1 DEF Has
  <1>4. UnderDeleted(y)' /\ OnlyCounted(y)' /\ RowsThere(y)' /\ CreatesNew(y)' /\ MenuStands(y)'
    BY <1>1 DEF UnderDeleted, OnlyCounted, RowsThere, CreatesNew, MenuStands, Begun
  <1>5. MenuKept(y)' /\ ProductsLocked(y)' /\ PricedTogether(y)' /\ ~Begun(y, "cascade")'
    BY <1>1 DEF MenuKept, ProductsLocked, PricedTogether, Begun
  <1>6. TakenUpwards(y)'
    <2>1. Len(y.todo) = 0
      OBVIOUS
    <2> QED  BY <2>1 DEF TakenUpwards
  <1> QED  BY <1>2, <1>3, <1>4, <1>5, <1>6 DEF Sound, Ordered

LEMMA CommitKeeps ==
  ASSUME WriterInv, NEW u \in Tx, Commit(u)
  PROVE  WriterInv' /\ (NoCategoryMoves /\ OrderInv => OrderInv')
  <1>1. PICK x \in Transaction : x = tx[u] /\ Sound(x)
    BY DEF WriterInv, WriterTypeOK
  <1>2. End(u, "ok") /\ WriterTypeOK
    BY DEF Commit, WriterInv
  <1>3. PICK y \in Transaction : Goes(u, y) /\ y.outcome = "ok" /\ y.held = {} /\ y.todo = <<>> /\ y.menu = x.menu
    BY <1>1, <1>2, Ends
  <1>4. /\ tx[u]' = y /\ y.op = tx[u].op
        /\ \A t \in Tx \ {u} : tx[t]' = tx[t]
    BY <1>2, <1>3 DEF Goes, WriterTypeOK
  <1>5. WriterTypeOK' /\ TreeIntact'
    BY CommitKeepsTree
  <1>6. Compatible'
    <2> SUFFICES ASSUME NEW a \in Tx, NEW b \in Tx, a # b, NEW l \in tx[a]'.held, NEW k \in tx[b]'.held,
                        l.what = k.what
                 PROVE  ~Conflicts(l.mode, k.mode)
      BY DEF Compatible, Conflicts
    <2>1. a # u /\ b # u
      BY <1>3, <1>4
    <2> QED  BY <1>4, <2>1 DEF WriterInv, Compatible
  <1>7. Sound(y)' /\ Ordered(y)'
    <2>1. y.op.kind \notin Placers => y.menu = y.op.menu
      BY <1>1, <1>3, <1>4 DEF Sound, WellFormed
    <2> QED  BY <1>3, <2>1, EndedStays
  <1>8. ASSUME NEW t \in Tx
        PROVE  tx[t]'.op \in Requests[t] /\ Sound(tx[t])'
    <2>1. CASE t = u
      BY <1>4, <1>7, <2>1 DEF WriterInv
    <2>2. CASE t # u
      <3>1. PICK z : z = tx[t]
        OBVIOUS
      <3>2. Sound(z)' /\ tx[t]' = z
        BY <1>4, <2>2, <3>1, CommitKeepsSound
      <3> QED  BY <3>1, <3>2 DEF WriterInv
    <2> QED  BY <2>1, <2>2
  <1>9. ASSUME NoCategoryMoves, OrderInv, NEW t \in Tx
        PROVE  Ordered(tx[t])'
    <2>1. CASE t = u
      BY <1>4, <1>7, <2>1
    <2>2. CASE t # u
      <3>1. PICK z : z = tx[t]
        OBVIOUS
      <3>2. Ordered(z)' /\ tx[t]' = z
        BY <1>4, <1>9, <2>2, <3>1, CommitKeepsOrdered
      <3> QED  BY <3>2
    <2> QED  BY <2>1, <2>2
  <1>10. ASSUME OrderInv, NEW t \in Tx
         PROVE  KnownCategory(tx[t])'
    <2> SUFFICES ASSUME tx[t]'.op.kind \in Placers, Past(tx[t]', "readMenu"), NEW v \in Tx,
                        tx[v]'.outcome = "running", tx[v]'.op.kind = "CreateCategory"
                 PROVE  tx[v]'.op.category # tx[t]'.op.category
      BY DEF KnownCategory, Running, Past, StepsOf
    <2>1. t # u /\ v # u
      BY <1>3, <1>4 DEF Past
    <2> QED  BY <1>4, <1>10, <2>1 DEF OrderInv, KnownCategory, Running

  <1> QED  BY <1>5, <1>6, <1>8, <1>9, <1>10 DEF WriterInv, OrderInv

-----------------------------------------------------------------------------
(* The start, and every step.                                              *)

LEMMA WriterStarts ==
  ASSUME WriterInit
  PROVE  WriterInv /\ OrderInv
  <1>1. PICK ops : /\ \A t \in Tx : ops[t] \in Requests[t]
                   /\ tx = [t \in Tx |->
                        [op |-> ops[t], pc |-> 1, todo |-> <<>>, held |-> {}, menu |-> ops[t].menu,
                         priced |-> {}, run |-> 1, attempt |-> 1, outcome |-> "running"]]
    BY DEF WriterInit
  <1>2. \A t \in Tx : ops[t] \in Operation /\ ops[t].menu \in Menu
    BY <1>1, RequestConstants DEF Operation
  <1>3. WriterTypeOK
    <2>1. ASSUME NEW t \in Tx
          PROVE  tx[t] \in Transaction
      <3>1. <<>> \in Seq(LockRequest)
        OBVIOUS
      <3> QED  BY <1>1, <1>2, <3>1 DEF Transaction
    <2>2. tx \in [Tx -> Transaction]
      BY <1>1, <2>1
    <2> QED  BY <2>2, WriterConstants DEF WriterInit, WriterTypeOK
  <1>4. TreeIntact
    BY WriterConstants DEF WriterInit, TreeIntact
  <1>5. Compatible
    BY <1>1 DEF Compatible
  <1>6. ASSUME NEW t \in Tx
        PROVE  Sound(tx[t]) /\ Ordered(tx[t]) /\ KnownCategory(tx[t])
    <2>1. PICK x : x = tx[t]
      OBVIOUS
    <2>2. /\ x.op = ops[t] /\ x.pc = 1 /\ x.todo = <<>> /\ x.held = {} /\ x.menu = x.op.menu /\ x.priced = {}
          /\ x.outcome = "running"
      BY <1>1, <2>1
    <2>3. (\A s : ~Past(x, s) /\ ~Begun(x, s)) /\ Pending(x) = {} /\ (\A what : ~LockedBy(x, what))
      BY <2>2 DEF Past, Begun, Pending, LockedBy
    <2>4. WellFormed(x)
      BY <2>2, <2>3 DEF WellFormed
    <2>5. CreatesNew(x)
      <3>1. x.op \in Requests[t]
        BY <1>1, <2>2
      <3> QED  BY <3>1, RequestConstants DEF CreatesNew, WriterInit
    <2>6. Has(x) /\ UnderDeleted(x) /\ OnlyCounted(x) /\ RowsThere(x) /\ MenuStands(x)
      BY <2>2, <2>3 DEF Has, UnderDeleted, OnlyCounted, RowsThere, MenuStands
    <2>7. Ordered(x)
      BY <2>2, EmptyOrdered
    <2>8. KnownCategory(x)
      BY <2>3 DEF KnownCategory
    <2> QED  BY <2>1, <2>4, <2>5, <2>6, <2>7, <2>8 DEF Sound
  <1>7. \A t \in Tx : tx[t].op \in Requests[t]
    BY <1>1
  <1> QED  BY <1>3, <1>4, <1>5, <1>6, <1>7 DEF WriterInv, OrderInv

LEMMA WriterSteps ==
  ASSUME WriterInv, [WriterNext]_writerVars
  PROVE  WriterInv' /\ (NoCategoryMoves /\ OrderInv => OrderInv')
  <1>1. CASE UNCHANGED writerVars
    <2>1. ASSUME NEW t \in Tx
          PROVE  /\ tx[t]'.op \in Requests[t] /\ Sound(tx[t])'
                 /\ OrderInv => Ordered(tx[t])' /\ KnownCategory(tx[t])'
      <3>1. PICK z : z = tx[t]
        OBVIOUS
      <3>2. UNCHANGED Rows /\ tx[t]' = z /\ tx' = tx
        BY <1>1, <3>1 DEF writerVars, Rows
      <3>3. Sound(z)' /\ (OrderInv => Ordered(z)')
        BY <3>1, <3>2, RowsSame DEF WriterInv, OrderInv
      <3>4. OrderInv => KnownCategory(tx[t])'
        BY <3>2 DEF OrderInv, KnownCategory, Running, Past, StepsOf
      <3> QED  BY <3>1, <3>2, <3>3, <3>4 DEF WriterInv
    <2>2. WriterTypeOK' /\ TreeIntact' /\ Compatible'
      BY <1>1 DEF WriterInv, writerVars, WriterTypeOK, TreeIntact, Compatible
    <2> QED  BY <2>1, <2>2 DEF WriterInv, OrderInv
  <1>2. ASSUME NEW t \in Tx, Step(t)
        PROVE  WriterInv' /\ (NoCategoryMoves /\ OrderInv => OrderInv')
    <2>1. CASE Commit(t)
      BY <2>1, CommitKeeps
    <2>2. CASE Reads(t) \/ BeginLocking(t) \/ Acquire(t) \/ DeadlockAborts(t)
      BY <2>2, OneStepKeeps
    <2> QED  BY <1>2, <2>1, <2>2 DEF Step
  <1> QED  BY <1>1, <1>2 DEF WriterNext, Finished

-----------------------------------------------------------------------------
(* What the invariants say.                                                *)

LEMMA CountedWhereSound ==
  ASSUME WriterInv
  PROVE  CountIsExact
  <1> SUFFICES ASSUME NEW t \in Tx, AtStep(t, "cascade"), tx[t].op.kind = "DeleteCategory"
               PROVE  LockedProducts(t) = ProductsIn({tx[t].op.category})
    BY DEF CountIsExact
  <1>1. PICK x \in Transaction : x = tx[t] /\ Sound(x) /\ Here(x, "cascade")
    BY AtStepIsHere DEF WriterInv, WriterTypeOK
  <1>2. Past(x, "lockProducts")
    <2>1. x.pc \in Nat \ {0} /\ x.op.kind = "DeleteCategory"
      BY <1>1 DEF Transaction
    <2> QED  BY <1>1, <2>1, DeleteCategorySteps_
  <1>3. ASSUME NEW p \in ProductsIn({x.op.category})
        PROVE  LockedBy(x, <<"product", p>>)
    <2> DEFINE l == [what |-> <<"product", p>>, mode |-> "Update"]
    <2>1. l \in Needs(x, "lockProducts")
      BY <1>1 DEF Needs, FixedSteps, Locks
    <2>2. l \in x.held
      BY <1>1, <1>2, <2>1 DEF Sound, Has, LockingSteps
    <2> QED  BY <2>2 DEF LockedBy
  <1>4. ASSUME NEW p \in Product, LockedBy(x, <<"product", p>>)
        PROVE  p \in ProductsIn({x.op.category})
    BY <1>1, <1>4 DEF Sound, OnlyCounted, ProductsIn
  <1>5. LockedProducts(t) = {p \in Product : LockedBy(x, <<"product", p>>)}
    BY <1>1 DEF LockedProducts, Locked, LockedBy
  <1>6. ProductsIn({x.op.category}) \subseteq Product
    BY DEF ProductsIn
  <1> QED  BY <1>1, <1>3, <1>4, <1>5, <1>6

LEMMA CascadesWhereOrdered ==
  ASSUME WriterInv, OrderInv
  PROVE  CascadeFindsLocked
  <1> SUFFICES ASSUME NEW t \in Tx, AtStep(t, "cascade")
               PROVE  /\ \A c \in DeletedCategories(tx[t].op) : Locked(t, <<"category", c>>)
                      /\ \A p \in ProductsIn(DeletedCategories(tx[t].op)) : Locked(t, <<"product", p>>)
    BY DEF CascadeFindsLocked
  <1>1. WriterTypeOK /\ Sound(tx[t]) /\ ProductsLocked(tx[t]) /\ Here(tx[t], "cascade")
    BY AtStepIsHere DEF WriterInv, OrderInv, Ordered
  <1> QED  BY <1>1, CascadeReady

(* Everything to be locked has a class and a number. *)
LEMMA LockableNumbered ==
  ASSUME NEW w \in Lockable
  PROVE  w[2] \in Nat /\ Rank(w) \in 1..5 /\ (Rank(w) <= 2 <=> Advisory(w))
  BY WriterConstants DEF Lockable, Rank, Advisory

LEMMA BeforeIsOrder ==
  ASSUME NEW a \in Lockable, NEW b \in Lockable, NEW c \in Lockable
  PROVE  ~Before(a, a) /\ (Before(a, b) /\ Before(b, c) => Before(a, c))
  <1>1. /\ a[2] \in Nat /\ b[2] \in Nat /\ c[2] \in Nat
        /\ Rank(a) \in Nat /\ Rank(b) \in Nat /\ Rank(c) \in Nat
    BY LockableNumbered
  <1> QED  BY <1>1 DEF Before

(* What a transaction awaits comes after all it holds. *)
LEMMA AwaitsHigher ==
  ASSUME WriterTypeOK, OrderInv, NEW t \in Tx, tx[t].todo # <<>>
  PROVE  /\ Head(tx[t].todo).what \in Lockable
         /\ \A l \in tx[t].held : l.what \in Lockable /\ Before(l.what, Head(tx[t].todo).what)
  <1>1. PICK x \in Transaction : x = tx[t]
    BY DEF WriterTypeOK
  <1>2. x.todo \in Seq(LockRequest) /\ x.held \subseteq [what : Lockable, mode : Mode]
    BY <1>1 DEF Transaction
  <1>3. Head(x.todo) = x.todo[1] /\ 1 \in 1..Len(x.todo) /\ x.todo[1] \in LockRequest
    BY <1>1, <1>2
  <1>4. Head(x.todo) \in Pending(x) /\ Head(x.todo).what \in Lockable
    BY <1>3 DEF Pending, LockRequest
  <1>5. TakenUpwards(x)
    BY <1>1 DEF OrderInv, Ordered
  <1> QED  BY <1>1, <1>2, <1>4, <1>5 DEF TakenUpwards

LEMMA OrderedWaits ==
  ASSUME WriterTypeOK, OrderInv
  PROVE  AdvisoryFirst /\ WaitsUpward
  <1>1. AdvisoryFirst
    <2> SUFFICES ASSUME NEW t \in Tx, Waiting(t), Advisory(Head(tx[t].todo).what), NEW l \in tx[t].held
                 PROVE  Advisory(l.what)
      BY DEF AdvisoryFirst
    <2>1. PICK h \in Lockable : h = Head(tx[t].todo).what
      BY AwaitsHigher DEF Waiting
    <2>2. PICK w \in Lockable : w = l.what /\ Before(w, h)
      BY <2>1, AwaitsHigher DEF Waiting
    <2>3. Rank(w) \in 1..5 /\ Rank(h) \in 1..5 /\ Rank(h) <= 2
      BY <2>1, LockableNumbered
    <2>4. Rank(w) <= 2
      BY <2>2, <2>3 DEF Before
    <2> QED  BY <2>2, <2>4, LockableNumbered
  <1>2. WaitsUpward
    BY AwaitsHigher DEF WaitsUpward, Waiting
  <1> QED  BY <1>1, <1>2

(* In a circle the request that waits for the highest lock waits for one    *)
(* that waits for a higher lock still.                                     *)
LEMMA NobodyOnACycle ==
  ASSUME WriterTypeOK, OrderInv
  PROVE  NoDeadlock
  <1> SUFFICES ASSUME NEW t \in Tx, OnACycle(t)
               PROVE  FALSE
    BY DEF NoDeadlock
  <1>1. PICK D \in SUBSET Tx : t \in D /\ Stuck(D) /\ \A E \in SUBSET D : Stuck(E) => E = D
    BY DEF OnACycle
  <1> DEFINE awaited(u) == Head(tx[u].todo).what
             Higher == {u \in D : Before(awaited(t), awaited(u))}
  <1>2. \A u \in D : awaited(u) \in Lockable
    BY <1>1, AwaitsHigher DEF Stuck
  <1>3. ASSUME NEW u \in D
        PROVE  \E v \in Blockers(u) \cap D : Before(awaited(u), awaited(v))
    <2>1. PICK v \in Blockers(u) \cap D : TRUE
      BY <1>1 DEF Stuck
    <2>2. PICK l \in tx[v].held : l.what = awaited(u)
      BY <2>1 DEF Blockers
    <2>3. Before(l.what, awaited(v))
      BY <1>1, <2>1, <2>2, AwaitsHigher DEF Stuck
    <2> QED  BY <2>1, <2>2, <2>3
  <1>4. Higher # {}
    BY <1>1, <1>3
  <1>5. ASSUME NEW u \in Higher
        PROVE  Blockers(u) \cap Higher # {}
    <2>1. PICK v \in Blockers(u) \cap D : Before(awaited(u), awaited(v))
      BY <1>3
    <2>2. Before(awaited(t), awaited(v))
      BY <1>1, <1>2, <2>1, BeforeIsOrder
    <2> QED  BY <2>1, <2>2
  <1>6. Stuck(Higher)
    BY <1>1, <1>4, <1>5 DEF Stuck
  <1>7. t \notin Higher
    BY <1>1, <1>2, BeforeIsOrder
  <1> QED  BY <1>1, <1>6, <1>7

-----------------------------------------------------------------------------
(* The writers as a whole.                                                 *)

(* repository/locks.go, menus.go, category.go, product.go: whatever the    *)
(* writers do, at every moment what each has locked is what the statements *)
(* it is past must have locked, no two hold conflicting locks, and the     *)
(* committed rows form a tree.                                             *)
THEOREM WritersKeepInv == WriterSpec => []WriterInv
  <1>1. WriterInit => WriterInv
    BY WriterStarts
  <1>2. WriterInv /\ [WriterNext]_writerVars => WriterInv'
    BY WriterSteps
  <1> QED  BY <1>1, <1>2, PTL DEF WriterSpec

(* The rows and the transactions keep the shape the tables and the Go code *)
(* give them.                                                              *)
THEOREM WriterTyping == WriterSpec => []WriterTypeOK
  <1>1. WriterInv => WriterTypeOK
    BY DEF WriterInv
  <1> QED  BY <1>1, WritersKeepInv, PTL

(* DeleteMenu, DeleteCategory and the writers into them: with any requests, *)
(* also when categories move and victims of a deadlock run again, no       *)
(* product is left without a category, no category without a menu, and     *)
(* DeleteCategory answers the number of products that go with the category. *)
THEOREM TreeCounted == WriterSpec => []CountedTree
  <1>1. WriterInv => CountedTree
    BY CountedWhereSound DEF WriterInv, CountedTree
  <1> QED  BY <1>1, WritersKeepInv, PTL

(* Where no request moves a category, the menu a placing writer locked is  *)
(* still its category's, and every transaction locks upwards.              *)
THEOREM WritersKeepOrder ==
  ASSUME NoCategoryMoves
  PROVE  WriterSpec => [](WriterInv /\ OrderInv)
  <1>1. WriterInit => WriterInv /\ OrderInv
    BY WriterStarts
  <1>2. (WriterInv /\ OrderInv) /\ [WriterNext]_writerVars => (WriterInv /\ OrderInv)'
    BY WriterSteps
  <1> QED  BY <1>1, <1>2, PTL DEF WriterSpec

(* Where no request moves a category, a write into a parent that is being  *)
(* deleted finds it gone under the advisory lock (locks.go): it never      *)
(* leaves an orphan and never runs into a foreign key violation.           *)
THEOREM TreeHeld ==
  ASSUME NoCategoryMoves
  PROVE  WriterSpec => []TreeHolds
  <1>1. WriterInv /\ OrderInv => TreeHolds
    BY DEF WriterInv, OrderInv, Ordered, TreeHolds, NoForeignKeyError
  <1> QED  BY <1>1, WritersKeepOrder, PTL

(* Where no request moves a category, DeleteMenu and DeleteCategory have   *)
(* locked, before the DELETE, every row its cascade removes (menus.go,     *)
(* category.go), and the count in the answer is what goes.                 *)
THEOREM DeletesExact ==
  ASSUME NoCategoryMoves
  PROVE  WriterSpec => []DeletesAreExact
  <1>1. WriterInv /\ OrderInv => DeletesAreExact
    BY CountedWhereSound, CascadesWhereOrdered DEF DeletesAreExact
  <1> QED  BY <1>1, WritersKeepOrder, PTL

(* Where no request moves a category, all kinds of writer lock along one   *)
(* order (locks.go): advisory locks before row locks, products before      *)
(* categories before the menu row, so no set of requests waits in a circle, *)
(* however many there are.                                                 *)
THEOREM LockedInOrder ==
  ASSUME NoCategoryMoves
  PROVE  WriterSpec => []LocksInOrder
  <1>1. WriterInv /\ OrderInv => LocksInOrder
    BY OrderedWaits, NobodyOnACycle DEF WriterInv, LocksInOrder
  <1> QED  BY <1>1, WritersKeepOrder, PTL
=============================================================================
