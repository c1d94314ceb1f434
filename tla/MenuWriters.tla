---------------------------- MODULE MenuWriters ----------------------------
(***************************************************************************)
(* The writers of a business's menus, categories and products              *)
(* (backend/internal/repository: locks.go, menus.go, category.go,          *)
(* product.go) as concurrent PostgreSQL transactions under READ COMMITTED. *)
(*                                                                         *)
(* A writer is the list of statements it runs.  A reading statement sees   *)
(* the committed rows.  A locking statement takes its snapshot first, then *)
(* its locks one after the other, checking each row again once it has the  *)
(* lock.  Writes become visible at commit, when every lock is released.    *)
(* A writer the deadlock detector aborts is run again by RetryOnConflict.  *)
(*                                                                         *)
(* Texts, positions and prices are left out: what is kept is which row     *)
(* exists, which parent it hangs under, and which locks are held.  Ids are *)
(* numbers, so that "in ascending id order" means something.               *)
(***************************************************************************)
EXTENDS Naturals, Sequences, FiniteSets

CONSTANTS
  Tx,                     \* the requests, each with the transaction it runs
  Product, Category, Menu,
  Gone,                   \* the parent of a row that does not exist
  Requests,               \* request -> the operations it may be for
  CategoryAtStart,        \* product -> its category, or Gone
  MenuAtStart,            \* category -> its menu, or Gone
  WriteIntoCategoryRuns,
  ConflictAttempts

ASSUME WriterConstants ==
  /\ Product \subseteq Nat /\ Category \subseteq Nat /\ Menu \subseteq Nat
  /\ Gone \notin Nat
  /\ CategoryAtStart \in [Product -> Category \cup {Gone}]
  /\ MenuAtStart \in [Category -> Menu \cup {Gone}]
  /\ \A p \in Product : CategoryAtStart[p] # Gone => MenuAtStart[CategoryAtStart[p]] # Gone
  /\ WriteIntoCategoryRuns \in Nat \ {0}
  /\ ConflictAttempts \in Nat \ {0}

VARIABLES
  categoryOf,   \* product -> category, Gone when the row does not exist
  menuOf,       \* category -> menu, likewise
  menus,        \* the menus that exist
  tx            \* request -> its transaction

writerVars == <<categoryOf, menuOf, menus, tx>>

-----------------------------------------------------------------------------
(* Lockable things and lock modes.                                         *)

Lockable ==
  {<<"menuAdvisory", m>> : m \in Menu} \cup {<<"categoryAdvisory", c>> : c \in Category}
    \cup {<<"product", p>> : p \in Product} \cup {<<"category", c>> : c \in Category}
    \cup {<<"menu", m>> : m \in Menu}

Mode == {"Shared", "Exclusive", "KeyShare", "NoKeyUpdate", "Update"}

Advisory(what) == what[1] \in {"menuAdvisory", "categoryAdvisory"}

Conflicts(a, b) ==
  \/ "Exclusive" \in {a, b}
  \/ "Update" \in {a, b}
  \/ a = "NoKeyUpdate" /\ b = "NoKeyUpdate"

(* The documented order: a menu's advisory lock, a category's, products,   *)
(* categories, the menu row; ascending ids among products and categories.  *)
Rank(what) ==
  CASE what[1] = "menuAdvisory"     -> 1
    [] what[1] = "categoryAdvisory" -> 2
    [] what[1] = "product"          -> 3
    [] what[1] = "category"         -> 4
    [] what[1] = "menu"             -> 5

Before(a, b) == Rank(a) < Rank(b) \/ (Rank(a) = Rank(b) /\ a[2] < b[2])

-----------------------------------------------------------------------------
(* The statements each writer runs, in order.                              *)

WriteIntoMenu == <<"menuOwned", "advisoryMenu", "menuOwned">>
WriteIntoCategory == <<"readMenu", "advisoryMenu", "advisoryCategory", "rereadMenu">>

(* Writers with a guard or an order left out, for checking the properties.  *)
DeleteCategoryUnguarded == <<"categoryOwned", "lockProducts", "lockCategory", "cascade">>
CreateProductUnchecked == <<"readMenu">>
DeleteMenuUnguarded == <<"menuOwned", "lockProducts", "lockCategories", "lockMenu", "cascade">>
DeleteMenuRowFirst ==
  <<"menuOwned", "advisoryMenu", "lockMenu", "lockProducts", "lockCategories", "cascade">>

CreateCategorySteps == WriteIntoMenu \o <<"checkMenuKey">>
MoveCategorySteps == WriteIntoMenu \o <<"lockCategory", "checkMenuKey">>
EditCategorySteps == <<"lockCategory">>
ReorderCategoriesSteps == <<"lockCategories">>
DeleteCategorySteps ==
  <<"categoryOwned", "advisoryCategory", "lockProducts", "lockCategory", "cascade">>

CreateProductSteps == WriteIntoCategory \o <<"checkCategoryKey">>
MoveProductSteps == WriteIntoCategory \o <<"lockProduct", "checkCategoryKey", "touchMenu">>
EditProductSteps == <<"lockProduct", "touchMenu">>
DeleteProductSteps == <<"lockProduct">>
ReorderProductsSteps == WriteIntoCategory \o <<"lockProducts", "checkCategoryKey">>
ApplyPricesSteps == <<"lockProducts", "readPrices", "touchMenu">>

UpdateMenuSteps == <<"lockMenu">>
DeleteMenuSteps ==
  <<"menuOwned", "advisoryMenu", "lockProducts", "lockCategories", "lockMenu", "cascade">>

Steps == [
  CreateCategory    |-> CreateCategorySteps,
  MoveCategory      |-> MoveCategorySteps,
  EditCategory      |-> EditCategorySteps,
  ReorderCategories |-> ReorderCategoriesSteps,
  DeleteCategory    |-> DeleteCategorySteps,
  CreateProduct     |-> CreateProductSteps,
  MoveProduct       |-> MoveProductSteps,
  EditProduct       |-> EditProductSteps,
  DeleteProduct     |-> DeleteProductSteps,
  ReorderProducts   |-> ReorderProductsSteps,
  ApplyPrices       |-> ApplyPricesSteps,
  UpdateMenu        |-> UpdateMenuSteps,
  DeleteMenu        |-> DeleteMenuSteps]

(* A SELECT or UPDATE of one row, a foreign key check, and the statements  *)
(* whose locks come in no given order.                                     *)
SingleRowSteps == {"lockProduct", "lockCategory", "lockMenu"}
KeySteps == {"checkMenuKey", "checkCategoryKey"}
UnorderedSteps == {"touchMenu", "cascade"}
LockingSteps == {"advisoryMenu", "advisoryCategory", "lockProducts", "lockCategories"}
                  \cup SingleRowSteps \cup KeySteps \cup UnorderedSteps

(* What a request asks for.  "reprices" says that an edit changes a price, *)
(* "renames" that a settings save writes the slug.                         *)
Operation == [
  kind : DOMAIN Steps,
  products : SUBSET Product, categories : SUBSET Category,
  category : Category, menu : Menu,
  reprices : BOOLEAN, renames : BOOLEAN]

(* Every table is finite and a product's own writers name one product.  The *)
(* id a create uses is new: no row has it, and no other request creates it, *)
(* since the database draws it from the table's sequence.                  *)
ASSUME RequestConstants ==
  /\ IsFiniteSet(Product) /\ IsFiniteSet(Category)
  /\ \A t \in Tx : Requests[t] \subseteq Operation
  /\ \A t \in Tx : \A o \in Requests[t] :
       /\ o.kind \in {"CreateProduct", "MoveProduct", "EditProduct", "DeleteProduct"} =>
            \E p \in Product : o.products = {p}
       /\ o.kind = "CreateProduct" => \A p \in o.products : CategoryAtStart[p] = Gone
       /\ o.kind = "CreateCategory" => MenuAtStart[o.category] = Gone
  /\ \A t, u \in Tx : \A o \in Requests[t], q \in Requests[u] : t # u =>
       /\ o.kind = "CreateProduct" /\ q.kind = "CreateProduct" => o.products # q.products
       /\ o.kind = "CreateCategory" /\ q.kind = "CreateCategory" => o.category # q.category

(* One row or advisory lock a statement goes after.  "under" is the parent *)
(* its WHERE clause tied the row to, Gone when it goes by id alone.        *)
LockRequest == [what : Lockable, mode : Mode, under : Nat \cup {Gone}]

Transaction == [
  op : Operation,
  pc : Nat \ {0},                        \* the statement it is at
  todo : Seq(LockRequest),               \* what that statement has still to lock
  held : SUBSET [what : Lockable, mode : Mode],
  menu : Menu,                           \* the menu it locks, as it read it
  priced : SUBSET Product,               \* the products a bulk update read
  run : Nat, attempt : Nat,
  outcome : {"running", "ok", "notFound", "parentNotFound", "foreignKey", "conflict"}]

WriterTypeOK ==
  /\ categoryOf \in [Product -> Category \cup {Gone}]
  /\ menuOf \in [Category -> Menu \cup {Gone}]
  /\ menus \subseteq Menu
  /\ tx \in [Tx -> Transaction]

-----------------------------------------------------------------------------
(* What each statement locks.                                              *)

Running(t) == tx[t].outcome = "running"

AtStep(t, name) ==
  /\ Running(t)
  /\ tx[t].pc <= Len(Steps[tx[t].op.kind])
  /\ Steps[tx[t].op.kind][tx[t].pc] = name

Exists(what) ==
  CASE what[1] = "product"  -> categoryOf[what[2]] # Gone
    [] what[1] = "category" -> menuOf[what[2]] # Gone
    [] what[1] = "menu"     -> what[2] \in menus
    [] OTHER                -> TRUE

Parent(what) ==
  CASE what[1] = "product"  -> categoryOf[what[2]]
    [] what[1] = "category" -> menuOf[what[2]]
    [] OTHER                -> Gone

CategoriesIn(m) == {c \in Category : menuOf[c] = m}
ProductsIn(cs) == {p \in Product : categoryOf[p] \in cs}

(* The rows a DELETE removes: its own and, through ON DELETE CASCADE, those below. *)
DeletedCategories(o) ==
  CASE o.kind = "DeleteMenu"     -> CategoriesIn(o.menu)
    [] o.kind = "DeleteCategory" -> {o.category}
    [] OTHER                     -> {}

Locked(t, what) == \E l \in tx[t].held : l.what = what

LockedProducts(t) == {p \in Product : Locked(t, <<"product", p>>)}

Lock(class, ids, mode) == {[what |-> <<class, i>>, mode |-> mode, under |-> Gone] : i \in ids}

LockUnder(class, ids, mode) ==
  {[what |-> <<class, i>>, mode |-> mode, under |-> Parent(<<class, i>>)] : i \in ids}

Wanted(t, step) ==
  LET o == tx[t].op IN
  CASE step = "advisoryMenu" ->
         Lock("menuAdvisory", {tx[t].menu}, IF o.kind = "DeleteMenu" THEN "Exclusive" ELSE "Shared")
    [] step = "advisoryCategory" ->
         Lock("categoryAdvisory", {o.category},
              IF o.kind = "DeleteCategory" THEN "Exclusive" ELSE "Shared")
    [] step = "lockProduct" ->
         Lock("product", o.products, IF o.kind = "DeleteProduct" THEN "Update" ELSE "NoKeyUpdate")
    [] step = "lockProducts" ->
         CASE o.kind = "ReorderProducts" ->
                Lock("product", {p \in o.products : categoryOf[p] # Gone}, "Update")
           [] o.kind = "ApplyPrices" ->
                Lock("product", ProductsIn(CategoriesIn(o.menu)), "Update")
           [] OTHER ->
                LockUnder("product", ProductsIn(DeletedCategories(o)), "Update")
    [] step = "lockCategory" ->
         Lock("category", {o.category}, IF o.kind = "DeleteCategory" THEN "Update" ELSE "NoKeyUpdate")
    [] step = "lockCategories" ->
         IF o.kind = "DeleteMenu" THEN LockUnder("category", CategoriesIn(o.menu), "Update")
         ELSE Lock("category", {c \in o.categories : menuOf[c] # Gone}, "NoKeyUpdate")
    [] step = "lockMenu" ->
         Lock("menu", {o.menu},
              IF o.kind = "DeleteMenu" \/ o.renames THEN "Update" ELSE "NoKeyUpdate")
    [] step = "checkMenuKey" ->
         Lock("menu", {m \in {o.menu} : o.kind = "CreateCategory" \/ menuOf[o.category] # m}, "KeyShare")
    [] step = "checkCategoryKey" ->
         Lock("category",
              {c \in {o.category} : \/ o.kind = "CreateProduct"
                                    \/ \E p \in LockedProducts(t) : categoryOf[p] # c},
              "KeyShare")
    [] step = "touchMenu" ->
         LET touched == CASE o.kind = "ApplyPrices" -> {menuOf[categoryOf[p]] : p \in tx[t].priced}
                          [] o.kind = "MoveProduct" -> {menuOf[o.category]}
                          [] OTHER -> {menuOf[categoryOf[p]] : p \in o.products}
         IN  Lock("menu", {m \in touched \ {Gone} : o.kind = "ApplyPrices" \/ o.reprices}, "NoKeyUpdate")
    [] step = "cascade" ->
         {l \in Lock("category", DeletedCategories(o), "Update")
                   \cup Lock("product", ProductsIn(DeletedCategories(o)), "Update") :
            ~Locked(t, l.what)}

(* The orders a statement may take its locks in: by id where it says       *)
(* ORDER BY id, any where it does not.                                     *)
Orders(S, sorted) ==
  {q \in [1..Cardinality(S) -> S] :
     /\ \A i, j \in DOMAIN q : q[i] = q[j] => i = j
     /\ sorted => \A i, j \in DOMAIN q : i < j => q[i].what[2] < q[j].what[2]}

-----------------------------------------------------------------------------
(* Actions.                                                                *)

Advance(t) == tx' = [tx EXCEPT ![t].pc = @ + 1]

Rows == <<categoryOf, menuOf, menus>>

(* The transaction ends, releasing everything it holds.                    *)
End(t, outcome) ==
  tx' = [tx EXCEPT ![t].held = {}, ![t].todo = <<>>, ![t].outcome = outcome]

(* Rolled back and started over from its first statement.                  *)
StartOver(t, run, attempt) ==
  tx' = [tx EXCEPT ![t].held = {}, ![t].todo = <<>>, ![t].pc = 1,
                   ![t].menu = tx[t].op.menu, ![t].priced = {},
                   ![t].run = run, ![t].attempt = attempt]

Writes(kind) == kind \notin {"DeleteMenu", "DeleteCategory"}

MenuOwned(t) ==
  /\ AtStep(t, "menuOwned")
  /\ IF tx[t].op.menu \in menus THEN Advance(t)
     ELSE End(t, IF Writes(tx[t].op.kind) THEN "parentNotFound" ELSE "notFound")
  /\ UNCHANGED Rows

CategoryOwned(t) ==
  /\ AtStep(t, "categoryOwned")
  /\ IF menuOf[tx[t].op.category] # Gone THEN Advance(t) ELSE End(t, "notFound")
  /\ UNCHANGED Rows

ReadMenu(t) ==
  /\ AtStep(t, "readMenu")
  /\ LET m == menuOf[tx[t].op.category]
     IN  IF m = Gone THEN End(t, "parentNotFound")
         ELSE tx' = [tx EXCEPT ![t].menu = m, ![t].pc = @ + 1]
  /\ UNCHANGED Rows

(* The reread with a slip: the menu compared is the request's, and a run    *)
(* that starts over is not counted.                                        *)
RereadMenuUncounted(t) ==
  /\ AtStep(t, "rereadMenu")
  /\ LET m == menuOf[tx[t].op.category]
     IN  CASE m = Gone -> End(t, "parentNotFound")
           [] m # Gone /\ m # tx[t].op.menu -> StartOver(t, tx[t].run, tx[t].attempt)
           [] OTHER -> Advance(t)
  /\ UNCHANGED Rows

(* A run whose category moved starts over, except the last one.            *)
RereadMenu(t) ==
  /\ AtStep(t, "rereadMenu")
  /\ LET m == menuOf[tx[t].op.category]
     IN  CASE m = Gone -> End(t, "parentNotFound")
           [] m # Gone /\ m # tx[t].menu /\ tx[t].run < WriteIntoCategoryRuns ->
                StartOver(t, tx[t].run + 1, tx[t].attempt)
           [] OTHER -> Advance(t)
  /\ UNCHANGED Rows

(* The locked products as they are now; one that left the menu is not read. *)
ReadPrices(t) ==
  /\ AtStep(t, "readPrices")
  /\ tx' = [tx EXCEPT ![t].priced = LockedProducts(t) \cap ProductsIn(CategoriesIn(tx[t].op.menu)),
                      ![t].pc = @ + 1]
  /\ UNCHANGED Rows

(* A locking statement begins: its snapshot says which rows it goes after. *)
BeginLocking(t) ==
  \E step \in LockingSteps :
    /\ AtStep(t, step) /\ tx[t].todo = <<>>
    /\ IF Wanted(t, step) = {} THEN Advance(t)
       ELSE \E q \in Orders(Wanted(t, step), step \notin UnorderedSteps) :
              tx' = [tx EXCEPT ![t].todo = q]
    /\ UNCHANGED Rows

Blockers(t) ==
  {u \in Tx \ {t} : \E l \in tx[u].held :
     l.what = Head(tx[t].todo).what /\ Conflicts(l.mode, Head(tx[t].todo).mode)}

(* The lock is free: the row is checked again, and skipped or locked, or   *)
(* its absence ends the transaction.                                       *)
Acquire(t) ==
  /\ Running(t) /\ tx[t].todo # <<>> /\ Blockers(t) = {}
  /\ LET r == Head(tx[t].todo)
         found == Exists(r.what) /\ (r.under # Gone => Parent(r.what) = r.under)
         next == [tx EXCEPT ![t].todo = Tail(@), ![t].pc = IF Len(tx[t].todo) = 1 THEN @ + 1 ELSE @]
     IN  CASE found ->
                tx' = [next EXCEPT ![t].held = @ \cup {[what |-> r.what, mode |-> r.mode]}]
           [] ~found /\ (\E s \in SingleRowSteps : AtStep(t, s)) -> End(t, "notFound")
           [] ~found /\ (\E s \in KeySteps : AtStep(t, s)) -> End(t, "foreignKey")
           [] OTHER -> tx' = next
  /\ UNCHANGED Rows

(* The statements are done; what was written becomes visible.              *)
Commit(t) ==
  LET o == tx[t].op
      placed == CASE o.kind \in {"CreateProduct", "MoveProduct"} -> o.products
                  [] o.kind = "ReorderProducts" -> LockedProducts(t)
                  [] OTHER -> {}
      deleted == IF o.kind = "DeleteProduct" THEN o.products
                 ELSE ProductsIn(DeletedCategories(o))
  IN  /\ Running(t) /\ tx[t].pc > Len(Steps[o.kind])
      /\ categoryOf' = [p \in Product |->
                          CASE p \in placed  -> o.category
                            [] p \in deleted -> Gone
                            [] OTHER         -> categoryOf[p]]
      /\ menuOf' = [c \in Category |->
                      CASE c \in DeletedCategories(o) -> Gone
                        [] c = o.category /\ o.kind \in {"CreateCategory", "MoveCategory"} -> o.menu
                        [] OTHER -> menuOf[c]]
      /\ menus' = IF o.kind = "DeleteMenu" THEN menus \ {o.menu} ELSE menus
      /\ End(t, "ok")

(* Requests that each wait for another of them: none of them can go on.    *)
Stuck(D) == D # {} /\ \A t \in D : tx[t].todo # <<>> /\ Blockers(t) \cap D # {}

OnACycle(t) ==
  \E D \in SUBSET Tx : t \in D /\ Stuck(D) /\ \A E \in SUBSET D : Stuck(E) => E = D

(* The deadlock detector aborts a transaction of a cycle with 40P01, and   *)
(* the handlers run every one of these writes but the settings save again. *)
DeadlockAborts(t) ==
  /\ OnACycle(t)
  /\ IF tx[t].attempt < ConflictAttempts /\ tx[t].op.kind # "UpdateMenu"
     THEN StartOver(t, 1, tx[t].attempt + 1)
     ELSE End(t, "conflict")
  /\ UNCHANGED Rows

Finished == (\A t \in Tx : ~Running(t)) /\ UNCHANGED writerVars

-----------------------------------------------------------------------------
WriterInit ==
  /\ categoryOf = CategoryAtStart
  /\ menuOf = MenuAtStart
  /\ menus = Menu
  /\ \E ops \in [Tx -> UNION {Requests[t] : t \in Tx}] :
       /\ \A t \in Tx : ops[t] \in Requests[t]
       /\ tx = [t \in Tx |->
                  [op |-> ops[t], pc |-> 1, todo |-> <<>>, held |-> {}, menu |-> ops[t].menu,
                   priced |-> {}, run |-> 1, attempt |-> 1, outcome |-> "running"]]

Reads(t) == MenuOwned(t) \/ CategoryOwned(t) \/ ReadMenu(t) \/ RereadMenu(t) \/ ReadPrices(t)

Step(t) == Reads(t) \/ BeginLocking(t) \/ Acquire(t) \/ Commit(t) \/ DeadlockAborts(t)

WriterNext == (\E t \in Tx : Step(t)) \/ Finished

WriterSpec == WriterInit /\ [][WriterNext]_writerVars

FairWriterSpec == WriterSpec /\ \A t \in Tx : WF_writerVars(Step(t))
-----------------------------------------------------------------------------
(* Properties.                                                             *)

Waiting(t) == Running(t) /\ tx[t].todo # <<>>

(* locks.go: every transaction takes its advisory locks before its first   *)
(* row lock, so none that holds a row waits for one of them.               *)
AdvisoryFirst ==
  \A t \in Tx : (Waiting(t) /\ Advisory(Head(tx[t].todo).what)) =>
    \A l \in tx[t].held : Advisory(l.what)

(* menus.go, DeleteMenu: products in ascending id order, then categories,  *)
(* the menu row last.  Only the rows a cascade reaches come out of order.  *)
WaitsUpward ==
  \A t \in Tx : (Waiting(t) /\ ~AtStep(t, "cascade")) =>
    \A l \in tx[t].held : Before(l.what, Head(tx[t].todo).what)

(* DeleteMenu and DeleteCategory: when the DELETE runs, every row its      *)
(* cascade removes is locked already, so the cascade never waits.          *)
CascadeFindsLocked ==
  \A t \in Tx : AtStep(t, "cascade") =>
    /\ \A c \in DeletedCategories(tx[t].op) : Locked(t, <<"category", c>>)
    /\ \A p \in ProductsIn(DeletedCategories(tx[t].op)) : Locked(t, <<"product", p>>)

(* category.go, DeleteCategory: the answer counts the rows locked, which   *)
(* are exactly the products that go with the category.                     *)
CountIsExact ==
  \A t \in Tx : (AtStep(t, "cascade") /\ tx[t].op.kind = "DeleteCategory") =>
    LockedProducts(t) = ProductsIn({tx[t].op.category})

(* A write into a parent that is being deleted waits at the advisory lock  *)
(* and then finds the parent gone; it never gets as far as a foreign key   *)
(* violation.                                                              *)
NoForeignKeyError == \A t \in Tx : tx[t].outcome # "foreignKey"

(* retry.go: the writers already avoid the lock cycles known to arise.     *)
NoDeadlock == \A t \in Tx : ~OnACycle(t)

(* Thirteen kinds of writer lock along one order, so none waits for another *)
(* in a circle (repository/locks.go).                                      *)
LocksInOrder == AdvisoryFirst /\ WaitsUpward /\ NoDeadlock

(* The tree is whole: what exists hangs under a parent that exists.        *)
TreeIntact ==
  /\ \A p \in Product : categoryOf[p] # Gone => menuOf[categoryOf[p]] # Gone
  /\ \A c \in Category : menuOf[c] # Gone => menuOf[c] \in menus

(* What a delete takes along is whole: the cascade never meets a row that is *)
(* not locked, and the count in the answer is what went.                   *)
DeletesAreExact == CascadeFindsLocked /\ CountIsExact

(* No writer leaves an orphan, nor is told of one by a foreign key.         *)
TreeHolds == WriterTypeOK /\ TreeIntact /\ NoForeignKeyError

(* Also with a category moving under the other writers, where a deadlock is *)
(* broken and its victim run again: no orphan, no wrong count.             *)
CountedTree == TreeIntact /\ CountIsExact

(* Whatever the writers run into, every request is answered.               *)
EveryRequestEnds == \A t \in Tx : <>(~Running(t))
=============================================================================
