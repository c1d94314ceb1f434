----------------------------- MODULE MenuEditor -----------------------------
(* The menu editor page (pages/dashboard/MenuEditor.jsx): the categories of *)
(* the active menu and the products of the business as the page shows them, *)
(* edited optimistically, with a rollback when the server refuses and a     *)
(* reload when it says that the lists are out of date.                      *)
(*                                                                         *)
(* A request is sent by a handler, executed or refused by the server, and   *)
(* lands later: three steps, and requests overtake one another.  Another    *)
(* tab edits the same rows.  The phone beside the lists (LivePreview) asks  *)
(* the server again whenever the page tells it to.                          *)
(*                                                                         *)
(* Left out: names and the other texts of a row, which rows are unfolded,   *)
(* and the menus themselves (MenuContext).                                  *)
EXTENDS Naturals, FiniteSets, SequencesExt, Filters

CONSTANTS
  Menu, Category, Product,
  None,                \* no menu, no category, no row
  FirstMenu,           \* the menu selected when the page opens
  MenuAtStart,         \* the menu of each category, None for one not created yet
  RowAtStart,          \* the row of each product, None for one not created yet
  Price,               \* the prices anybody may type
  MaxActs,             \* bound: writes of the page and of another tab, and choices of a menu
  LostAnswers          \* whether a write may be executed and its answer lost

ASSUME EditorConstants ==
  /\ FirstMenu \in Menu /\ None \notin Menu /\ None \notin Product
  /\ MenuAtStart \in [Category -> Menu \cup {None}]
  /\ Category \subseteq Nat /\ Product \subseteq Nat   \* in the order of creation
  /\ IsFiniteSet(Category) /\ IsFiniteSet(Product)
  /\ MaxActs \in Nat /\ LostAnswers \in BOOLEAN

VARIABLES
  stored,      \* the rows in the database
  page,        \* what the page holds: React state and the count in the menu context
  requests,       \* requests of the page under way, oldest first
  sent,        \* how many acts there were, and the rows created by them
  dialog,      \* the dialog that covers the page
  deleting,    \* the flag that disables the buttons of both delete dialogs
  preview,     \* the phone: the request it waits for and what it shows
  inSync       \* history: nothing has happened that explains a difference

Phone == INSTANCE LivePreview

editorVars == <<stored, page, requests, sent, dialog, deleting, preview, inSync>>

-----------------------------------------------------------------------------
(* Rows.                                                                   *)

Row == [category: Category, position: Nat, price: Price, active: BOOLEAN]

ASSUME RowConstants == RowAtStart \in [Product -> Row \cup {None}] /\ None \notin Row

CategoriesOf(s, m) == Filtered(s.order, {c \in Category : s.menuOf[c] = m})

(* Products by position; equal positions in the order they were created.   *)
ProductsOf(rows, c) == {p \in Product : rows[p] # None /\ rows[p].category = c}

InOrder(rows, c) ==
  SortedBy(ProductsOf(rows, c),
    {pair \in ProductsOf(rows, c) \X ProductsOf(rows, c) :
       LET p == pair[1]
           q == pair[2]
       IN  \/ rows[p].position < rows[q].position
           \/ rows[p].position = rows[q].position /\ p < q})

groupProducts(rows) == [c \in Category |-> InOrder(rows, c)]

NextPosition(rows, c) ==
  LET used == {rows[p].position : p \in ProductsOf(rows, c)}
  IN IF used = {} THEN 0 ELSE 1 + CHOOSE n \in used : \A k \in used : k <= n

arrayMove(s, i, j) == InsertAt(RemoveAt(s, i), j, s[i])

-----------------------------------------------------------------------------
(* Requests.                                                               *)

UnderWay == DOMAIN requests
Quiet == UnderWay = {}

Request(kind, category, product, row, list, undo) ==
  [kind |-> kind, menu |-> page.menu, category |-> category, product |-> product, row |-> row,
   list |-> list, undo |-> undo, phase |-> "sent", answer |-> None, products |-> None,
   alone |-> FALSE]


(* What a request reads or rewrites on the page, rollback and answer       *)
(* included: a drag that fails puts back every row of its list.            *)
order == <<"order", 0>>
categoriesOf(S) == {<<"category", c>> : c \in S}
productsOf(S) == {<<"product", p>> : p \in S}

Touches(r) ==
  CASE r.kind \in {"load", "bulkPrice"} -> {order} \cup categoriesOf(Category) \cup productsOf(Product)
    [] r.kind \in {"reorderCategories", "saveCategory"} -> {order}
    [] r.kind = "reorderProducts" -> categoriesOf({r.category}) \cup productsOf(ToSet(r.list))
    [] r.kind \in {"price", "active", "deleteProduct"} -> productsOf({r.product})
    [] r.kind = "saveProduct" -> categoriesOf(Category) \cup productsOf({r.product})
    [] r.kind = "deleteCategory" -> {order} \cup categoriesOf({r.category}) \cup productsOf(Product)

Overlaps(r) == \E i \in UnderWay : Touches(requests[i]) \cap Touches(r) # {}

(* Requests as they are while something else happens: what a load reads may *)
(* be older than that.                                                     *)
Disturbed == [i \in DOMAIN requests |-> [requests[i] EXCEPT !.alone = FALSE]]

(* The rows a save creates: they get their number now.                     *)
New(r) == CASE r.kind = "saveCategory" /\ stored.menuOf[r.category] = None -> {<<"category", r.category>>}
            [] r.kind = "saveProduct" /\ stored.rows[r.product] = None -> {<<"product", r.product>>}
            [] OTHER -> {}

Send(r) ==
  /\ requests' = Append(Disturbed, r)
  /\ sent' = [acts |-> sent.acts + 1, new |-> sent.new \cup New(r)]
  /\ inSync' = (inSync /\ (r.kind = "load" \/ ~Overlaps(r)))

MayAct == sent.acts < MaxActs

(* loadData: two requests sent together, answered one by one.              *)
LoadRequest(m, alone) ==
  [kind |-> "load", menu |-> m, category |-> None, product |-> None, row |-> None, list |-> <<>>, undo |-> None,
   phase |-> "sent", answer |-> None, products |-> None, alone |-> alone]

-----------------------------------------------------------------------------
(* The phone beside the lists: the preview has the hidden rows as well.     *)

PreviewMenu(s, m) ==
  [categories |-> CategoriesOf(s, m),
   rows |-> [p \in Product |->
     IF s.rows[p] # None /\ s.menuOf[s.rows[p].category] = m THEN s.rows[p] ELSE None]]

refreshPreview == preview' = Phone!Refetch(preview, page.menu)

PreviewAnswer ==
  /\ preview.waiting = "sent"
  /\ \/ preview' = Phone!Answered(preview, PreviewMenu(stored, page.menu))
     \/ preview' = Phone!Failed(preview)
  /\ UNCHANGED <<stored, page, requests, dialog, deleting, inSync, sent>>

PreviewLands ==
  /\ preview.waiting \in {"answered", "failed"}
  /\ preview' = Phone!Landed(preview, page.menu)
  /\ UNCHANGED <<stored, page, requests, dialog, deleting, inSync, sent>>

-----------------------------------------------------------------------------
(* The owner.                                                              *)

hasMenu == page.menu # None
CanUseRows == dialog = "none" /\ hasMenu /\ ~page.loading


(* Another menu is chosen in the bar; loadData runs because the active      *)
(* menu is one of its inputs.                                              *)
SwitchMenu(m) ==
  /\ dialog = "none" /\ m # page.menu /\ MayAct
  /\ page' = [page EXCEPT !.menu = m, !.loading = TRUE]
  /\ Send(LoadRequest(m, Quiet))
  /\ preview' = Phone!Refetch(preview, m)
  /\ UNCHANGED <<stored, dialog, deleting>>

(* The last menu is gone: nothing is loaded, the lists are emptied.         *)
LoseMenus ==
  /\ dialog = "none" /\ hasMenu /\ MayAct
  /\ page' = [page EXCEPT !.menu = None, !.loading = FALSE, !.categories = <<>>, !.lists = [c \in Category |-> <<>>]]
  /\ preview' = Phone!Refetch(preview, None)
  /\ UNCHANGED <<stored, requests, sent, dialog, deleting, inSync>>

onCategoryDragEnd(i, j) ==
  /\ CanUseRows /\ MayAct /\ i # j
  /\ page' = [page EXCEPT !.categories = arrayMove(@, i, j)]
  /\ Send(Request("reorderCategories", None, None, None, arrayMove(page.categories, i, j), page.categories))
  /\ UNCHANGED <<stored, dialog, deleting, preview>>

onProductDragEnd(c, i, j) ==
  /\ CanUseRows /\ MayAct /\ i # j
  /\ page' = [page EXCEPT !.lists[c] = arrayMove(@, i, j)]
  /\ Send(Request("reorderProducts", c, None, None, arrayMove(page.lists[c], i, j),
                  [list |-> page.lists[c], rows |-> page.rows]))
  /\ UNCHANGED <<stored, dialog, deleting, preview>>

ShownProducts == UNION {ToSet(page.lists[c]) : c \in ToSet(page.categories)}

onProductPriceChange(p, price) ==
  /\ CanUseRows /\ MayAct /\ price # page.rows[p].price
  /\ page' = [page EXCEPT !.rows[p].price = price]
  /\ Send(Request("price", None, p, [page.rows[p] EXCEPT !.price = price], <<>>, page.rows[p].price))
  /\ UNCHANGED <<stored, dialog, deleting, preview>>

onProductActiveChange(p) ==
  /\ CanUseRows /\ MayAct
  /\ page' = [page EXCEPT !.rows[p].active = ~@]
  /\ Send(Request("active", None, p, [page.rows[p] EXCEPT !.active = ~@], <<>>, page.rows[p].active))
  /\ UNCHANGED <<stored, dialog, deleting, preview>>

(* The dialogs: saving keeps a form open until its answer is there.        *)
SaveCategory(c) ==
  /\ dialog = "none" /\ hasMenu /\ MayAct
  /\ \/ c \in ToSet(page.categories) /\ ~page.loading
     \/ stored.menuOf[c] = None /\ <<"category", c>> \notin sent.new
  /\ dialog' = "category"
  /\ Send(Request("saveCategory", c, None, None, <<>>, None))
  /\ UNCHANGED <<stored, page, deleting, preview>>

SaveProduct(p, c, price) ==
  /\ CanUseRows /\ MayAct
  /\ dialog' = "product"
  /\ \/ p \in ShownProducts
     \/ stored.rows[p] = None /\ <<"product", p>> \notin sent.new
  /\ Send(Request("saveProduct", c, p, [category |-> c, position |-> 0, price |-> price, active |-> TRUE], <<>>, None))
  /\ UNCHANGED <<stored, page, deleting, preview>>

confirmCategoryDelete(c) ==
  /\ CanUseRows /\ MayAct /\ ~deleting
  /\ dialog' = "deleteCategory" /\ deleting' = TRUE
  /\ Send(Request("deleteCategory", c, None, None, <<>>, None))
  /\ UNCHANGED <<stored, page, preview>>

confirmProductDelete(p) ==
  /\ CanUseRows /\ MayAct /\ ~deleting
  /\ dialog' = "deleteProduct" /\ deleting' = TRUE
  /\ Send(Request("deleteProduct", None, p, None, <<>>, None))
  /\ UNCHANGED <<stored, page, preview>>

ApplyBulkPrice(price) ==
  /\ dialog = "none" /\ hasMenu /\ MayAct
  /\ dialog' = "bulk"
  /\ Send(Request("bulkPrice", None, None, [price |-> price], <<>>, None))
  /\ UNCHANGED <<stored, page, deleting, preview>>

(* A form cannot be closed while its request is under way.  Escape closes a *)
(* delete dialog all the same: Modal does not know that it is busy.        *)
CloseDialog ==
  /\ dialog # "none"
  /\ \/ dialog \in {"deleteCategory", "deleteProduct"}
     \/ \A i \in UnderWay : requests[i].kind \notin {"saveCategory", "saveProduct", "bulkPrice"}
  /\ dialog' = "none"
  /\ UNCHANGED <<stored, page, requests, deleting, preview, inSync, sent>>

Owner ==
  \/ \E m \in Menu : SwitchMenu(m)
  \/ LoseMenus
  \/ \E i, j \in DOMAIN page.categories : onCategoryDragEnd(i, j)
  \/ \E c \in ToSet(page.categories) : \E i, j \in DOMAIN page.lists[c] : onProductDragEnd(c, i, j)
  \/ \E p \in ShownProducts : \/ \E price \in Price : onProductPriceChange(p, price)
                              \/ onProductActiveChange(p)
                              \/ confirmProductDelete(p)
  \/ \E c \in Category : SaveCategory(c)
  \/ \E p \in Product, c \in ToSet(page.categories), price \in Price : SaveProduct(p, c, price)
  \/ \E c \in ToSet(page.categories) : confirmCategoryDelete(c)
  \/ \E price \in Price : ApplyBulkPrice(price)
  \/ CloseDialog

-----------------------------------------------------------------------------
(* The server.                                                             *)

WithoutCategory(s, c) ==
  [order |-> Filtered(s.order, Category \ {c}),
   menuOf |-> [s.menuOf EXCEPT ![c] = None],
   rows |-> [p \in Product |-> IF s.rows[p] # None /\ s.rows[p].category = c THEN None ELSE s.rows[p]]]

(* What a request that fails with 404 did not find.                        *)
MissingCategory(r) ==
  CASE r.kind = "reorderCategories" -> \E c \in ToSet(r.list) : stored.menuOf[c] = None
    [] r.kind \in {"reorderProducts", "deleteCategory"} -> stored.menuOf[r.category] = None
    [] r.kind = "saveProduct" -> stored.menuOf[r.category] = None
    [] r.kind = "saveCategory" -> stored.menuOf[r.category] = None /\ r.category \in ToSet(page.categories)
    [] OTHER -> FALSE

MissingProduct(r) ==
  CASE r.kind = "reorderProducts" -> \E p \in ToSet(r.list) : stored.rows[p] = None
    [] r.kind \in {"price", "active", "deleteProduct"} -> stored.rows[r.product] = None
    [] r.kind = "saveProduct" -> stored.rows[r.product] = None /\ r.product \in ShownProducts
    [] OTHER -> FALSE

PositionIn(s, e) == CHOOSE k \in DOMAIN s : s[k] = e

After(r) ==
  CASE r.kind = "reorderCategories" ->
         [stored EXCEPT !.order = r.list \o Filtered(@, Category \ ToSet(r.list))]
    [] r.kind = "reorderProducts" ->
         [stored EXCEPT !.rows = [p \in Product |-> IF p \in ToSet(r.list)
            THEN [@[p] EXCEPT !.category = r.category, !.position = PositionIn(r.list, p) - 1] ELSE @[p]]]
    [] r.kind = "price" -> [stored EXCEPT !.rows[r.product].price = r.row.price]
    [] r.kind = "active" -> [stored EXCEPT !.rows[r.product].active = r.row.active]
    [] r.kind = "saveCategory" ->
         IF stored.menuOf[r.category] # None THEN stored
         ELSE [stored EXCEPT !.order = Append(@, r.category), !.menuOf[r.category] = r.menu]
    [] r.kind = "saveProduct" ->
         [stored EXCEPT !.rows[r.product] =
            [r.row EXCEPT !.position = IF stored.rows[r.product] = None THEN NextPosition(stored.rows, r.category)
                                       ELSE stored.rows[r.product].position]]
    [] r.kind = "deleteCategory" -> WithoutCategory(stored, r.category)
    [] r.kind = "deleteProduct" -> [stored EXCEPT !.rows[r.product] = None]
    [] r.kind = "bulkPrice" ->
         [stored EXCEPT !.rows = [p \in Product |->
            IF @[p] # None /\ stored.menuOf[@[p].category] = r.menu THEN [@[p] EXCEPT !.price = r.row.price] ELSE @[p]]]

AnswerWith(i, phase, answer) ==
  requests' = [requests EXCEPT ![i].phase = phase, ![i].answer = answer]

Execute(i) ==
  LET r == requests[i] IN
  /\ r.phase = "sent" /\ r.kind # "load" /\ ~MissingCategory(r) /\ ~MissingProduct(r)
  /\ stored' = After(r)
  /\ \/ /\ AnswerWith(i, "done", IF r.product # None THEN After(r).rows[r.product] ELSE None)
        /\ UNCHANGED <<preview, inSync>>
     \/ /\ LostAnswers /\ AnswerWith(i, "failed", None)
        /\ preview' = [preview EXCEPT !.stale = TRUE] /\ inSync' = FALSE
  /\ UNCHANGED <<page, dialog, deleting, sent>>

(* 404 for what is gone, any other error for any reason.                   *)
RefuseRequest(i) ==
  LET r == requests[i] IN
  /\ r.phase = "sent"
  /\ \/ r.kind # "load" /\ MissingCategory(r) /\ AnswerWith(i, "gone", None)
     \/ AnswerWith(i, "failed", None)
  /\ UNCHANGED <<stored, page, dialog, deleting, preview, inSync, sent>>

ReadCategories(i) ==
  /\ requests[i].phase = "sent" /\ requests[i].kind = "load" /\ requests[i].answer = None
  /\ requests' = [requests EXCEPT ![i].answer = CategoriesOf(stored, requests[i].menu)]
  /\ UNCHANGED <<stored, page, dialog, deleting, preview, inSync, sent>>

ReadProducts(i) ==
  /\ requests[i].phase = "sent" /\ requests[i].kind = "load" /\ requests[i].products = None
  /\ requests' = [requests EXCEPT ![i].products = stored.rows]
  /\ UNCHANGED <<stored, page, dialog, deleting, preview, inSync, sent>>

Server == \E i \in UnderWay : Execute(i) \/ RefuseRequest(i) \/ ReadCategories(i) \/ ReadProducts(i)

(* Another tab of the same account.                                        *)
OtherWrites ==
  /\ MayAct /\ sent' = [sent EXCEPT !.acts = @ + 1]
  /\ \/ \E c \in ToSet(stored.order) : stored' = WithoutCategory(stored, c)
     \/ \E p \in Product : stored.rows[p] # None /\ stored' = [stored EXCEPT !.rows[p].active = ~@]
  /\ requests' = Disturbed
  /\ preview' = [preview EXCEPT !.stale = TRUE] /\ inSync' = FALSE
  /\ UNCHANGED <<page, dialog, deleting>>

-----------------------------------------------------------------------------
(* Answers land.                                                           *)

(* The call is over; reload says whether loadData runs because of it.  The  *)
(* handler holds the loadData of its own render: it loads the menu that was *)
(* active when it was sent.                                                *)
Ended(i, reload) ==
  LET over == RemoveAt(requests, i) IN
  requests' = IF reload THEN Append(over, LoadRequest(requests[i].menu, over = <<>>)) ELSE over

(* A load answers for everything, if nothing else was under way with it.   *)
ListsLand(i) ==
  LET r == requests[i] IN
  /\ r.kind = "load"
  /\ \/ /\ r.phase = "sent" /\ r.answer # None /\ r.products # None
        /\ page' = [page EXCEPT !.loading = FALSE, !.categories = r.answer, !.count[r.menu] = Len(r.answer),
                                !.rows = r.products, !.lists = groupProducts(r.products)]
        /\ inSync' = (r.alone /\ page.menu = r.menu)
     \/ r.phase = "failed" /\ page' = [page EXCEPT !.loading = FALSE] /\ inSync' = FALSE
  /\ Ended(i, FALSE)
  /\ UNCHANGED <<stored, dialog, deleting, preview, sent>>

(* A failure that leaves the screen as the handler made it.                 *)
NotRolledBack(r) == page

(* An error answer: what the handler changed on screen is put back, and a   *)
(* 404 of a category reloads the lists.                                    *)
RolledBack(r) ==
  CASE r.kind = "reorderCategories" -> [page EXCEPT !.categories = r.undo]
    [] r.kind = "reorderProducts" ->
         [page EXCEPT !.lists[r.category] = r.undo.list,
                      !.rows = [p \in Product |-> IF p \in ToSet(r.undo.list) THEN r.undo.rows[p] ELSE @[p]]]
    [] r.kind = "price" /\ page.rows[r.product] # None -> [page EXCEPT !.rows[r.product].price = r.undo]
    [] r.kind = "active" /\ page.rows[r.product] # None -> [page EXCEPT !.rows[r.product].active = r.undo]
    [] OTHER -> page

isStaleListError(r) == r.phase = "gone" /\ r.kind # "bulkPrice"

FailureLands(i) ==
  LET r == requests[i] IN
  /\ r.kind # "load" /\ r.phase \in {"gone", "failed"}
  /\ page' = [RolledBack(r) EXCEPT !.loading = @ \/ isStaleListError(r)]
  /\ IF isStaleListError(r) THEN refreshPreview ELSE UNCHANGED preview
  /\ dialog' = IF r.kind = "deleteCategory" /\ isStaleListError(r) THEN "none" ELSE dialog
  /\ deleting' = (deleting /\ r.kind \notin {"deleteCategory", "deleteProduct"})
  /\ Ended(i, isStaleListError(r))
  /\ UNCHANGED <<stored, inSync, sent>>

(* onCategorySaved: a row that is not in the list is appended to it.       *)
WithCategory(r) ==
  IF r.category \in ToSet(page.categories) THEN page
  ELSE [page EXCEPT !.categories = Append(@, r.category), !.count[r.menu] = Len(page.categories) + 1]

(* onProductSaved: taken out of every list, added to its category's, which  *)
(* is sorted by the positions the page holds.                              *)
WithProduct(p, row) ==
  LET rows == [page.rows EXCEPT ![p] = row]
      rest == [c \in Category |-> Filtered(page.lists[c], Product \ {p})]
      list == Append(rest[row.category], p)
      goesBefore(q, s) == \/ rows[q].position < rows[s].position
                          \/ rows[q].position = rows[s].position /\ PositionIn(list, q) < PositionIn(list, s)
      sorted == SortedBy(ToSet(list), {pair \in ToSet(list) \X ToSet(list) : goesBefore(pair[1], pair[2])})
  IN  [page EXCEPT !.rows = rows, !.lists = [rest EXCEPT ![row.category] = sorted]]

Updated(r) ==
  CASE r.kind \in {"price", "active"} -> [page EXCEPT !.rows[r.product] = IF @ = None THEN @ ELSE r.answer]
    [] r.kind = "saveCategory" -> WithCategory(r)
    [] r.kind = "saveProduct" -> WithProduct(r.product, r.answer)
    [] r.kind = "deleteCategory" ->
         [page EXCEPT !.categories = Filtered(@, Category \ {r.category}),
                      !.count[r.menu] = Len(Filtered(page.categories, Category \ {r.category})),
                      !.lists[r.category] = <<>>]
    [] r.kind = "deleteProduct" ->
         [page EXCEPT !.lists = [c \in Category |-> Filtered(@[c], Product \ {r.product})]]
    [] r.kind = "bulkPrice" -> [page EXCEPT !.loading = TRUE]
    [] OTHER -> page

SuccessLands(i) ==
  LET r == requests[i] IN
  /\ r.kind # "load" /\ r.phase = "done"
  /\ page' = Updated(r)
  /\ refreshPreview
  /\ dialog' = IF r.kind \in {"saveCategory", "saveProduct", "deleteCategory", "deleteProduct", "bulkPrice"}
               THEN "none" ELSE dialog
  /\ deleting' = (deleting /\ r.kind \notin {"deleteCategory", "deleteProduct"})
  /\ Ended(i, r.kind = "bulkPrice")
  /\ UNCHANGED <<stored, inSync, sent>>

Landing == \E i \in UnderWay : ListsLand(i) \/ FailureLands(i) \/ SuccessLands(i)

-----------------------------------------------------------------------------
EditorInit ==
  /\ stored = [order |-> SortedBy({c \in Category : MenuAtStart[c] # None}, {pair \in Category \X Category : pair[1] < pair[2]}),
               menuOf |-> MenuAtStart, rows |-> RowAtStart]
  /\ page = [menu |-> FirstMenu, loading |-> TRUE, categories |-> <<>>, rows |-> [p \in Product |-> None],
             lists |-> [c \in Category |-> <<>>],
             count |-> [m \in Menu |-> Cardinality({c \in Category : MenuAtStart[c] = m})]]
  /\ requests = <<LoadRequest(FirstMenu, TRUE)>>
  /\ dialog = "none" /\ deleting = FALSE
  /\ preview = Phone!Refetch(Phone!Empty, FirstMenu)
  /\ sent = [acts |-> 0, new |-> {}] /\ inSync = TRUE

EditorNext == Owner \/ Server \/ OtherWrites \/ Landing \/ PreviewAnswer \/ PreviewLands

EditorSpec == EditorInit /\ [][EditorNext]_editorVars

-----------------------------------------------------------------------------
(* Every part of the page has its type: the lists hold rows the page knows, *)
(* a dialog is one of the five, a call in flight is a call of this page.    *)
EditorTypeOK ==
  /\ stored.menuOf \in [Category -> Menu \cup {None}]
  /\ \A p \in Product : stored.rows[p] = None \/ stored.rows[p] \in Row
  /\ page.menu \in Menu \cup {None} /\ page.loading \in BOOLEAN
  /\ \A c \in Category : \A p \in ToSet(page.lists[c]) : page.rows[p] \in Row
  /\ \A i \in DOMAIN requests : requests[i].phase \in {"sent", "done", "gone", "failed"}
  /\ dialog \in {"none", "category", "product", "bulk", "deleteCategory", "deleteProduct"}
  /\ deleting \in BOOLEAN

(* When no request is under way, and none of them overlapped another or     *)
(* lost its answer, and no other tab wrote, the page shows the rows of the  *)
(* database: the categories of the active menu in their order, in each the  *)
(* products that are there with their price and their eye, and the count    *)
(* the menu dialog prints.  Every optimistic change is confirmed or put     *)
(* back, whatever the server answered.  (The order of the products is not   *)
(* in it: see the README.)                                                 *)
SettledShowsStored ==
  Quiet /\ inSync /\ hasMenu =>
    /\ page.categories = CategoriesOf(stored, page.menu)
    /\ page.count[page.menu] = Len(page.categories)
    /\ \A c \in ToSet(page.categories) :
         /\ ToSet(page.lists[c]) = {p \in Product : stored.rows[p] # None /\ stored.rows[p].category = c}
         /\ \A p \in ToSet(page.lists[c]) : /\ page.rows[p].price = stored.rows[p].price
                                            /\ page.rows[p].active = stored.rows[p].active

(* When no request is under way the phone shows the menu as it is stored,   *)
(* unless it says that it could not be brought up to date: no refetch may   *)
(* overtake the write it is for.                                           *)
PreviewShowsStored ==
  /\ Quiet /\ preview.waiting = "no" /\ ~preview.stale
  /\ Phone!PhoneShows(preview, page.menu) = "menu" /\ ~Phone!ShowsOldNote(preview, page.menu)
  => preview.payload.content = PreviewMenu(stored, page.menu)

=============================================================================
