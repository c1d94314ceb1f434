--------------------------- MODULE MCMenuWriters ---------------------------
(* Small instances of MenuWriters for TLC: two menus with a category each, *)
(* two products in the first category and one in the second, and for each   *)
(* of two requests a product and a category that do not exist yet.         *)
EXTENDS MenuWriters

MCProduct == 1..5
MCCategory == 1..4
MCMenu == 1..2

MCCategoryAtStart == [p \in MCProduct |-> CASE p \in {1, 3} -> 1 [] p = 2 -> 2 [] OTHER -> Gone]
MCMenuAtStart == [c \in MCCategory |-> CASE c = 1 -> 1 [] c = 2 -> 2 [] OTHER -> Gone]

(* Constructors of operations; what an operation does not name is a filler. *)
Op(kind, products, c, m) ==
  [kind |-> kind, products |-> products, categories |-> {1, 2}, category |-> c, menu |-> m,
   reprices |-> TRUE, renames |-> TRUE]

DeleteMenuOps == {Op("DeleteMenu", {}, 1, m) : m \in {1, 2}}
DeleteCategoryOps == {Op("DeleteCategory", {}, c, 1) : c \in {1, 2}}
MoveCategoryOps == {Op("MoveCategory", {}, c, m) : c \in {1, 2}, m \in {1, 2}}
CreateCategoryOps == {Op("CreateCategory", {}, 4, m) : m \in {1, 2}}
CategoryOps == {Op("EditCategory", {}, c, 1) : c \in {1, 2}} \cup {Op("ReorderCategories", {}, 1, 1)}
CreateProductOps == {Op("CreateProduct", {5}, c, 1) : c \in {1, 2, 3}}
MoveProductOps == {Op("MoveProduct", {p}, c, 1) : p \in {1, 2}, c \in {1, 2}}
EditProductOps == {Op("EditProduct", {p}, 1, 1) : p \in {1, 2}}
DeleteProductOps == {Op("DeleteProduct", {p}, 1, 1) : p \in {1, 2}}
ReorderProductsOps == {Op("ReorderProducts", ps, c, 1) : ps \in {{1, 2}, {1, 3}, {2, 3}}, c \in {1, 2}}
ApplyPricesOps == {Op("ApplyPrices", {}, 1, m) : m \in {1, 2}}
UpdateMenuOps == {Op("UpdateMenu", {}, 1, m) : m \in {1, 2}}

DeleteOps == DeleteMenuOps \cup DeleteCategoryOps
WriteOps == CreateProductOps \cup MoveProductOps \cup ReorderProductsOps
PriceOps == EditProductOps \cup ApplyPricesOps
OtherOps == DeleteProductOps \cup UpdateMenuOps \cup CategoryOps

AllOps == DeleteOps \cup MoveCategoryOps \cup CreateCategoryOps \cup WriteOps \cup PriceOps \cup OtherOps

(* A structural write around menu 1, any writer, and a price edit.  What    *)
(* two structural writes around menu 2 would do is the mirror image.       *)
StructuralOps ==
  {Op("DeleteMenu", {}, 1, 1), Op("DeleteCategory", {}, 1, 1), Op("CreateCategory", {}, 3, 1),
   Op("MoveCategory", {}, 1, 2), Op("MoveCategory", {}, 2, 1), Op("CreateProduct", {4}, 1, 1),
   Op("MoveProduct", {1}, 2, 1), Op("MoveProduct", {2}, 1, 1),
   Op("ReorderProducts", {1, 2}, 1, 1), Op("ReorderProducts", {1, 3}, 2, 1)}

WriterRequests ==
  [t \in Tx |-> CASE t = 1 -> StructuralOps [] t = 2 -> AllOps [] t = 3 -> {Op("EditProduct", {1}, 1, 1)}]

(* A delete, a product written into a category, a price edit, and the      *)
(* category moved to the other menu meanwhile.                             *)
MovingCategory ==
  [t \in Tx |-> CASE t = 1 -> DeleteOps [] t = 2 -> CreateProductOps \cup {Op("MoveProduct", {1}, 2, 1)}
                  [] t = 3 -> {Op("MoveCategory", {}, 1, 2), Op("MoveCategory", {}, 2, 1)}
                  [] t = 4 -> EditProductOps]
=============================================================================
