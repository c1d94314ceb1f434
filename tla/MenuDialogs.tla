---------------------------- MODULE MenuDialogs -----------------------------
(* The bar with the active menu (ActiveMenuBar), its three dialogs - switch, *)
(* confirm a deletion, create (MenuModal) - and what the shared Modal does *)
(* to the page beneath: it locks the scrolling of the body and puts back   *)
(* what it found.                                                          *)
(*                                                                         *)
(* Every render of the bar hands the dialogs new callbacks, so the effect of *)
(* every open Modal runs again: first all cleanups, then all effects, each *)
(* in the order of the tree.                                               *)
EXTENDS Naturals, FiniteSets, Sequences, Filters

CONSTANTS
  MenuId, NoMenu,     \* a menu is its place in the list
  MenusAtStart,
  NameText,           \* the names an owner types: their length and their slug
  MaxName, MinSlug,
  MaxDialogSteps            \* bound: dialogs opened and requests sent

ASSUME DialogConstants ==
  /\ MenuId \subseteq Nat /\ MenusAtStart \subseteq MenuId /\ NoMenu \notin MenuId
  /\ \A t \in NameText : t.length \in Nat /\ t.slug \in Nat

VARIABLES
  listedMenus,      \* the menus the dashboard shows
  selectedMenu,      \* the menu selected
  switchOpen, createOpen,
  menuToDelete, deleting,
  deletions,       \* menus whose deletion is under way
  menuForm,        \* the form of MenuModal
  lock,        \* overflow of the body, and what each open Modal found
  dialogSteps

dialogVars ==
  <<listedMenus, selectedMenu, switchOpen, createOpen, menuToDelete, deleting, deletions,
    menuForm, lock, dialogSteps>>

menuList == <<listedMenus, selectedMenu>>
openDialogs == <<switchOpen, createOpen, menuToDelete>>
deletion == <<deleting, deletions>>

-----------------------------------------------------------------------------
(* Modal.                                                                  *)

DialogTree == <<"confirm", "switcher", "create">>      \* in the order of the tree

InTree(open) == Filtered(DialogTree, open)

OpenDialogs ==
  {d \in {"confirm", "switcher", "create"} :
     CASE d = "confirm" -> menuToDelete # NoMenu
       [] d = "switcher" -> switchOpen
       [] d = "create" -> createOpen}

(* The cleanups of the dialogs that were open, then the effects of those   *)
(* that are open now.                                                      *)
BarRendered ==
  LET was == InTree(OpenDialogs)
      now == InTree(OpenDialogs')
      released == IF was = <<>> THEN lock.overflow ELSE lock.found[was[Len(was)]]
  IN lock' = [overflow |-> IF now = <<>> THEN released ELSE "hidden",
              found |-> [d \in {"confirm", "switcher", "create"} |->
                IF now # <<>> /\ d = now[1] THEN released
                ELSE IF d \in OpenDialogs' THEN "hidden" ELSE ""]]

DialogStep == dialogSteps < MaxDialogSteps /\ dialogSteps' = dialogSteps + 1

-----------------------------------------------------------------------------
(* The bar and the switcher.                                               *)

activeMenu == IF selectedMenu \in listedMenus THEN selectedMenu ELSE NoMenu
BarCovered == OpenDialogs # {}

OpenSwitcher ==
  /\ ~BarCovered /\ activeMenu # NoMenu /\ DialogStep
  /\ switchOpen' = TRUE
  /\ UNCHANGED <<menuList, createOpen, menuToDelete, deletion, menuForm>>

choose(m) ==
  /\ switchOpen /\ menuToDelete = NoMenu
  /\ selectedMenu' = m /\ switchOpen' = FALSE
  /\ UNCHANGED <<listedMenus, createOpen, menuToDelete, deletion, menuForm, dialogSteps>>

AskToDelete(m) ==
  /\ switchOpen /\ menuToDelete = NoMenu /\ DialogStep
  /\ menuToDelete' = m
  /\ UNCHANGED <<menuList, switchOpen, createOpen, deletion, menuForm>>

(* The buttons of the confirmation are disabled while a request runs.      *)
Cancel ==
  /\ menuToDelete # NoMenu /\ ~deleting
  /\ menuToDelete' = NoMenu
  /\ UNCHANGED <<menuList, switchOpen, createOpen, deletion, menuForm, dialogSteps>>

confirmDelete ==
  /\ menuToDelete # NoMenu /\ ~deleting
  /\ deleting' = TRUE
  /\ deletions' = deletions \cup {[menu |-> menuToDelete, wasLast |-> Cardinality(listedMenus) <= 1]}
  /\ UNCHANGED <<menuList, openDialogs, menuForm, dialogSteps>>

(* Escape, busy or not.  Every open Modal listens, but the first in the tree *)
(* hears it first, and the render it causes replaces the listeners of the  *)
(* others.  A form that is being saved ignores it (CloseCreate).           *)
Escape ==
  /\ menuToDelete # NoMenu
  /\ menuToDelete' = NoMenu
  /\ UNCHANGED <<menuList, switchOpen, createOpen, deletion, menuForm, dialogSteps>>

CloseSwitcher ==
  /\ switchOpen /\ menuToDelete = NoMenu
  /\ switchOpen' = FALSE
  /\ UNCHANGED <<menuList, createOpen, menuToDelete, deletion, menuForm, dialogSteps>>

(* The list comes again with the answer; the first menu left is selected,  *)
(* and with none left the bar draws its empty state, without a switcher.   *)
FirstOf(s) == IF s = {} THEN NoMenu ELSE CHOOSE m \in s : \A n \in s : m <= n

MenuDeleteLands(c) ==
  LET rest == listedMenus \ {c.menu} IN
  /\ deletions' = deletions \ {c}
  /\ listedMenus' = rest
  /\ selectedMenu' = IF selectedMenu \in rest THEN selectedMenu ELSE FirstOf(rest)
  /\ menuToDelete' = NoMenu /\ deleting' = FALSE
  /\ switchOpen' = (switchOpen /\ ~c.wasLast)
  /\ UNCHANGED <<createOpen, menuForm, dialogSteps>>

MenuDeleteFails(c) ==
  /\ deletions' = deletions \ {c}
  /\ deleting' = FALSE
  /\ UNCHANGED <<menuList, openDialogs, menuForm, dialogSteps>>

-----------------------------------------------------------------------------
(* MenuModal, always for a new menu.                                       *)

NoText == [length |-> 0, slug |-> 0]
EmptyForm == [name |-> NoText, slug |-> NoText, customSlug |-> FALSE, slugError |-> FALSE, saving |-> FALSE]

OpenCreate ==
  /\ ~BarCovered /\ DialogStep
  /\ createOpen' = TRUE /\ menuForm' = EmptyForm
  /\ UNCHANGED <<menuList, switchOpen, menuToDelete, deletion>>

EditMenuForm(f) ==
  /\ createOpen
  /\ menuForm' = f
  /\ UNCHANGED <<menuList, openDialogs, deletion, dialogSteps>>

TypeName(t) == t.length <= MaxName /\ menuForm.name # t /\ EditMenuForm([menuForm EXCEPT !.name = t])
TypeSlug(t) == menuForm.customSlug /\ menuForm.slug # t /\ EditMenuForm([menuForm EXCEPT !.slug = t, !.slugError = FALSE])

(* The field opens with the address shown until then.                      *)
toggleCustomSlug ==
  EditMenuForm([menuForm EXCEPT !.customSlug = ~@, !.slugError = FALSE,
                        !.slug = IF ~menuForm.customSlug /\ @ = NoText
                                 THEN [length |-> menuForm.name.slug, slug |-> menuForm.name.slug] ELSE @])

(* slugify, of which only the length counts here; "menu" has four letters. *)
requestedSlug ==
  CASE menuForm.customSlug -> menuForm.slug.slug
    [] ~menuForm.customSlug /\ menuForm.name.slug # 0 -> menuForm.name.slug
    [] OTHER -> 4

NameRefused == menuForm.name.length < 2 \/ menuForm.name.length > MaxName

saveMenu ==
  /\ createOpen /\ ~menuForm.saving /\ ~NameRefused
  /\ IF requestedSlug < MinSlug THEN EditMenuForm([menuForm EXCEPT !.slugError = TRUE])
     ELSE EditMenuForm([menuForm EXCEPT !.saving = TRUE, !.slugError = FALSE])

CloseCreate ==
  /\ createOpen /\ ~menuForm.saving
  /\ createOpen' = FALSE
  /\ UNCHANGED <<menuList, switchOpen, menuToDelete, deletion, menuForm, dialogSteps>>

(* The context loads the new menu and selects it before the dialog closes. *)
MenuCreateLands(m) ==
  /\ menuForm.saving /\ m \notin listedMenus \cup MenusAtStart
  /\ listedMenus' = listedMenus \cup {m} /\ selectedMenu' = m
  /\ menuForm' = [menuForm EXCEPT !.saving = FALSE] /\ createOpen' = FALSE
  /\ UNCHANGED <<switchOpen, menuToDelete, deletion, dialogSteps>>

(* An address that is refused is marked on the field, anything else is told. *)
MenuCreateFails ==
  /\ menuForm.saving
  /\ \E conflict \in BOOLEAN : menuForm' = [menuForm EXCEPT !.saving = FALSE, !.slugError = conflict]
  /\ UNCHANGED <<menuList, openDialogs, deletion, dialogSteps>>

-----------------------------------------------------------------------------
DialogsInit ==
  /\ listedMenus = MenusAtStart /\ selectedMenu = FirstOf(MenusAtStart)
  /\ switchOpen = FALSE /\ createOpen = FALSE /\ menuToDelete = NoMenu /\ deleting = FALSE
  /\ deletions = {} /\ menuForm = EmptyForm /\ dialogSteps = 0
  /\ lock = [overflow |-> "", found |-> [d \in {"confirm", "switcher", "create"} |-> ""]]

(* What the bar does renders it; a form that is typed into renders alone.  *)
BarStep ==
  \/ OpenSwitcher \/ Cancel \/ confirmDelete \/ Escape \/ CloseSwitcher \/ OpenCreate \/ CloseCreate
  \/ \E m \in listedMenus : choose(m) \/ AskToDelete(m)
  \/ \E c \in deletions : MenuDeleteLands(c) \/ MenuDeleteFails(c)
  \/ \E m \in MenuId : MenuCreateLands(m)

FormStep ==
  \/ \E t \in NameText : TypeName(t) \/ TypeSlug(t)
  \/ toggleCustomSlug \/ saveMenu \/ MenuCreateFails

DialogsNext == (BarStep /\ BarRendered) \/ (FormStep /\ UNCHANGED lock)

DialogsSpec == DialogsInit /\ [][DialogsNext]_dialogVars

-----------------------------------------------------------------------------
(* The parts have their types; the confirmation stands over the switcher.  *)
DialogsTypeOK ==
  /\ listedMenus \subseteq MenuId /\ selectedMenu \in MenuId \cup {NoMenu}
  /\ menuToDelete \in MenuId \cup {NoMenu} /\ deleting \in BOOLEAN
  /\ menuToDelete # NoMenu => switchOpen
  /\ lock.overflow \in {"", "hidden"}

(* However the confirmation is closed and opened again while a request runs, *)
(* one deletion runs at a time: the flag outlives the dialog.              *)
OneDeletion == Cardinality(deletions) <= 1 /\ (deleting <=> deletions # {})

(* ActiveMenuBar: the confirmation "has to be destroyed first, or it would *)
(* restore that lock over the switcher's release".  With no dialog open the *)
(* body scrolls again.                                                     *)
LockIsReleased == OpenDialogs = {} => lock.overflow = ""
=============================================================================
