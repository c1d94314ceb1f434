---------------------------- MODULE MCDashboard ----------------------------
(* The menu editor and the menu context in one run: `part` says which of     *)
(* them this behaviour is about, and the other one stays as it began.  Each  *)
(* models its own half of the exchange: the context the list of menus and    *)
(* the selection, the editor the lists of the menu that is selected.         *)
(*                                                                         *)
(* The editor has two menus; the first has two categories and two products, *)
(* a category of the second and a third product are still to be created.    *)
EXTENDS MenuEditor, MenuContext

VARIABLE part

dashboardVars == <<part, editorVars, contextVars>>

DashboardInit == part \in {"editor", "context"} /\ EditorInit /\ ContextInit

OnEditor == part = "editor" /\ EditorNext /\ UNCHANGED <<part, contextVars>>
OnContext == part = "context" /\ ContextNext /\ UNCHANGED <<part, editorVars>>

DashboardNext == OnEditor \/ OnContext

DashboardSpec == DashboardInit /\ [][DashboardNext]_dashboardVars

(* The page and the context keep their state in shape, and once nothing is   *)
(* under way and nothing explains a difference, the lists of the page and    *)
(* the phone beside them show what is stored (MenuEditor.jsx:434).           *)
DashboardShowsStored ==
  /\ EditorTypeOK /\ ContextTypeOK
  /\ SettledShowsStored /\ PreviewShowsStored

-----------------------------------------------------------------------------
MCMenuAtStart == <<"m1", "m1", None>>
MCRowAtStart ==
  <<[category |-> 1, position |-> 0, price |-> 1, active |-> TRUE],
    [category |-> 1, position |-> 1, price |-> 1, active |-> TRUE],
    None>>
=============================================================================
