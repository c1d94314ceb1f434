------------------------------ MODULE MCPages ------------------------------
(* The pages and dialogs of the browser that share no state, in one run:     *)
(* `openPage` says which of them this behaviour is about, and the others     *)
(* rest in one of their initial states.  Leaving a page destroys its state   *)
(* (React unmounts it), so no page continues where another one left it.      *)
EXTENDS EditorForms, MenuDialogs, BulkPrice, SettingsForm, ClientSession, VisitorMenu, MenuScreen

VARIABLE openPage

pageVars == <<openPage, formVars, dialogVars, bulkVars, settingsVars, sessionVars, visitorVars, screenVars>>

(* One initial state for a page that rests.                                 *)
FormsRest == menuLanguages = CHOOSE s \in LanguageSettings : TRUE
SessionRest == stored = NoAccount /\ tab = [t \in Tab |-> Opened("landing", NoAccount)]
VisitorRest ==
  /\ published = {} /\ address.slug = NoSlug
  /\ browser.embedded /\ browser.storage /\ browser.optout
ScreenRest == embedded

PagesInit ==
  /\ openPage \in {"forms", "dialogs", "bulk", "settings", "session", "visitor", "screen"}
  /\ FormsInit /\ (openPage # "forms" => FormsRest)
  /\ DialogsInit /\ BulkInit /\ SettingsInit
  /\ SessionInit /\ (openPage # "session" => SessionRest)
  /\ VisitorInit /\ (openPage # "visitor" => VisitorRest)
  /\ ScreenInit /\ (openPage # "screen" => ScreenRest)

OnForms ==
  /\ openPage = "forms" /\ FormsNext
  /\ UNCHANGED <<openPage, dialogVars, bulkVars, settingsVars, sessionVars, visitorVars, screenVars>>

OnDialogs ==
  /\ openPage = "dialogs" /\ DialogsNext
  /\ UNCHANGED <<openPage, formVars, bulkVars, settingsVars, sessionVars, visitorVars, screenVars>>

OnBulk ==
  /\ openPage = "bulk" /\ BulkNext
  /\ UNCHANGED <<openPage, formVars, dialogVars, settingsVars, sessionVars, visitorVars, screenVars>>

OnSettings ==
  /\ openPage = "settings" /\ SettingsNext
  /\ UNCHANGED <<openPage, formVars, dialogVars, bulkVars, sessionVars, visitorVars, screenVars>>

OnSession ==
  /\ openPage = "session" /\ SessionNext
  /\ UNCHANGED <<openPage, formVars, dialogVars, bulkVars, settingsVars, visitorVars, screenVars>>

OnVisitor ==
  /\ openPage = "visitor" /\ VisitorNext
  /\ UNCHANGED <<openPage, formVars, dialogVars, bulkVars, settingsVars, sessionVars, screenVars>>

OnScreen ==
  /\ openPage = "screen" /\ ScreenNext
  /\ UNCHANGED <<openPage, formVars, dialogVars, bulkVars, settingsVars, sessionVars, visitorVars>>

PagesNext == OnForms \/ OnDialogs \/ OnBulk \/ OnSettings \/ OnSession \/ OnVisitor \/ OnScreen

PagesSpec == PagesInit /\ [][PagesNext]_pageVars

(* Every page keeps its state in shape - one type invariant for all of them - *)
(* and a dialog has one save or one deletion under way.                     *)
PagesInShape ==
  /\ FormsTypeOK /\ DialogsTypeOK /\ BulkTypeOK /\ SettingsTypeOK
  /\ SessionTypeOK /\ VisitorTypeOK /\ ScreenTypeOK
  /\ OneSaveAtATime /\ OneDeletion

-----------------------------------------------------------------------------
(* Values.                                                                 *)

(* Two languages and four settings of them, one of which does not offer its  *)
(* default language; a product with a badge and an  *)
(* option group that was named under another default language.              *)
MCLanguageSettings ==
  {[list |-> <<"tr">>, primary |-> "tr"], [list |-> <<"tr", "en">>, primary |-> "tr"],
   [list |-> <<"tr", "en">>, primary |-> "en"], [list |-> <<"tr">>, primary |-> "en"]}
MCStoredRow ==
  [category |-> [EmptyRow EXCEPT !.names = {"tr"}],
   product |-> [EmptyRow EXCEPT !.names = {"tr", "en"}, !.image = "stored", !.price = 14550, !.compare = 18000,
                  !.calories = 2200, !.badges = 1,
                  !.groups = <<[translations |-> {"tr", "en"}, items |-> <<[translations |-> {}, price |-> 1005]>>]>>]]

(* A list is filtered as SelectSeq filters it.                              *)
ASSUME FilteredIsSelected ==
  \A s \in UNION {[1..n -> 1..3] : n \in 0..4}, wanted \in SUBSET (1..3) :
    LET isWanted(x) == x \in wanted IN Filtered(s, wanted) = SelectSeq(s, isWanted)

MCPriceText == {Blank, Letters, Number(12, "comma", 50), Number(12, "dot", 50), Number(900, "none", 0)}
MCCalorieText == {None, 0, 15, 200000, 200010}

(* Names of a menu that are too long, too short an address, or the address   *)
(* of another menu.                                                        *)
MCNameText ==
  {[length |-> l[1], slug |-> l[2]] : l \in {<<1, 1>>, <<5, 1>>, <<61, 60>>, <<3, 0>>, <<6, 6>>}}

MCShelf == [a |-> "food", b |-> "drink"]
MCStartPrice == [a |-> 14760, b |-> 40]
MCPercentage == {-95, 10, -50}

(* A text of an owner: its UTF-16 units, its runes, and whether it is padded.*)
Typed3(units, runes, padded) == [units |-> units, runes |-> runes, padded |-> padded]
MCNameTyped == {Typed3(1, 1, FALSE), Typed3(2, 1, FALSE), Typed3(6, 6, TRUE)}
MCNoteTyped == {Typed3(0, 0, FALSE), Typed3(9, 9, TRUE)}
MCPhoneTyped == {Typed3(0, 0, FALSE), Typed3(7, 7, FALSE), Typed3(7, 7, TRUE)}
MCSlugTyped ==
  {[text |-> 1, dash |-> FALSE], [text |-> 5, dash |-> FALSE], [text |-> 5, dash |-> TRUE], [text |-> 8, dash |-> FALSE]}
MCRecordA ==
  [f \in Field \cup {"priceDate", "count"} |->
    CASE f = "name" -> Typed3(6, 6, FALSE)
      [] f \in {"phone", "wifi"} -> Typed3(7, 7, FALSE)
      [] f \in Text \ {"name", "phone", "wifi"} -> Typed3(0, 0, FALSE)
      [] f \in Colour -> "valid"
      [] f = "slug" -> 5
      [] f = "duration" -> 300
      [] f = "links" -> <<[id |-> 3, label |-> "good", url |-> "good"], [id |-> 3, label |-> "bad", url |-> "good"]>>
      [] f = "display" -> "footer"
      [] f = "languages" -> {1, 2}
      [] f = "primary" -> 3
      [] f \in {"priceDate", "count"} -> 0
      [] f \in Choice \cup Image -> TRUE
      [] f = "footer" -> FALSE]
MCRecordB == [MCRecordA EXCEPT !.slug = 8, !.links = <<>>, !.display = "inline", !.languages = {2}, !.primary = 2]
MCRecords == [a |-> MCRecordA, b |-> MCRecordB]

(* Forms filled in right, and wrong in one way each.                        *)
GoodEntry ==
  [name |-> [runes |-> 5, slug |-> TRUE], email |-> "valid", password |-> 8, again |-> TRUE, current |-> FALSE]
MCEntry ==
  {GoodEntry,
   [GoodEntry EXCEPT !.name = [runes |-> 1, slug |-> TRUE]], [GoodEntry EXCEPT !.name = [runes |-> 5, slug |-> FALSE]],
   [GoodEntry EXCEPT !.email = "malformed"], [GoodEntry EXCEPT !.email = "blank"],
   [GoodEntry EXCEPT !.password = 7], [GoodEntry EXCEPT !.password = 80],
   [GoodEntry EXCEPT !.again = FALSE], [GoodEntry EXCEPT !.current = TRUE]}

(* A menu in two languages and one in the default language alone.            *)
MCOffered == [m1 |-> {"tr", "de"}, m2 |-> {"tr"}]
MCDefaultOf == [m1 |-> "tr", m2 |-> "tr"]
MCPreferred == <<"de">>

(* A dish with a required choice and extras, and a drink with extras.        *)
MCOptionGroups ==
  [p1 |-> <<[type |-> "single", required |-> TRUE, prices |-> <<0, 500>>],
            [type |-> "multiple", required |-> FALSE, prices |-> <<250>>]>>,
   p2 |-> <<[type |-> "multiple", required |-> FALSE, prices |-> <<100, 200>>]>>]
MCBasePrice == [p1 |-> 1000, p2 |-> 700]
MCProductsIn == [c1 |-> {"p1"}, c2 |-> {"p2"}, c3 |-> {}]
=============================================================================
