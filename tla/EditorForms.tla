---------------------------- MODULE EditorForms -----------------------------
(* The category and the product dialog of the menu editor (CategoryModal,  *)
(* ProductModal) with the image field in them (ImageUploader): the form is *)
(* filled from a stored row, edited, checked, sent; the server checks it   *)
(* again.  Meanwhile the languages of the menu may change, and an upload   *)
(* may end long after the dialog it was started in.                        *)
(*                                                                         *)
(* Texts are abstracted to whether they are there; of the fields nobody     *)
(* checks, `plain` is the set of those that differ from the stored row.     *)
EXTENDS Naturals, FiniteSets, SequencesExt, Filters, Prices

CONSTANTS
  MenuLanguage, None,
  LanguageSettings,            \* the language settings a menu may have: [list, primary]
  StoredRow,           \* the rows each kind of form is opened on
  PriceText, CalorieText,   \* the texts an owner types; calories in tenths
  MaxPrice,            \* the ceiling of a stored price, and of a surcharge
  MaxSurcharge,
  MaxBadges, MaxOptionGroups, MaxOptionItems,
  MaxFormEdits             \* bound: edits, openings and changes of the languages

ASSUME FormConstants ==
  /\ \A s \in LanguageSettings : s.list \in Seq(MenuLanguage) /\ Len(s.list) > 0 /\ s.primary \in MenuLanguage
  /\ PriceText \subseteq TypedText /\ CalorieText \subseteq Nat \cup {None}
  /\ {MaxPrice, MaxSurcharge, MaxBadges, MaxOptionGroups, MaxOptionItems} \subseteq Nat /\ MaxOptionItems > 0

VARIABLES
  formRows,         \* the stored rows of each kind, and "new" for what was created
  menuLanguages,        \* the languages of the menu in the database
  knownLanguages,       \* and as the dashboard last read them
  form,        \* the open dialog, or None
  opening,     \* the number of the last opening
  uploads,     \* the openings that started an upload still under way
  formSaves,       \* saves under way, oldest first
  formEdits        \* how many acts there were

formVars == <<formRows, menuLanguages, knownLanguages, form, opening, uploads, formSaves, formEdits>>
languagesOf == <<menuLanguages, knownLanguages>>

FormKind == {"category", "product"}

-----------------------------------------------------------------------------
(* Languages.                                                              *)

primaryLanguage(s) == IF s.primary \in ToSet(s.list) THEN s.primary ELSE s.list[1]

-----------------------------------------------------------------------------
(* Option groups.                                                          *)

(* A stored option has a plain name, and translations of it.  The primary   *)
(* language reads its own translation, else the plain name.                *)
optionNamesOf(entry, s) == (entry.translations \cap ToSet(s.list)) \cup {primaryLanguage(s)}

OptionRows(groups, s) ==
  [g \in DOMAIN groups |->
    [names |-> optionNamesOf(groups[g], s),
     items |-> [i \in DOMAIN groups[g].items |->
       [names |-> optionNamesOf(groups[g].items[i], s),
        price |-> priceToInput(groups[g].items[i].price)]]]]

newOptionItem == [names |-> {}, price |-> Blank]
newOptionGroup == [names |-> {}, items |-> <<newOptionItem>>]

hasAnyOptionName(r) == r.names # {}
Named(rows) == Filtered(rows, {r \in ToSet(rows) : hasAnyOptionName(r)})

(* The name in the primary language is sent as the plain name, the others    *)
(* as translations.                                                         *)
HasName(names, s) == primaryLanguage(s) \in names
Translations(names, s) == (names \cap ToSet(s.list)) \ {primaryLanguage(s)}

ItemsPayload(items, s) ==
  [i \in DOMAIN Named(items) |->
    [name |-> HasName(Named(items)[i].names, s), translations |-> Translations(Named(items)[i].names, s),
     price |-> parsePrice(Named(items)[i].price)]]

(* A row without any name is dropped, and a group left without items.      *)
OptionsPayload(groups, s) ==
  LET all == [g \in DOMAIN Named(groups) |->
                [name |-> HasName(Named(groups)[g].names, s), translations |-> Translations(Named(groups)[g].names, s),
                 items |-> ItemsPayload(Named(groups)[g].items, s)]]
  IN Filtered(all, {g \in ToSet(all) : g.items # <<>>})

(* A check of the groups that forgets their items.                         *)
OptionGroupProblem(groups, s) == \E g \in ToSet(Named(groups)) : ~HasName(g.names, s)

(* A row that is named, but not in the primary language.                   *)
OptionProblem(groups, s) ==
  \E g \in ToSet(Named(groups)) :
    \/ ~HasName(g.names, s)
    \/ \E i \in ToSet(Named(g.items)) : ~HasName(i.names, s)

-----------------------------------------------------------------------------
(* The form and what it sends.                                             *)

EmptyRow == [names |-> {}, plain |-> {}, shelf |-> "own", image |-> None, price |-> 0, compare |-> None,
             calories |-> None, badges |-> 0, groups |-> <<>>]

CaloriesRefused(calories) == calories # None /\ (calories % 10 # 0 \/ calories > 200000)

(* A row the server has stored: Normalize leaves no group without an item,  *)
(* and a category has none.                                                *)
StoredItem == [translations : SUBSET MenuLanguage, price : Nat]
StoredGroup == [translations : SUBSET MenuLanguage, items : Seq(StoredItem) \ {<<>>}]

IsStored(kind, r) ==
  /\ r = [f \in DOMAIN EmptyRow |-> r[f]]
  /\ r.names \subseteq MenuLanguage /\ r.shelf # "none"
  /\ r.price \in Nat /\ r.compare \in Nat \cup {None}
  /\ r.calories \in Nat \cup {None} /\ ~CaloriesRefused(r.calories)
  /\ r.badges \in 0..MaxBadges
  /\ r.groups \in Seq(StoredGroup) /\ Len(r.groups) <= MaxOptionGroups
  /\ \A g \in ToSet(r.groups) : Len(g.items) <= MaxOptionItems
  /\ kind = "category" => r.groups = <<>>

ASSUME StoredRows ==
  /\ StoredRow = [kind \in FormKind |-> StoredRow[kind]]
  /\ \A kind \in FormKind : IsStored(kind, StoredRow[kind])

(* Filled when it opens, and again when the languages change while it is    *)
(* open: the flag of a save under way goes with the rest.                  *)
FormFilled(kind, r, new, s, number) ==
  [kind |-> kind, new |-> new, settings |-> s, opening |-> number,
   names |-> r.names \cap ToSet(s.list), plain |-> r.plain, shelf |-> r.shelf, image |-> r.image,
   price |-> IF new THEN Blank ELSE priceToInput(r.price),
   compare |-> IF r.compare = None THEN Blank ELSE priceToInput(r.compare),
   calories |-> r.calories,
   badges |-> [b \in 1..r.badges |-> TRUE],
   groups |-> OptionRows(r.groups, s),
   activeLanguage |-> primaryLanguage(s), errors |-> {}, saving |-> FALSE,
   source |-> r, typed |-> FALSE, typedPrice |-> None, refilled |-> FALSE]   \* the row; history, for the properties

FieldName == {"category", "name", "price", "comparePrice", "calories", "options"}

Wrong(f, field) ==
  \/ field = "name" /\ primaryLanguage(f.settings) \notin f.names
  \/ /\ f.kind = "product"
     /\ \/ field = "category" /\ f.shelf = "none"
        \/ field = "price" /\ ~isValidPriceText(f.price)
        \/ field = "comparePrice" /\ f.compare # Blank /\ ~isValidPriceText(f.compare)
        \/ field = "calories" /\ f.calories # None /\ (f.calories % 10 # 0 \/ f.calories > 10 * 20000)
        \/ field = "options" /\ OptionProblem(f.groups, f.settings)

Problems(f) == {field \in FieldName : Wrong(f, field)}

FormPayload(f) ==
  [names |-> f.names, plain |-> f.plain, shelf |-> f.shelf, image |-> f.image,
   price |-> parsePrice(f.price),
   compare |-> IF f.compare = Blank THEN None ELSE parsePrice(f.compare),
   calories |-> f.calories,
   badges |-> Cardinality({b \in DOMAIN f.badges : f.badges[b]}),
   groups |-> OptionsPayload(f.groups, f.settings)]

(* The server's checks of the same fields, under the languages it knows.  An *)
(* option without a plain name takes the one in the default language.       *)
Nameless(option, s) == ~option.name /\ s.primary \notin option.translations

RefusedFor(payload, s) ==
  {field \in FieldName \cup {"badges", "tooLarge"} :
    CASE field = "name" -> s.primary \notin payload.names
      [] field = "category" -> payload.shelf = "none"
      [] field = "tooLarge" -> \/ PriceRefused(payload.price, MaxPrice)
                               \/ payload.compare # None /\ PriceRefused(payload.compare, MaxPrice)
                               \/ \E g \in ToSet(payload.groups) : \E i \in ToSet(g.items) :
                                    PriceRefused(i.price, MaxSurcharge)
      [] field = "calories" -> CaloriesRefused(payload.calories)
      [] field = "badges" -> payload.badges > MaxBadges
      [] field = "options" -> \/ Len(payload.groups) > MaxOptionGroups
                              \/ \E g \in ToSet(payload.groups) :
                                   \/ Nameless(g, s) \/ Len(g.items) > MaxOptionItems
                                   \/ \E i \in ToSet(g.items) : Nameless(i, s)
      [] OTHER -> FALSE}

(* What it stores: the plain name is the name in the default language, and    *)
(* stands among the translations too as soon as there are others, so that it *)
(* is still found under its language when the default changes.              *)
WithCopy(translations, s) ==
  IF translations \subseteq {s.primary} THEN {} ELSE translations \cup {s.primary}

SanitizeOptions(groups, s) ==
  [g \in DOMAIN groups |->
    [translations |-> WithCopy(groups[g].translations, s),
     items |-> [i \in DOMAIN groups[g].items |->
       [translations |-> WithCopy(groups[g].items[i].translations, s), price |-> groups[g].items[i].price]]]]

Stored(payload, s) == [payload EXCEPT !.groups = SanitizeOptions(@, s)]

-----------------------------------------------------------------------------
(* The dialog opens and closes.                                            *)

MayEditForm == formEdits < MaxFormEdits
FormAct == MayEditForm /\ formEdits' = formEdits + 1

OpenForm(kind, new) ==
  /\ form = None /\ FormAct
  /\ opening' = opening + 1
  /\ form' = [FormFilled(kind, IF new THEN EmptyRow ELSE formRows[kind], new, knownLanguages, opening + 1)
              EXCEPT !.refilled = formSaves # <<>>]
  /\ UNCHANGED <<formRows, languagesOf, uploads, formSaves>>

CloseForm ==
  /\ form # None /\ ~form.saving
  /\ form' = None
  /\ UNCHANGED <<formRows, languagesOf, opening, uploads, formSaves, formEdits>>

(* The settings page of another tab changes the languages; the dashboard   *)
(* notices whenever it reads its menus again.                              *)
LanguagesChange(s) ==
  /\ s # menuLanguages /\ FormAct
  /\ menuLanguages' = s
  /\ UNCHANGED <<formRows, knownLanguages, form, opening, uploads, formSaves>>

refreshMenu ==
  /\ knownLanguages # menuLanguages
  /\ knownLanguages' = menuLanguages
  /\ form' = IF form = None THEN None
             ELSE [FormFilled(form.kind, form.source, form.new, menuLanguages, form.opening) EXCEPT !.refilled = formSaves # <<>>]
  /\ UNCHANGED <<formRows, menuLanguages, opening, uploads, formSaves, formEdits>>

-----------------------------------------------------------------------------
(* Editing.  Nothing is disabled while a save is under way.                *)

Edit(f) ==
  /\ FormAct
  /\ form' = [f EXCEPT !.typed = TRUE]
  /\ UNCHANGED <<formRows, languagesOf, opening, uploads, formSaves>>

SwitchLanguage(l) ==
  /\ form.activeLanguage # l /\ l \in ToSet(form.settings.list)
  /\ form' = [form EXCEPT !.activeLanguage = l]
  /\ UNCHANGED <<formRows, languagesOf, opening, uploads, formSaves, formEdits>>

(* A name is written where there was none, or cleared.                     *)
Toggled(names) ==
  IF form.activeLanguage \in names THEN names \ {form.activeLanguage} ELSE names \cup {form.activeLanguage}

updateField ==
  LET names == Toggled(form.names) IN
  Edit([form EXCEPT !.names = names,
          !.errors = IF form.activeLanguage = primaryLanguage(form.settings) /\ primaryLanguage(form.settings) \in names
                     THEN @ \ {"name"} ELSE @])

Change(field) == field \notin form.plain /\ Edit([form EXCEPT !.plain = @ \cup {field}])

EditTexts == Change("texts")         \* description and ingredients
EditIcon == form.kind = "category" /\ Change("icon")
SwitchActive == Change("active")

ChooseShelf(shelf) == shelf # form.shelf /\ Edit([form EXCEPT !.shelf = shelf, !.errors = @ \ {"category"}])
toggleAllergen == Change("allergens")
SwitchFeatured == Change("featured")

TypePrice(t) == Edit([form EXCEPT !.price = AfterBlur(t), !.errors = @ \ {"price"}, !.typedPrice = t])
TypeComparePrice(t) == Edit([form EXCEPT !.compare = AfterBlur(t), !.errors = @ \ {"comparePrice"}])
TypeCalories(c) == Edit([form EXCEPT !.calories = c, !.errors = @ \ {"calories"}])

addBadge == Len(form.badges) < MaxBadges /\ Edit([form EXCEPT !.badges = Append(@, FALSE)])
updateBadge(b) == Edit([form EXCEPT !.badges[b] = ~@])
removeBadge(b) == Edit([form EXCEPT !.badges = RemoveAt(@, b)])
ChooseBadgeIcon == form.badges # <<>> /\ Change("badgeIcon")
ChooseBadgeColours == form.badges # <<>> /\ Change("badgeColours")

(* Writing into a name clears the error of the options if it stands at that *)
(* row, which is not kept here.                                            *)
EditOptionName(f) == \E shown \in {f.errors, f.errors \ {"options"}} : Edit([f EXCEPT !.errors = shown])

addOptionGroup ==
  Len(form.groups) < MaxOptionGroups /\ Edit([form EXCEPT !.groups = Append(@, newOptionGroup)])
removeOptionGroup(g) == Edit([form EXCEPT !.groups = RemoveAt(@, g)])
updateOptionGroup == form.groups # <<>> /\ (Change("optionType") \/ Change("optionRequired"))
updateOptionGroupName(g) == EditOptionName([form EXCEPT !.groups[g].names = Toggled(@)])
addOptionItem(g) ==
  Len(form.groups[g].items) < MaxOptionItems /\ Edit([form EXCEPT !.groups[g].items = Append(@, newOptionItem)])
removeOptionItem(g, i) == Edit([form EXCEPT !.groups[g].items = RemoveAt(@, i)])
updateOptionItemName(g, i) == EditOptionName([form EXCEPT !.groups[g].items[i].names = Toggled(@)])
updateOptionItem(g, i, t) == Edit([form EXCEPT !.groups[g].items[i].price = AfterBlur(t)])

EditOptions ==
  \/ addOptionGroup \/ updateOptionGroup
  \/ \E g \in DOMAIN form.groups :
       \/ removeOptionGroup(g) \/ updateOptionGroupName(g) \/ addOptionItem(g)
       \/ \E i \in DOMAIN form.groups[g].items :
            \/ removeOptionItem(g, i) \/ updateOptionItemName(g, i)
            \/ \E t \in PriceText : updateOptionItem(g, i, t)

EditProduct ==
  \/ \E t \in PriceText : TypePrice(t) \/ TypeComparePrice(t)
  \/ \E c \in CalorieText : TypeCalories(c)
  \/ \E shelf \in {"none", "own", "other"} : ChooseShelf(shelf)
  \/ toggleAllergen \/ SwitchFeatured \/ ChooseBadgeIcon \/ ChooseBadgeColours
  \/ addBadge \/ \E b \in DOMAIN form.badges : updateBadge(b) \/ removeBadge(b)
  \/ EditOptions

-----------------------------------------------------------------------------
(* The image field.                                                        *)

Mine == [kind |-> form.kind, opening |-> form.opening]

onFileSelected ==
  /\ Mine \notin uploads /\ FormAct
  /\ uploads' = uploads \cup {Mine}
  /\ UNCHANGED <<formRows, languagesOf, form, opening, formSaves>>

RemoveImage == Mine \notin uploads /\ form.image # None /\ Edit([form EXCEPT !.image = None])

(* The dialog keeps its state while it is closed: an upload of an earlier  *)
(* opening sets the image of the one that is open now.                     *)
UploadLands(u) ==
  /\ uploads' = uploads \ {u}
  /\ form' = IF form # None /\ form.kind = u.kind THEN [form EXCEPT !.image = "uploaded", !.typed = TRUE] ELSE form
  /\ UNCHANGED <<formRows, languagesOf, opening, formSaves, formEdits>>

UploadFails(u) ==
  /\ uploads' = uploads \ {u}
  /\ UNCHANGED <<formRows, languagesOf, form, opening, formSaves, formEdits>>

-----------------------------------------------------------------------------
(* Saving.                                                                 *)

FormRefused ==
  /\ Problems(form) # {} /\ ~form.saving
  /\ form' = [form EXCEPT !.errors = Problems(form),
                !.activeLanguage = IF Problems(form) \cap {"name", "options"} # {} THEN primaryLanguage(form.settings) ELSE @]
  /\ UNCHANGED <<formRows, languagesOf, opening, uploads, formSaves, formEdits>>

saveForm ==
  /\ Problems(form) = {} /\ ~form.saving
  /\ form' = [form EXCEPT !.saving = TRUE]
  /\ formSaves' = Append(formSaves, [form |-> form, payload |-> FormPayload(form), phase |-> "sent"])
  /\ UNCHANGED <<formRows, languagesOf, opening, uploads, formEdits>>

(* The server answers: what it does not refuse it stores, and the answer   *)
(* may be lost.                                                            *)
FormExecutes(i) ==
  LET f == formSaves[i].form IN
  /\ formSaves[i].phase = "sent"
  /\ IF RefusedFor(formSaves[i].payload, menuLanguages) = {}
     THEN /\ formRows' = IF f.new THEN formRows ELSE [formRows EXCEPT ![f.kind] = Stored(formSaves[i].payload, menuLanguages)]
          /\ \E phase \in {"done", "failed"} : formSaves' = [formSaves EXCEPT ![i].phase = phase]
     ELSE formRows' = formRows /\ formSaves' = [formSaves EXCEPT ![i].phase = "failed"]
  /\ UNCHANGED <<languagesOf, form, opening, uploads, formEdits>>

(* Success closes the dialog, whatever it is open on by then.              *)
FormLands(i) ==
  /\ formSaves[i].phase \in {"done", "failed"}
  /\ formSaves' = RemoveAt(formSaves, i)
  /\ form' = IF form = None \/ form.kind # formSaves[i].form.kind THEN form
             ELSE IF formSaves[i].phase = "done" THEN None
             ELSE [form EXCEPT !.saving = FALSE]
  /\ UNCHANGED <<formRows, languagesOf, opening, uploads, formEdits>>

-----------------------------------------------------------------------------
FormsInit ==
  /\ formRows = StoredRow
  /\ menuLanguages \in LanguageSettings /\ knownLanguages = menuLanguages
  /\ form = None /\ opening = 0 /\ uploads = {} /\ formSaves = <<>> /\ formEdits = 0

InDialog ==
  /\ form # None
  /\ \/ CloseForm \/ saveForm \/ FormRefused
     \/ updateField \/ EditTexts \/ EditIcon \/ SwitchActive \/ onFileSelected \/ RemoveImage
     \/ \E l \in MenuLanguage : SwitchLanguage(l)
     \/ form.kind = "product" /\ EditProduct

FormsNext ==
  \/ \E kind \in FormKind, new \in BOOLEAN : OpenForm(kind, new)
  \/ InDialog
  \/ \E s \in LanguageSettings : LanguagesChange(s)
  \/ refreshMenu
  \/ \E u \in uploads : UploadLands(u) \/ UploadFails(u)
  \/ \E i \in DOMAIN formSaves : FormExecutes(i) \/ FormLands(i)

FormsSpec == FormsInit /\ [][FormsNext]_formVars

-----------------------------------------------------------------------------
(* The form has its parts, within the limits that the dialog prints beside *)
(* its buttons.                                                            *)
FormsTypeOK ==
  /\ menuLanguages \in LanguageSettings /\ knownLanguages \in LanguageSettings
  /\ form # None =>
       /\ form.kind \in FormKind /\ form.names \subseteq MenuLanguage /\ form.errors \subseteq FieldName
       /\ form.activeLanguage \in ToSet(form.settings.list)
       /\ Len(form.badges) <= MaxBadges /\ Len(form.groups) <= MaxOptionGroups
       /\ \A g \in ToSet(form.groups) : Len(g.items) <= MaxOptionItems

(* What the dialog lets through, the server takes: under the languages the *)
(* form was filled for, a payload is refused for nothing but an amount that *)
(* is too large, which only the server checks - and for its name, always,   *)
(* in a menu that does not offer its default language, which the server     *)
(* lets be set (handlers/menu.go:410-428): the dialog has no field for that *)
(* name.  The two sets of rules are written twice, in two languages, over    *)
(* rows that may be half finished.                                         *)
SentIsAcceptable ==
  \A i \in DOMAIN formSaves : LET s == formSaves[i].form.settings IN
    RefusedFor(formSaves[i].payload, s) \ {"tooLarge"} =
      IF s.primary \in ToSet(s.list) THEN {} ELSE {"name"}

(* Opening a row and saving it untouched writes the row back: every text   *)
(* the form was filled with is read as the value it came from.  Only         *)
(* languages the menu no longer has fall away, and an option's plain name is *)
(* then the one in the present default language.                            *)
NamesWithin(translations, s) == WithCopy(Translations(translations, s), s)
ItemsWithin(items, s) == [i \in DOMAIN items |-> [items[i] EXCEPT !.translations = NamesWithin(@, s)]]

Within(r, s) ==
  [r EXCEPT !.names = @ \cap ToSet(s.list),
            !.groups = [g \in DOMAIN r.groups |->
              [translations |-> NamesWithin(r.groups[g].translations, s),
               items |-> ItemsWithin(r.groups[g].items, s)]]]

UntouchedSaveChangesNothing ==
  \A i \in DOMAIN formSaves : LET f == formSaves[i].form IN
    ~f.new /\ ~f.typed => Stored(formSaves[i].payload, f.settings) = Within(f.source, f.settings)

(* An opening has one save under way: the dialog neither sends twice nor    *)
(* closes over its own request, unless it was filled while a save was under *)
(* way, which only a change of the languages makes possible (see README).  *)
OneSaveAtATime ==
  /\ \A i, j \in DOMAIN formSaves :
       i < j => formSaves[i].form.opening # formSaves[j].form.opening \/ formSaves[j].form.refilled
  /\ \A i \in DOMAIN formSaves :
       form # None /\ form.opening = formSaves[i].form.opening /\ ~form.refilled => form.saving

(* parsePrice: "accepts both "12,50" and "12.50"".  The amount that is sent *)
(* is the amount that was typed.                                           *)
SentAsTyped ==
  \A i \in DOMAIN formSaves : formSaves[i].form.typedPrice # None => formSaves[i].payload.price = Meant(formSaves[i].form.typedPrice)
=============================================================================
