---------------------------- MODULE SettingsForm ----------------------------
(* The settings page (pages/dashboard/MenuSettings): a draft of the active  *)
(* menu is edited, compared with the menu as the dashboard knows it, checked *)
(* and sent field by field; the server checks it again, may number the      *)
(* address, and answers with what it stored.  Meanwhile the menu list is    *)
(* refreshed, another menu is chosen, the page is left and opened again,    *)
(* and another tab writes.                                                 *)
(*                                                                         *)
(* Every control of the page is an action; `phone` is also the address, and  *)
(* `wifi` both of its texts.  A switch, a choice and an image have two       *)
(* values each.  A text is its length in UTF-16 units and in runes, and      *)
(* whether blanks surround it.  The order of refreshes and answers is        *)
(* MenuContext's.                                                          *)
EXTENDS Naturals, FiniteSets, SequencesExt, Filters

CONSTANTS
  SettingsMenu, FirstSettings,
  RecordAtStart,           \* the stored menus
  OfferedLanguage,         \* the languages of the code, by number
  NameTyped, NoteTyped, SlugTyped, PhoneTyped,
  MaxSettingsName, MaxSlogan, MaxNote, MinAddress, MaxLinks,
  MaxSettingsSteps         \* bound: edits, switches, and writes of another tab

ASSUME SettingsConstants ==
  /\ FirstSettings \in SettingsMenu
  /\ OfferedLanguage \subseteq Nat
  /\ {MaxSettingsName, MaxSlogan, MaxNote, MinAddress, MaxLinks} \subseteq Nat

VARIABLES
  menuRecords,      \* the menus in the database
  shownRecords,     \* and as the dashboard holds them
  settingsMenu,     \* the active menu
  base,             \* `stored`: the draft of the menu as the page last built it
  draft,
  saving, slugError,
  settingsVisit,    \* how often the page was opened
  settingsSaves,    \* saves under way
  imageUploads,     \* the image fields with an upload under way, by visit
  settingsEdited,   \* history: the fields edited since the draft was built
  settingsSteps

settingsVars ==
  <<menuRecords, shownRecords, settingsMenu, base, draft, saving, slugError, settingsVisit,
    settingsSaves, imageUploads, settingsEdited, settingsSteps>>

settingsForm == <<base, draft, slugError, settingsEdited>>

-----------------------------------------------------------------------------
(* From a menu to a draft.                                                 *)

Image == {"logo", "cover", "productionLogo", "backgroundImage", "splashLogo"}
Text == {"name", "slogan", "description", "phone", "instagram", "wifi", "vatNote", "headline"}
Colour == {"accent", "ink", "background", "splashColour"}
Choice ==
  {"header", "showDate", "showVat", "production", "currency", "theme", "font", "imageBackground", "overlay",
   "splash", "splashDisplay", "entrance", "slides", "slideFade", "easing", "exitDuration", "active"}

Field ==
  Image \cup Text \cup Colour \cup Choice
    \cup {"slug", "duration", "links", "display", "footer", "languages", "primary"}

(* No text has more runes than UTF-16 units.                                *)
IsText(t) == t \in [units : Nat, runes : Nat, padded : BOOLEAN] /\ t.runes <= t.units

IsRecord(r) == r = [f \in Field \cup {"priceDate", "count"} |-> r[f]] /\ \A f \in Text : IsText(r[f])

ASSUME SettingsTexts ==
  /\ \A t \in NameTyped \cup NoteTyped \cup PhoneTyped : IsText(t)
  /\ RecordAtStart = [m \in SettingsMenu |-> RecordAtStart[m]]
  /\ \A m \in SettingsMenu : IsRecord(RecordAtStart[m])

(* What every write of a menu makes sure of: a language, and no more links   *)
(* than allowed.                                                           *)
Link == [id : Nat, label : {"", "good", "bad"}, url : {"", "good", "bad"}]
RecordShape(r) ==
  /\ r.languages \in (SUBSET OfferedLanguage) \ {{}}
  /\ r.links \in Seq(Link) /\ Len(r.links) <= MaxLinks

ASSUME SettingsShapes == \A m \in SettingsMenu : RecordShape(RecordAtStart[m])

FirstLanguage(S) == CHOOSE l \in S : \A k \in S : l <= k

(* The home view and the footer list; a legacy "footer" means both halves. *)
contactPlacement(r) ==
  IF r.display = "footer" THEN [display |-> "hidden", footer |-> TRUE]
  ELSE [display |-> r.display, footer |-> r.footer]

(* No row has a larger id.                                                  *)
LargestLinkId(links) ==
  CHOOSE n \in {100} \cup {r.id : r \in ToSet(links)} : \A r \in ToSet(links) : 100 <= n /\ r.id <= n

(* A row keeps the first use of a stored id; 0 is a missing one.            *)
buildLinkRows(links) ==
  [i \in DOMAIN links |->
    [links[i] EXCEPT !.id =
      IF @ # 0 /\ \A j \in 1..(i - 1) : links[j].id # @ THEN @ ELSE LargestLinkId(links) + i]]

buildDraft(r) ==
  [f \in Field |->
    CASE f = "slug" -> [text |-> r.slug, dash |-> FALSE]
      [] f = "links" -> buildLinkRows(r.links)
      [] f \in {"display", "footer"} -> contactPlacement(r)[f]
      [] f = "primary" -> IF r.primary \in r.languages THEN r.primary ELSE FirstLanguage(r.languages)
      [] OTHER -> r[f]]

-----------------------------------------------------------------------------
(* What changed.                                                           *)

Trimmed(t) == [t EXCEPT !.padded = FALSE]
Address(s) == s.text          \* slugify drops the dash at the end

savableLinks(rows) == Filtered(rows, {r \in ToSet(rows) : r.label # "" \/ r.url # ""})

linksEqual(a, b) ==
  LET bare(rows) == [i \in DOMAIN savableLinks(rows) |->
                      <<savableLinks(rows)[i].label, savableLinks(rows)[i].url>>]
  IN bare(a) = bare(b)

fieldEqual(f, a, b) ==
  CASE f = "links" -> linksEqual(a, b)
    [] f \in Text -> Trimmed(a) = Trimmed(b)
    [] OTHER -> a = b

changedFields == {f \in Field : ~fieldEqual(f, draft[f], base[f])}
hasChanges == changedFields # {}

(* A draft that depends on the whole record, dates and count included.      *)
WholeRecord(r) == r

(* The values a draft depends on: all but the dates and the count.         *)
storedKey(r) == [r EXCEPT !.priceDate = 0, !.count = 0]

-----------------------------------------------------------------------------
(* The page rebuilds its draft when the active menu shows other values, and *)
(* after every save of its own.                                            *)
DraftOf(r) ==
  /\ base' = buildDraft(r) /\ draft' = buildDraft(r)
  /\ slugError' = FALSE /\ settingsEdited' = {}

Shows(m, r, saved) ==
  /\ shownRecords' = [shownRecords EXCEPT ![m] = r]
  /\ IF saved \/ (m = settingsMenu /\ storedKey(r) # storedKey(shownRecords[m]))
     THEN DraftOf(shownRecords'[settingsMenu])
     ELSE UNCHANGED settingsForm

SettingsStep == settingsSteps < MaxSettingsSteps /\ settingsSteps' = settingsSteps + 1

SwitchSettings(m) ==
  /\ m # settingsMenu /\ SettingsStep
  /\ settingsMenu' = m
  /\ DraftOf(shownRecords[m])
  /\ UNCHANGED <<menuRecords, shownRecords, saving, settingsVisit, settingsSaves, imageUploads>>

(* Another page is opened and this one again: a new instance.               *)
VisitSettings ==
  /\ SettingsStep
  /\ settingsVisit' = settingsVisit + 1 /\ saving' = FALSE
  /\ DraftOf(shownRecords[settingsMenu])
  /\ UNCHANGED <<menuRecords, shownRecords, settingsMenu, settingsSaves, imageUploads>>

(* refreshMenu, after a price change in the editor; the count is kept.     *)
RefreshSettings(m) ==
  /\ Shows(m, [menuRecords[m] EXCEPT !.count = shownRecords[m].count], FALSE)
  /\ UNCHANGED <<menuRecords, settingsMenu, saving, settingsVisit, settingsSaves, imageUploads, settingsSteps>>

CountChanges(m) ==
  /\ Shows(m, [shownRecords[m] EXCEPT !.count = 1 - @], FALSE) /\ SettingsStep
  /\ UNCHANGED <<menuRecords, settingsMenu, saving, settingsVisit, settingsSaves, imageUploads>>

(* Prices change, and another tab saves other settings.                     *)
OtherTabWrites(m) ==
  /\ SettingsStep
  /\ \/ menuRecords' = [menuRecords EXCEPT ![m].priceDate = 1 - @]
     \/ \E t \in PhoneTyped : ~t.padded /\ menuRecords' = [menuRecords EXCEPT ![m].phone = t]
  /\ UNCHANGED <<shownRecords, settingsMenu, settingsForm, saving, settingsVisit, settingsSaves, imageUploads>>

-----------------------------------------------------------------------------
(* Editing.  Nothing is disabled while a save runs.                        *)

Edited(fields, d, error) ==
  /\ d # draft /\ SettingsStep
  /\ draft' = d /\ slugError' = error
  /\ settingsEdited' = settingsEdited \cup fields
  /\ UNCHANGED <<menuRecords, shownRecords, settingsMenu, base, saving, settingsVisit, settingsSaves, imageUploads>>

update(f, v) == Edited({f}, [draft EXCEPT ![f] = v], slugError)

(* The inputs stop at the longest text that may be stored.                 *)
EditName(t) == t.units <= MaxSettingsName /\ update("name", t)
EditSlogan(t) == t.units <= MaxSlogan /\ update("slogan", t)
EditDescription(t) == t.units <= MaxNote /\ update("description", t)
EditSlug(s) == Edited({"slug"}, [draft EXCEPT !.slug = s], FALSE)
EditHeader == update("header", ~draft.header)

EditPhone(t) == update("phone", t)
EditInstagram(t) == ~t.padded /\ update("instagram", t)      \* blanks are dropped as they are typed
EditWifi(t) == update("wifi", t)

EditPlacement == \E mode \in {"inline", "list", "hidden"} : update("display", mode)
EditFooter == update("footer", ~draft.footer)
EditShowDate == update("showDate", ~draft.showDate)
EditShowVat == update("showVat", ~draft.showVat)
EditVatNote(t) == draft.showVat /\ t.units <= MaxNote /\ update("vatNote", t)
EditProduction == update("production", ~draft.production)
EditCurrency == update("currency", ~draft.currency)

EditTheme == update("theme", ~draft.theme)
EditFont == update("font", ~draft.font)
EditAccent(c) == update("accent", c)
EditInk(c) == update("ink", c)
EditBackgroundType == update("imageBackground", ~draft.imageBackground)
EditOverlay == draft.imageBackground /\ update("overlay", ~draft.overlay)
EditBackground(c) == ~draft.imageBackground /\ update("background", c)

(* The fields of the splash screen are disabled while it is off, but for its *)
(* logo; how a slide fades is asked of slides only.                        *)
SwitchSplash == update("splash", ~draft.splash)
EditSplashDisplay == draft.splash /\ update("splashDisplay", ~draft.splashDisplay)
EditHeadline(t) == draft.splash /\ t.units <= MaxNote /\ update("headline", t)
EditSplashColour(c) == draft.splash /\ update("splashColour", c)
EditDuration == \E n \in {300, 5000} : draft.splash /\ update("duration", n)
EditEntrance == draft.splash /\ update("entrance", ~draft.entrance)
EditExitAnimation == draft.splash /\ update("slides", ~draft.slides)
EditSlideStyle == draft.splash /\ draft.slides /\ update("slideFade", ~draft.slideFade)
EditEasing == draft.splash /\ update("easing", ~draft.easing)
EditExitDuration == draft.splash /\ update("exitDuration", ~draft.exitDuration)

EditStatus == update("active", ~draft.active)

toggleLanguage(l) ==
  LET next == IF l \in draft.languages THEN draft.languages \ {l} ELSE draft.languages \cup {l} IN
  /\ next # {}
  /\ Edited({"languages", "primary"},
            [draft EXCEPT !.languages = next, !.primary = IF @ \in next THEN @ ELSE FirstLanguage(next)],
            slugError)

ChooseDefaultLanguage(l) == l \in draft.languages /\ update("primary", l)

UnusedLinkId == 1 + LargestLinkId(draft.links)

addLink ==
  /\ Len(draft.links) < MaxLinks
  /\ update("links", Append(draft.links, [id |-> UnusedLinkId, label |-> "", url |-> ""]))

LinkAt(id) == CHOOSE i \in DOMAIN draft.links : draft.links[i].id = id

updateLinkLabel(id, text) == update("links", [draft.links EXCEPT ![LinkAt(id)].label = text])

(* Leaving the field puts https:// before an address without a scheme.      *)
completeLinkUrl(text) == IF text = "bare" THEN "good" ELSE text
updateLinkUrl(id, text) == update("links", [draft.links EXCEPT ![LinkAt(id)].url = completeLinkUrl(text)])

moveLink(id, down) ==
  LET i == LinkAt(id)
      j == IF down THEN i + 1 ELSE i - 1 IN
  /\ j \in DOMAIN draft.links
  /\ update("links", [draft.links EXCEPT ![i] = draft.links[j], ![j] = draft.links[i]])

removeLink(id) == update("links", Filtered(draft.links, {r \in ToSet(draft.links) : r.id # id}))

EditLinks ==
  \/ addLink
  \/ \E id \in {r.id : r \in ToSet(draft.links)} :
       \/ \E text \in {"", "good", "bad"} : updateLinkLabel(id, text)
       \/ \E text \in {"", "bare", "bad"} : updateLinkUrl(id, text)
       \/ \E down \in BOOLEAN : moveLink(id, down)
       \/ removeLink(id)

(* An image field that takes its time: whichever menu is open then gets it. *)
FieldShown(f) ==
  (f = "productionLogo" => draft.production) /\ (f = "backgroundImage" => draft.imageBackground)

StartUpload(f) ==
  /\ FieldShown(f) /\ <<settingsVisit, f>> \notin imageUploads /\ SettingsStep
  /\ imageUploads' = imageUploads \cup {<<settingsVisit, f>>}
  /\ UNCHANGED <<menuRecords, shownRecords, settingsMenu, settingsForm, saving, settingsVisit, settingsSaves>>

UploadEnds(v, f) ==
  /\ imageUploads' = imageUploads \ {<<v, f>>}
  /\ \/ UNCHANGED settingsForm                            \* it failed
     \/ /\ v = settingsVisit
        /\ draft' = [draft EXCEPT ![f] = ~@] /\ settingsEdited' = settingsEdited \cup {f}
        /\ UNCHANGED <<base, slugError>>
  /\ UNCHANGED <<menuRecords, shownRecords, settingsMenu, saving, settingsVisit, settingsSaves, settingsSteps>>

ClearImage(f) ==
  /\ FieldShown(f) /\ draft[f] /\ <<settingsVisit, f>> \notin imageUploads
  /\ update(f, FALSE)

-----------------------------------------------------------------------------
(* Saving.                                                                 *)

linkProblem(r) == r.label \in {"", "bad"} \/ r.url \in {"", "bad"}

LinksRefused(rows) == Len(rows) > MaxLinks \/ \E r \in ToSet(rows) : linkProblem(r)

(* The checks of the page.  Links are checked only when they are sent.     *)
SettingsProblems(d, changed) ==
  {f \in Field :
    CASE f = "name" -> d.name.units < 2 \/ d.name.units > MaxSettingsName
      [] f \in {"description", "vatNote"} -> d[f].units > MaxNote
      [] f = "slogan" -> d.slogan.units > MaxSlogan
      [] f = "slug" -> Address(d.slug) < MinAddress
      [] f = "links" -> "links" \in changed /\ LinksRefused(savableLinks(d.links))
      [] f \in Colour -> d[f] = "invalid" \/ (d[f] = "none" /\ f # "background")
      [] OTHER -> FALSE}

ValueSent(f, d) ==
  CASE f \in Text -> Trimmed(d[f])
    [] f = "slug" -> Address(d.slug)
    [] f = "links" -> savableLinks(d.links)
    [] OTHER -> d[f]

(* A save that sends the whole form.                                       *)
EveryField == Field \ {"links"}

(* Of a menu stored with the legacy mode, both halves go together; an       *)
(* address that is the stored one is not sent.                             *)
FieldsSent ==
  LET pair == IF shownRecords[settingsMenu].display = "footer" /\ changedFields \cap {"display", "footer"} # {}
              THEN {"display", "footer"} ELSE {}
  IN (changedFields \cup pair) \ (IF Address(draft.slug) = base.slug.text THEN {"slug"} ELSE {})

CanSave == hasChanges /\ ~saving

RefuseSettings ==
  LET problems == SettingsProblems(draft, changedFields) IN
  /\ CanSave /\ problems # {}
  /\ slugError' = ("slug" \in problems /\ "name" \notin problems)
  /\ UNCHANGED <<menuRecords, shownRecords, settingsMenu, base, draft, saving, settingsVisit,
                 settingsSaves, imageUploads, settingsEdited, settingsSteps>>

NothingLeftToSend ==
  /\ CanSave /\ SettingsProblems(draft, changedFields) = {} /\ FieldsSent = {}
  /\ draft' = [draft EXCEPT !.slug.dash = FALSE] /\ slugError' = FALSE
  /\ UNCHANGED <<menuRecords, shownRecords, settingsMenu, base, saving, settingsVisit,
                 settingsSaves, imageUploads, settingsEdited, settingsSteps>>

SaveSettings ==
  /\ CanSave /\ SettingsProblems(draft, changedFields) = {} /\ FieldsSent # {}
  /\ saving' = TRUE /\ slugError' = FALSE
  /\ settingsSaves' = Append(settingsSaves,
       [menu |-> settingsMenu, visit |-> settingsVisit, body |-> [f \in FieldsSent |-> ValueSent(f, draft)],
        edited |-> settingsEdited, placement |-> contactPlacement(draft),
        before |-> contactPlacement(shownRecords[settingsMenu]), overtaken |-> FALSE,
        phase |-> "sent", answer |-> menuRecords[settingsMenu]])
  /\ UNCHANGED <<menuRecords, shownRecords, settingsMenu, base, draft, settingsVisit,
                 imageUploads, settingsEdited, settingsSteps>>

-----------------------------------------------------------------------------
(* The server.                                                             *)

SettingsRefusedFor(body) ==
  {f \in DOMAIN body :
    CASE f = "name" -> body.name.runes < 2 \/ body.name.runes > MaxSettingsName
      [] f \in {"description", "vatNote", "headline"} -> body[f].runes > MaxNote
      [] f = "slogan" -> body.slogan.runes > MaxSlogan
      [] f = "slug" -> body.slug < MinAddress
      [] f = "links" -> LinksRefused(body.links)
      [] f \in Colour -> body[f] = "invalid" \/ (body[f] = "none" /\ f # "background")
      [] f = "languages" -> body.languages = {}
      [] OTHER -> FALSE}

(* A taken address gets a number; 50 and more stand for the numbered ones.  *)
Taken(m, slug) == \E n \in SettingsMenu \ {m} : menuRecords[n].slug = slug
Numbered(m, slug) == IF Taken(m, slug) THEN 50 + slug ELSE slug

Written(m, body) ==
  [f \in DOMAIN menuRecords[m] |->
    IF f \notin DOMAIN body THEN menuRecords[m][f]
    ELSE IF f = "slug" THEN Numbered(m, body.slug) ELSE body[f]]

(* overtaken: the placement was not the one the page showed any more.      *)
SaveEnds(i, phase, answer) ==
  settingsSaves' = [settingsSaves EXCEPT ![i].phase = phase, ![i].answer = answer,
    ![i].overtaken = contactPlacement(menuRecords[settingsSaves[i].menu]) # settingsSaves[i].before]

SettingsExecute(i) ==
  LET s == settingsSaves[i] IN
  /\ s.phase = "sent" /\ SettingsRefusedFor(s.body) = {}
  /\ menuRecords' = [menuRecords EXCEPT ![s.menu] = Written(s.menu, s.body)]
  /\ \E phase \in {"done", "failed"} : SaveEnds(i, phase, Written(s.menu, s.body))
  /\ UNCHANGED <<shownRecords, settingsMenu, settingsForm, saving, settingsVisit, imageUploads, settingsSteps>>

(* 409: the address was taken between the check and the write.              *)
SettingsRefuse(i) ==
  LET s == settingsSaves[i] IN
  /\ s.phase = "sent"
  /\ \/ "slug" \in DOMAIN s.body /\ Taken(s.menu, s.body.slug) /\ SaveEnds(i, "conflict", s.answer)
     \/ SaveEnds(i, "failed", s.answer)
  /\ UNCHANGED <<menuRecords, shownRecords, settingsMenu, settingsForm, saving, settingsVisit, imageUploads, settingsSteps>>

(* The answer lands in the list of menus, and in the page if it is the one  *)
(* that sent it, whichever menu it is on by then.                          *)
SettingsLand(i) ==
  LET s == settingsSaves[i]
      mine == s.visit = settingsVisit IN
  /\ s.phase # "sent"
  /\ settingsSaves' = RemoveAt(settingsSaves, i)
  /\ saving' = (saving /\ ~mine)
  /\ IF s.phase = "done"
     THEN Shows(s.menu, [s.answer EXCEPT !.count = shownRecords[s.menu].count], mine)
     ELSE /\ slugError' = (slugError \/ (mine /\ s.phase = "conflict"))
          /\ UNCHANGED <<shownRecords, base, draft, settingsEdited>>
  /\ UNCHANGED <<menuRecords, settingsMenu, settingsVisit, imageUploads, settingsSteps>>

-----------------------------------------------------------------------------
SettingsInit ==
  /\ menuRecords = RecordAtStart /\ shownRecords = RecordAtStart
  /\ settingsMenu = FirstSettings
  /\ base = buildDraft(RecordAtStart[FirstSettings]) /\ draft = base
  /\ saving = FALSE /\ slugError = FALSE /\ settingsVisit = 0
  /\ settingsSaves = <<>> /\ imageUploads = {} /\ settingsEdited = {} /\ settingsSteps = 0

EditSettings ==
  \/ \E t \in NameTyped : EditName(t)
  \/ \E t \in NoteTyped : EditSlogan(t) \/ EditDescription(t) \/ EditVatNote(t) \/ EditHeadline(t)
  \/ \E s \in SlugTyped : EditSlug(s)
  \/ \E t \in PhoneTyped : EditPhone(t) \/ EditInstagram(t) \/ EditWifi(t)
  \/ \E c \in {"none", "other", "invalid"} : EditAccent(c) \/ EditInk(c) \/ EditBackground(c) \/ EditSplashColour(c)
  \/ EditHeader \/ EditPlacement \/ EditFooter \/ EditShowDate \/ EditShowVat \/ EditProduction
  \/ EditCurrency \/ EditTheme \/ EditFont \/ EditBackgroundType \/ EditOverlay
  \/ SwitchSplash \/ EditSplashDisplay \/ EditDuration \/ EditEntrance \/ EditExitAnimation
  \/ EditSlideStyle \/ EditEasing \/ EditExitDuration \/ EditStatus
  \/ \E l \in OfferedLanguage : toggleLanguage(l) \/ ChooseDefaultLanguage(l)
  \/ \E f \in Image : StartUpload(f) \/ ClearImage(f)
  \/ EditLinks

SettingsNext ==
  \/ EditSettings \/ VisitSettings
  \/ \E m \in SettingsMenu : SwitchSettings(m) \/ RefreshSettings(m) \/ CountChanges(m) \/ OtherTabWrites(m)
  \/ \E u \in imageUploads : UploadEnds(u[1], u[2])
  \/ RefuseSettings \/ NothingLeftToSend \/ SaveSettings
  \/ \E i \in DOMAIN settingsSaves : SettingsExecute(i) \/ SettingsRefuse(i) \/ SettingsLand(i)

SettingsSpec == SettingsInit /\ [][SettingsNext]_settingsVars

-----------------------------------------------------------------------------
(* The draft can be worked on: its default language is one of its languages, *)
(* and no two link rows share the id they are found, moved and deleted by,  *)
(* whatever ids the stored links came with.                                *)
SettingsTypeOK ==
  /\ DOMAIN draft = Field /\ draft.languages \subseteq OfferedLanguage
  /\ draft.primary \in draft.languages
  /\ Len(draft.links) <= MaxLinks
  /\ \A i, j \in DOMAIN draft.links : draft.links[i].id = draft.links[j].id => i = j
  /\ saving => \E i \in DOMAIN settingsSaves : settingsSaves[i].visit = settingsVisit

(* What was typed stays: a refresh that brings another price date, a count   *)
(* set by the editor or an answer of another menu changes no draft.  Only    *)
(* the owner's own steps, a save of this page, or a setting of this menu     *)
(* that really changed do.                                                 *)
DraftSurvivesRefresh ==
  [][draft' # draft =>
       \/ settingsSteps' # settingsSteps \/ imageUploads' # imageUploads \/ (saving /\ ~saving')
       \/ settingsMenu' # settingsMenu
       \/ \E f \in DOMAIN shownRecords[settingsMenu] \ {"priceDate", "count"} :
            shownRecords'[settingsMenu][f] # shownRecords[settingsMenu][f]
       \/ draft' = [draft EXCEPT !.slug.dash = FALSE]]_settingsVars

(* A save carries the fields the owner edited, the other half of a legacy   *)
(* placement at most, so it undoes nothing another tab stored; and the server *)
(* takes it, but for a name of few runes and many UTF-16 units.            *)
SavesWhatWasEdited ==
  \A i \in DOMAIN settingsSaves : LET s == settingsSaves[i] IN
    /\ DOMAIN s.body \subseteq s.edited
         \cup (IF s.edited \cap {"display", "footer"} # {} THEN {"display", "footer"} ELSE {})
    /\ \A f \in SettingsRefusedFor(s.body) : f = "name" /\ s.body.name.runes < s.body.name.units

(* Where the contact details stand after a save is what the page showed when *)
(* it was sent, of a menu stored with the legacy mode as well, unless       *)
(* another save of the placement came first.                               *)
PlacementSavedAsShown ==
  \A i \in DOMAIN settingsSaves : LET s == settingsSaves[i] IN
    s.phase = "done" /\ ~s.overtaken /\ DOMAIN s.body \cap {"display", "footer"} # {} =>
      contactPlacement(s.answer) = s.placement

(* What is stored by a save is what the owner saw and changed, and no more.  *)
SavedAsEdited == SavesWhatWasEdited /\ PlacementSavedAsShown
=============================================================================
