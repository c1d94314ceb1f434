----------------------------- MODULE VisitorMenu ----------------------------
(* The page behind a QR code (pages/menu/CustomerMenu.jsx): which menu the   *)
(* address names, in which language it is asked for and drawn                *)
(* (lib/language.js), the opening screen in front of it (SplashScreen), and  *)
(* the visit it reports (lib/analytics.js).                                  *)
(*                                                                         *)
(* The page is asked for again whenever the address or the language changes, *)
(* and the menu it has stays on screen until an answer lands: a link of the  *)
(* tenant's directory, the back button and the repair of a bare address are  *)
(* the same page with another address.  One tenant, one browser; an answer   *)
(* is what the server holds when it lands.  Left out: the older servers that *)
(* do not say which language they answered in (CustomerMenu.jsx:505).        *)
EXTENDS Naturals, FiniteSets, Sequences

CONSTANTS
  MenuSlug, NoSlug,
  InterfaceLanguage, NoLanguage,
  Offered,             \* the languages of each menu
  DefaultOf,           \* and its default one
  Preferred,           \* the languages of the browser, most preferred first
  NothingDrawn, NoVisitor,
  MaxPageLoads,
  MaxVisitorActs       \* bound: links, languages, retries, lost answers, acts of the owner

ASSUME VisitorConstants ==
  /\ \A m \in MenuSlug : Offered[m] \subseteq InterfaceLanguage /\ DefaultOf[m] \in Offered[m]
  /\ NoSlug \notin MenuSlug
  /\ NoVisitor \notin Nat                    \* ids of visitors are numbers here
  /\ MaxPageLoads \in Nat /\ MaxVisitorActs \in Nat

VARIABLES
  published,           \* the menus the owner shows
  browser,             \* what outlives a page: storage, cookies, how it is embedded
  address,             \* the slug and the ?lang= of the address
  visit,               \* the state of the page
  fetches,             \* the requests under way; `live` until a newer one replaces it
  viewEvents,          \* the views reported
  visitorActs

visitorVars == <<published, browser, address, visit, fetches, viewEvents, visitorActs>>

VisitorAct == visitorActs < MaxVisitorActs /\ visitorActs' = visitorActs + 1

-----------------------------------------------------------------------------
(* The language.                                                           *)

matchPreferredLanguage(available) ==
  LET matches == SelectSeq(Preferred, LAMBDA l : l \in available)
  IN IF matches = <<>> THEN NoLanguage ELSE matches[1]

(* What the server answers in: the language asked for when the menu offers  *)
(* it, else one of the browser's, else the menu's own.                     *)
Negotiated(m, asked) ==
  IF asked \in Offered[m] THEN asked
  ELSE IF matchPreferredLanguage(Offered[m]) # NoLanguage THEN matchPreferredLanguage(Offered[m])
  ELSE DefaultOf[m]

addressLanguage(a) == IF a.lang \in InterfaceLanguage THEN a.lang ELSE NoLanguage

FirstNamed(first, second) == IF first # NoLanguage THEN first ELSE second

(* Remembered when the page was opened, and never on an embedded surface.   *)
readRememberedLanguage(b) == IF b.embedded \/ ~b.storage THEN NoLanguage ELSE b.language
rememberLanguage(b, l) == IF b.embedded \/ ~b.storage THEN b ELSE [b EXCEPT !.language = l]

choice(v, a) == FirstNamed(v.selected, FirstNamed(addressLanguage(a), v.remembered))
requestLanguage(v, a) == choice(v, a)

Resolved(v) == v.menu # NothingDrawn /\ v.menu.slug # NoSlug

resolveMenuLanguage(v, a) ==
  LET pool == IF Resolved(v) THEN Offered[v.menu.slug] ELSE InterfaceLanguage
      served == IF v.menu = NothingDrawn THEN NoLanguage ELSE v.menu.lang
  IN CASE choice(v, a) \in pool -> choice(v, a)
       [] choice(v, a) \notin pool /\ served \in pool -> served
       [] OTHER -> IF matchPreferredLanguage(pool) # NoLanguage THEN matchPreferredLanguage(pool)
                   ELSE IF Resolved(v) THEN DefaultOf[v.menu.slug] ELSE "tr"

-----------------------------------------------------------------------------
(* Asking for the menu.                                                    *)

(* A request besides the ones under way, which are still heard.             *)
AskedBesides(v, a) == fetches \cup {[slug |-> a.slug, lang |-> requestLanguage(v, a), live |-> TRUE]}

(* A request that is replaced is not heard any more.                       *)
Asked(v, a) ==
  {[f EXCEPT !.live = FALSE] : f \in fetches} \cup
    {[slug |-> a.slug, lang |-> requestLanguage(v, a), live |-> TRUE]}

Loading(v) == [v EXCEPT !.loading = TRUE, !.error = "none"]

SamePlace(v, a) == a.slug = address.slug /\ requestLanguage(v, a) = requestLanguage(visit, address)

(* The effect that loads the menu runs when what it asks for has changed.   *)
Render(v, a) ==
  /\ address' = a
  /\ IF SamePlace(v, a)
     THEN visit' = v /\ UNCHANGED fetches
     ELSE visit' = Loading(v) /\ fetches' = Asked(v, a)

splashClosed == [decided |-> FALSE, open |-> FALSE, held |-> FALSE, exiting |-> FALSE]

NewVisit(b) ==
  [selected |-> NoLanguage, remembered |-> readRememberedLanguage(b), menu |-> NothingDrawn, loading |-> TRUE,
   error |-> "none", images |-> FALSE, splash |-> splashClosed, reported |-> {}, visitor |-> NoVisitor]

OpenPage(a) ==
  /\ address' = a
  /\ visit' = NewVisit(browser)
  /\ fetches' = {[slug |-> a.slug, lang |-> requestLanguage(visit', a), live |-> TRUE]}

Arrive ==
  /\ browser.loads < MaxPageLoads
  /\ \E slug \in MenuSlug \cup {NoSlug}, lang \in InterfaceLanguage \cup {NoLanguage} :
       OpenPage([slug |-> slug, lang |-> lang])
  /\ browser' = [browser EXCEPT !.loads = @ + 1, !.linked = FALSE]
  /\ UNCHANGED <<published, viewEvents, visitorActs>>

-----------------------------------------------------------------------------
(* What the visitor does.                                                  *)

IsDirectory == visit.menu # NothingDrawn /\ visit.menu.slug = NoSlug

(* A card of the directory: the query string travels along.                *)
MenuDirectory(slug) ==
  /\ IsDirectory /\ slug \in visit.menu.menus /\ slug # address.slug
  /\ VisitorAct
  /\ Render(visit, [address EXCEPT !.slug = slug])
  /\ browser' = [browser EXCEPT !.linked = TRUE]
  /\ UNCHANGED <<published, viewEvents>>

GoBack ==
  /\ browser.linked /\ address.slug # NoSlug
  /\ VisitorAct
  /\ Render(visit, [address EXCEPT !.slug = NoSlug])
  /\ browser' = [browser EXCEPT !.linked = FALSE]
  /\ UNCHANGED <<published, viewEvents>>

(* Remembered even when it is on screen already; an address that names a    *)
(* language is rewritten in place.                                         *)
chooseLanguage(l) ==
  /\ Resolved(visit) /\ ~visit.splash.open
  /\ Cardinality(Offered[visit.menu.slug]) > 1 /\ l \in Offered[visit.menu.slug]
  /\ VisitorAct
  /\ browser' = rememberLanguage(browser, l)
  /\ LET a == IF ~browser.embedded /\ address.lang # NoLanguage THEN [address EXCEPT !.lang = l] ELSE address
         v == IF l # resolveMenuLanguage(visit, address) THEN [visit EXCEPT !.selected = l] ELSE visit
     IN Render(v, a)
  /\ UNCHANGED <<published, viewEvents>>

(* Offered when there is nothing to show and the menu was not "not found".  *)
MenuUnavailable == visit.menu = NothingDrawn /\ ~visit.loading

Retry ==
  /\ MenuUnavailable /\ visit.error = "failed"
  /\ VisitorAct
  /\ visit' = Loading(visit) /\ fetches' = Asked(visit, address)
  /\ UNCHANGED <<published, browser, address, viewEvents>>

-----------------------------------------------------------------------------
(* The opening screen.                                                     *)

(* A screen that does not ask whether it was shown.                        *)
OpensAlways(m) == ~browser.embedded /\ m.slug # NoSlug

(* Asked while the payload is first drawn, so the menu is never painted     *)
(* bare; a storage that refuses is a screen on every load.                 *)
shouldOpenSplash(m) ==
  ~browser.embedded /\ m.slug # NoSlug /\ (~browser.storage \/ m.slug \notin browser.splashSeen)

Decided(v, m) ==
  IF v.splash.decided THEN v.splash
  ELSE [splashClosed EXCEPT !.decided = TRUE, !.open = shouldOpenSplash(m)]

SplashShown(v) == v.splash.open /\ Resolved(v)

(* The exit waits for the hold and for the images, whichever is later.      *)
Leaving(v) == [v EXCEPT !.splash.exiting = @ \/ (v.splash.held /\ v.images)]

HoldElapsed ==
  /\ SplashShown(visit) /\ ~visit.splash.held /\ ~visit.splash.exiting
  /\ visit' = Leaving([visit EXCEPT !.splash.held = TRUE])
  /\ UNCHANGED <<published, browser, address, fetches, viewEvents, visitorActs>>

(* Loaded, failed, or the cap ran out.                                     *)
useImagesReady ==
  /\ Resolved(visit) /\ ~visit.images
  /\ visit' = Leaving([visit EXCEPT !.images = TRUE])
  /\ UNCHANGED <<published, browser, address, fetches, viewEvents, visitorActs>>

skip ==
  /\ SplashShown(visit) /\ ~visit.splash.exiting
  /\ visit' = [visit EXCEPT !.splash.exiting = TRUE]
  /\ UNCHANGED <<published, browser, address, fetches, viewEvents, visitorActs>>

ExitEnds ==
  /\ SplashShown(visit) /\ visit.splash.exiting
  /\ visit' = [visit EXCEPT !.splash = [splashClosed EXCEPT !.decided = TRUE]]
  /\ UNCHANGED <<published, browser, address, fetches, viewEvents, visitorActs>>

-----------------------------------------------------------------------------
(* The answer, and the effects of the render that draws it.                 *)

Payload(f) ==
  CASE f.slug \in published ->
         [slug |-> f.slug, lang |-> Negotiated(f.slug, f.lang), menus |-> published, asked |-> f]
    [] f.slug = NoSlug /\ Cardinality(published) = 1 ->
         LET m == CHOOSE p \in published : TRUE
         IN [slug |-> m, lang |-> Negotiated(m, f.lang), menus |-> published, asked |-> f]
    [] OTHER -> [slug |-> NoSlug, lang |-> NoLanguage, menus |-> published, asked |-> f]

(* The screen's own state goes when the directory takes its place.          *)
Drawn(v, m) ==
  [v EXCEPT !.menu = m, !.loading = FALSE, !.error = "none",
            !.images = @ /\ m.slug # NoSlug,
            !.splash = IF m.slug = NoSlug THEN [Decided(v, m) EXCEPT !.held = FALSE, !.exiting = FALSE] ELSE Decided(v, m)]

(* The id of the browser, else of this page; a new one is a number.         *)
getVisitorId ==
  IF browser.storage /\ browser.visitor # NoVisitor THEN browser.visitor
  ELSE IF visit.visitor # NoVisitor THEN visit.visitor ELSE Cardinality(viewEvents) + 1

(* A view reported with every payload.                                     *)
ReportsEach(m) == ~browser.embedded /\ m.slug # NoSlug

(* Once per menu and page load; nothing from a browser that opted out, which *)
(* is not even given an id, and nothing from an embedded surface.           *)
Reports(m) == ~browser.embedded /\ m.slug # NoSlug /\ m.slug \notin visit.reported
trackMenuEvent(m) == Reports(m) /\ ~browser.optout

(* A bare address with one menu becomes that menu's own.                    *)
RealAddress(m) ==
  IF ~browser.embedded /\ address.slug = NoSlug /\ m.slug # NoSlug /\ Cardinality(m.menus) = 1
  THEN [address EXCEPT !.slug = m.slug] ELSE address

MenuLands(f) ==
  LET m == Payload(f)
      v == [Drawn(visit, m) EXCEPT !.reported = IF Reports(m) THEN @ \cup {m.slug} ELSE @,
                                   !.visitor = IF trackMenuEvent(m) THEN getVisitorId ELSE @]
      a == RealAddress(m)
  IN /\ f.live /\ (f.slug = NoSlug \/ f.slug \in published)
     /\ browser' = [browser EXCEPT
          !.splashSeen = IF v.splash.open /\ browser.storage THEN @ \cup {m.slug} ELSE @,
          !.visitor = IF trackMenuEvent(m) /\ browser.storage THEN getVisitorId ELSE @,
          !.openings = IF v.splash.open /\ ~visit.splash.open THEN Append(@, <<browser.loads, m.slug>>) ELSE @]
     /\ viewEvents' = IF trackMenuEvent(m)
                      THEN viewEvents \cup {[load |-> browser.loads, slug |-> m.slug, visitor |-> getVisitorId,
                                             number |-> Cardinality(viewEvents) + 1]}
                      ELSE viewEvents
     /\ address' = a
     /\ IF a = address
        THEN visit' = v /\ fetches' = fetches \ {f}
        ELSE visit' = Loading(v) /\ fetches' = (fetches \ {f}) \cup {[slug |-> a.slug, lang |-> f.lang, live |-> TRUE]}
     /\ UNCHANGED <<published, visitorActs>>

Failed(v, reason) == [v EXCEPT !.loading = FALSE, !.error = reason]

NotFound(f) ==
  /\ f.live /\ f.slug \notin published \cup {NoSlug}
  /\ visit' = Failed(visit, "notFound") /\ fetches' = fetches \ {f}
  /\ UNCHANGED <<published, browser, address, viewEvents, visitorActs>>

FetchFails(f) ==
  /\ f.live /\ VisitorAct
  /\ visit' = Failed(visit, "failed") /\ fetches' = fetches \ {f}
  /\ UNCHANGED <<published, browser, address, viewEvents>>

Unheard(f) ==
  /\ ~f.live
  /\ fetches' = fetches \ {f}
  /\ UNCHANGED <<published, browser, address, visit, viewEvents, visitorActs>>

OwnerPublishes ==
  /\ VisitorAct
  /\ \E m \in MenuSlug : published' = IF m \in published THEN published \ {m} ELSE published \cup {m}
  /\ UNCHANGED <<browser, address, visit, fetches, viewEvents>>

-----------------------------------------------------------------------------
VisitorInit ==
  /\ published \in SUBSET MenuSlug
  /\ browser \in [embedded : BOOLEAN, storage : BOOLEAN, optout : BOOLEAN, language : {NoLanguage},
                  visitor : {NoVisitor}, splashSeen : {{}}, loads : {1}, linked : {FALSE}, openings : {<<>>}]
  /\ address \in [slug : MenuSlug \cup {NoSlug}, lang : {NoLanguage}]
  /\ visit = NewVisit(browser)
  /\ fetches = {[slug |-> address.slug, lang |-> NoLanguage, live |-> TRUE]}
  /\ viewEvents = {} /\ visitorActs = 0

VisitorNext ==
  \/ Arrive \/ GoBack \/ Retry \/ OwnerPublishes
  \/ \E m \in MenuSlug : MenuDirectory(m)
  \/ \E l \in InterfaceLanguage : chooseLanguage(l)
  \/ HoldElapsed \/ useImagesReady \/ skip \/ ExitEnds
  \/ \E f \in fetches : MenuLands(f) \/ NotFound(f) \/ FetchFails(f) \/ Unheard(f)

VisitorSpec == VisitorInit /\ [][VisitorNext]_visitorVars

-----------------------------------------------------------------------------
(* Properties.                                                             *)

Settled == ~visit.loading /\ \A f \in fetches : ~f.live

VisitorTypeOK ==
  /\ published \subseteq MenuSlug
  /\ address.slug \in MenuSlug \cup {NoSlug}
  /\ visit.error \in {"none", "failed", "notFound"}
  /\ visit.loading <=> (\E f \in fetches : f.live)
  /\ Cardinality({f \in fetches : f.live}) <= 1
  /\ visitorActs \in 0..MaxVisitorActs

(* Once nothing is under way and the last answer was a menu, what is drawn   *)
(* is the answer to the address and the language on screen, in whatever     *)
(* order answers came (CustomerMenu.jsx:470).                              *)
DrawnIsAsked ==
  Settled /\ visit.error = "none" /\ visit.menu # NothingDrawn =>
    visit.menu.asked.slug = address.slug /\ visit.menu.asked.lang = requestLanguage(visit, address)

(* A page load reports each menu it drew once, and all under one visitor; a  *)
(* browser that keeps its storage is one visitor for good, and one that      *)
(* opted out, or an embedded surface, reports nothing.                      *)
ViewsCountedOnce ==
  /\ \A d, e \in viewEvents :
       /\ d.load = e.load /\ d.slug = e.slug => d = e
       /\ d.load = e.load \/ browser.storage => d.visitor = e.visitor
  /\ viewEvents # {} => ~browser.embedded /\ ~browser.optout
  /\ Resolved(visit) /\ ~browser.embedded => visit.menu.slug \in visit.reported

(* The opening screen of a menu is shown once to a browser session, and once *)
(* to a page load where storage refuses, whatever is fetched again.         *)
SplashShownOnce ==
  \A i, j \in DOMAIN browser.openings :
    i # j /\ browser.openings[i][2] = browser.openings[j][2] =>
      ~browser.storage /\ browser.openings[i][1] # browser.openings[j][1]

(* "The client then settles on one language for the whole screen - the texts *)
(* AND the interface around them" (lib/language.js:12).                     *)
OneLanguage == Settled /\ Resolved(visit) => visit.menu.lang = resolveMenuLanguage(visit, address)
=============================================================================
