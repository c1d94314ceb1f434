# Karecik: a verification project

Karecik is a multi-tenant QR-menu service: a Go API (Fiber, pgx, PostgreSQL) in
`src/backend` and a React single-page application in `src/frontend`. A business
owns menus, a menu holds categories, a category holds products; the public menu
reports views, which the dashboard's analytics show. This directory holds TLA+
models of the parts of it that are hard to test, the TLC configurations that
check them on small instances, and proofs, checked by TLAPS, of what holds for
every instance.

All definitions are translated from the source. `PROJECT.json` maps each of them
to the lines it stands for.

## 1. Inventory

### Backend

| component | state | operations | hard behaviour |
|---|---|---|---|
| session store, `internal/session/store.go` | `byHash`, `byUser`, a stop channel | Create, Lookup, Delete, DeleteUser, Sweep, StartJanitor, Stop | two maps that must agree; a sweep in two phases with the lock let go in between; the cap per user |
| auth handlers, `handlers/auth.go`, `middleware/auth.go` | none of their own: users row, session store | Register, Login, Logout, Me, ChangePassword | a login verified with a password that is changed before its session starts |
| password reset, `handlers/passwordreset.go`, `repository/passwordreset.go`, `cmd/resetpw` | `password_resets` rows | forgot, reset, the operator's command, sweep | check-then-insert in separate statements; a mail that fails; a link used twice |
| structural writers, `repository/locks.go`, `menus.go`, `category.go`, `product.go` | `menus`, `categories`, `products` rows; row and advisory locks | create, move, edit, reorder, delete; bulk prices | deadlocks, cascades over unlocked rows, parents that move or vanish |
| retry, `repository/retry.go` | attempt counter | RetryOnConflict | what is re-run, and how often |
| slugs and positions, `repository/menus.go`, `utils/slug.go` | `menus.slug`, `position` | CreateMenu, UpdateMenu | unique violations inside a transaction, a bounded retry |
| price date, `migrations/010` | `menus.price_updated_at` | statement trigger | the start of a transaction is not its commit |
| audit log, `internal/audit`, `repository/audit.go`, `handlers/audit.go` | `audit_logs` rows | hooks around every write, list | a before image that is another writer's |
| event gate, `internal/eventgate` | remembered keys, counts per business, the day | Claim, Release, Admit, Return, sweep | a count read outside the lock, midnight, restarts |
| analytics, `handlers/analytics.go`, `repository/analytics.go` | `menu_events` rows | TrackEvent, summaries, event list, retention purge | intake under the gate and the exclusions |
| IP exclusions, `internal/ipexclude`, `repository/exclusions.go`, `handlers/exclusions.go` | `analytics_excluded_ips` rows; a cached list per business with a generation | Excludes, Invalidate, add, remove, list | a load that races an edit; two adds that race |
| database and migrations, `internal/database` | `schema_migrations` | Connect, Migrate | two processes starting together |
| background jobs, `cmd/api/main.go` | timers | session janitor, reset sweep, retention, shutdown | they run beside every request |
| router, middleware, `internal/router`, `internal/middleware` | Fiber's limiter (library) | routing, tenant lookup, rate limits | nothing shared beyond the limiter |
| public menu, business settings | reads; one-row updates | `handlers/public.go`, `handlers/business.go` | none |
| `clientip`, `config`, `svgsafe`, `mailer`, `models`, `utils`, `upload` | none | pure functions, and I/O | boundaries of arithmetic and parsing |

### Frontend

| component | state | operations | hard behaviour |
|---|---|---|---|
| menu context, `lib/menuContext.jsx` | menus, selection, spinner, error; refs with request and sequence numbers | load, refreshMenu, saveActiveMenu, createMenu, deleteMenu, select | answers land in any order; other tabs write too |
| client session, `lib/api.js`, `lib/session.js`, `lib/auth.jsx`, the sign-in, sign-up and reset pages | the remembered account, the cookie, the account each tab draws | register, login, logout, forgot, reset, change of password, a request answered 401 | a late answer of an older session; two tabs over one cookie and one storage |
| menu editor, `pages/dashboard/MenuEditor.jsx`, `lib/sortableRows.js` | categories and products of the active menu | create, edit, switch on and off, reprice, reorder, delete | optimistic changes rolled back over newer state; reloads without a number; lost answers |
| product and category dialogs, `ProductModal.jsx`, `CategoryModal.jsx`, `ImageUploader.jsx` | a form per dialog, uploads | fill, edit, check, send | a form refilled under the owner; an upload that outlives its dialog; limits kept on both sides |
| menu bar and its dialogs, `ActiveMenuBar.jsx`, `MenuModal.jsx`, `ui/Modal.jsx` | what is open, the body's scroll lock | switch, create, confirm, delete | dialogs destroyed in an order that restores the wrong lock |
| bulk price dialog, `BulkPriceModal.jsx` | settings, preview | preview, apply | settings and prices that move between preview and apply |
| live preview, `LivePreview.jsx` | the payload on the phone | refetch, cancel, show | an answer of another menu; a change nobody told it of |
| menu settings, `MenuSettings.jsx`, `lib/contact.js`, `lib/footerSettings.js`, `lib/slugify.js` | a draft of the active menu | every control, check, save | refreshes and switches under the draft; partial saves |
| customer menu, `CustomerMenu.jsx`, `MenuDirectory.jsx`, `SplashScreen.jsx`, `lib/language.js`, `lib/analytics.js` | address, payload, language, opening screen, visitor id | arrive, choose a menu, choose a language, go back, retry | an answer to an earlier question; a view counted twice |
| menu screen and product sheet, `MenuContent.jsx`, `ProductDetailModal.jsx` | open category, search, scroll offset, answers, drag | open, close, search, choose, drag | one component handed another product; a remembered offset |
| analytics and audit pages | page, filter, request counters | load, page, exclude an address | answers out of order |
| QR hub, landing page, small UI parts | rendering | | none that outlives a component |

### How they interact

- Handlers call repository functions; each write is one PostgreSQL transaction
  under READ COMMITTED, most of them inside `RetryOnConflict`. Writers meet only
  in the database: row locks, advisory locks, foreign keys, triggers.
- Login, password change and reset call the session store, which is in memory and
  is emptied by a restart.
- `TrackEvent` asks, in this order, the exclusion set, `gate.Claim`, `gate.Admit` (which counts
  rows in the database with no lock held) and then inserts; what it took is given
  back when the insert fails.
- An exclusion edit commits first and invalidates the cached list afterwards.
- The dashboard's pages share the menu context; every call is a promise that
  resolves later, with whatever happened in between.
- The editor keeps its own copy of the categories and products of the active menu
  and tells the live preview, by a counter, when to ask the server again.
- Every tab of a browser shares one cookie and one `localStorage`, and none hears of
  another tab's changes.
- The customer page fetches one payload per address and language and hands it to
  the menu screen, which hands one product at a time to the sheet.

## 2. Modules

### `SessionStore`: `internal/session/store.go`

`byHash` and `byUser` are the code's maps, `byUser[u]` a set of hashes that is
absent when empty. Each mutex section is one action: `Create` (with the eviction
of the oldest, `Evictions`), `Delete`, `DeleteUser` with its exception, and the
sweep in its two sections, `SweepFind` under the read lock and `SweepDelete` under
the write lock, one batch at a time, with everything else in between. `Create`
reads the clock before the lock, hence its `lag`. Clock, stop channel and janitor
are explicit. `Lookup` changes nothing; what it answers is `Expired`.

### `MenuWriters`: `repository/locks.go` and its callers

A writer is the list of its statements (`DeleteMenuSteps` and so on); a statement
takes its snapshot (`BeginLocking` computes what it goes after from the committed
rows), then locks one thing at a time (`Acquire`), rechecking each row as
PostgreSQL does after a wait; writes become visible and locks are released at
`Commit`. The lock modes and `Conflicts` are the part of PostgreSQL's table these
statements use. `WriteIntoMenu` and `WriteIntoCategory` are the functions of
those names, with the reread and the re-run of the latter. `OnACycle` is the
deadlock detector, `DeadlockAborts` the abort with `RetryOnConflict` behind it.

Left out: values, positions, slugs; the fairness of PostgreSQL's lock queue (a
waiter may be overtaken, which only adds behaviours); the audit hook's locks
(it takes the lock the write itself takes, one statement earlier). A product that
changed its category since the snapshot drops out of the list to lock, as the
recheck of its WHERE clause does. `touchMenu` reads a product's menu once, when
its statement begins. Every edit that reprices, and every
settings save that renames, takes the stronger lock; both are choices of the
instance.

### `EventGate`, `DailyAllowance`: `internal/eventgate` with `TrackEvent`

A request walks the steps of `TrackEvent`: `Claim`, `ReadClock` (the day is read
before the lock), `Look` (first locked section of `Admit`), `Count` (the database
count, no lock held), `Install` and `Admit` (second section), `Insert`, and on failure
`Release` and `Return`. `Rolled` is `rollDay`. `Restart` forgets everything in memory; a
request in flight then has stored its row or never will. `turnedBack` is history: the days
a request of an earlier day, late at the lock, rolled the counts back over (`RolledBack`). So is `late`: whether a tick has
found a request on its way that outlived the window of its claim or the day it began on
(`Outlived`). `DailyAllowance` is what
the gate promises: per business at most `Cap` places are used, an event is stored
only in a place it holds. `EventGate!KeepsAllowance` is the refinement, with places
used mapped to the rows of the day plus the requests admitted, for the steps before a request is late.

### `MenuContext`: `lib/menuContext.jsx` over `lib/api.js`

The server keeps a version for every menu. A call is sent (`load`, `refreshMenu`,
`saveActiveMenu`, `createMenu`, `deleteMenu`), executed at the server (`Answer`,
`Refuse`) and landed (`LoadLands`, ...) in three separate actions, so answers
overtake each other. `request`, `sequence`, `latestMenu`, `appliedLoad` are the code's refs.
Other pages and tabs write (`OtherWrite`, `OtherDelete`). `seen[m]` is history: the
newest version of `m` that an answer taken up had seen. So is `overtaken`: the menus another
write reached between a save of theirs and the landing of its answer. A menu's `category_count` is not kept
here; logging out unmounts the provider and ends the behaviour.

### `Accounts`: login, password change, forgot, reset, `cmd/resetpw`

One account. Each database statement and each call of the session store is an
action; a request of any kind walks its steps. The hash of a password is the
request that set it. Forgot requests come in any number at once. The handler looks for a recent row, counts and inserts in
separate statements, so requests that arrive together find nothing of each other and all mail;
`known` is history, the links a request found issued when it looked, and `CooldownKept` and
`ActiveLinksBounded` are claims about a link and those its request knew of. Registration is not modelled.

### `Exclusions`: `internal/ipexclude` and the list's handlers

`cached` and `generation` are the set's entry for a business and its counter. A
visit looks up (`LookUp`), on a miss loads the list from the database and then
stores what it loaded if the generation is unmoved (`Load`, `Keep`). An add takes
the advisory lock on the business, checks the limit and the covering entries,
commits, and only then invalidates. A prefix is the set of addresses it covers.
`EditOutside` is an edit in psql, `EditElsewhere` an edit of another business, whose
`Invalidate` moves the same generation. Time passes at any step of any of them: the code reads the list outside
its lock, for as long as the database takes, and stamps the expiry with the time afterwards. For an edit
made outside, `readers` are the visits that were reading the list at that moment and `kept` when each of
them had stored what it read (history).

### `MenuEditor`, `LivePreview`: the editor page and the phone beside it

`stored` is the database, `page` the lists as the page has them. A handler changes
`page` at once and appends a request that carries what it would roll back to; the
server executes or refuses it; the answer lands in any order, and may be lost
although the write was done (`LostAnswers`). Another tab writes the same rows.
A load of the lists carries no number, as in the code. `LivePreview` has no state of its
own: the editor keeps its record in `preview` and applies its operators. `inSync`
and `stale` are history: they name why the page or the phone may differ from what is
stored, and `SettledShowsStored` and `PreviewShowsStored` say that nothing else does.

### `EditorForms`, `Prices`, `Filters`: the product and category dialogs

`OpenForm` is the fill of the form from a row; each control is an action; `FormRefused`
and `saveForm` are `handleSubmit` with its checks in the code's order; the server checks again. `Prices`
holds the pure functions of a typed price. A text is whether it is there; fields
nobody checks are one set. An upload ends whenever it likes and sets the image of
whatever form is open then, as `ImageUploader` does. A stored option has a plain name and
translations, the plain one among them as soon as there are others (`WithCopy`); the form has names by
language; what is sent has the name of the primary language apart from the others (`ItemsPayload`,
`OptionsPayload`). `SanitizeOptions` is what the server makes of it again. `Filters` is
`Array.prototype.filter` as a recursive function, and `sort` by a total order; `MCPages` has TLC compare
the filter with `SelectSeq` on sequences up to four elements, and the proofs derive what both keep.

### `MenuDialogs`: the bar, its dialogs and the shared `Modal`

A menu is a number, its place in the list, so the first of a list is its least.
What matters here is the order of React's effects: `BarRendered` runs all
cleanups and then all effects of the open dialogs in tree order, each saving and
restoring the `overflow` it found.

### `BulkPrice`: the bulk price dialog over `utils/pricing.go`

`RoundPrice` is the server's rounding, `PlanPriceChanges` the rows a body changes. A preview and an
apply are one request at a time; the fields stay enabled meanwhile, as in the code. Arithmetic
is exact; the code computes in floating point and rounds to two decimals.

### `SettingsForm`: the settings page

The draft is a record over every field of the page, each control an action on it,
`changedFields` the difference, `FieldsSent` what of it is sent, `SettingsExecute` what the server makes of it. The
list is refreshed, another menu chosen, the page left, another tab writes.

### `ClientSession`: who the browser thinks is signed in

The cookie, the sessions behind it, `localStorage` and two tabs. A request carries the
cookie of the moment it is sent and `Serve` is the server. An answer lands in two steps, as in `api.js`: `HeadersLand`
is the browser taking Set-Cookie when the `fetch` resolves, `AnswerHandled` the handler that writes the storage once the
body has been awaited. Anything of either tab may come between, and in `NetworkFails` the body
never comes although the cookie did. `torn` is history: whether the last answer that moved the cookie
was crossed by another one, or cut short, between the two. Forms are records of how they are wrong.
`saveBusiness` and `refreshBusiness` of `auth.jsx` have no caller and are not modelled.

### `VisitorMenu`: the page behind a QR code

Address, language, payload and opening screen of one visit, with every fetch in
flight. A fetch whose effect was cleaned up is no longer `live` and lands unheard.
`viewEvents` and `browser.openings` are history: the visits reported and the opening screens shown.

### `MenuScreen`, `ProductSheet`: the menu a visitor walks through

`ProductSheet` is the sheet with its answers, its total and the drag; `MenuScreen` the grid,
listing and search around it with the one scroll position. `gridSeen` is history: the offset the grid was left at.

### `MCDashboard`, `MCPages`

`MCDashboard` puts the editor and the context in one run, `MCPages` the seven pages and
dialogs. They share no state in the browser (a page left is unmounted; the editor reads
only the selection of the context), so a behaviour of these runs is a behaviour of one of them, named by `part` and
`openPage`, with the others at rest. The composition says nothing about two of them at once.

The other `MC*` modules define the instances' sets, functions and symmetries. The
definitions named after a slip (`EvictionsOneShort`, `NeverOutOfDate`, `OpensAlways`, ...) are
variants of the definition that follows them, there to show that a property notices the slip.

## 3. Runs

| run | distinct states | what it shows |
|---|---|---|
| session_store | 72,863 | the maps agree, the cap holds, the sweep takes no live session, every expired session is freed |
| menu_writers | 170,023 | a structural write, any of the thirteen kinds of writer, and a price edit at once: one lock order, no deadlock, the cascade finds everything locked, counts are exact, nobody meets a foreign key error, every request ends |
| menu_writers_moving | 270,531 | four writers, one of them moving the category between menus: the tree stays whole and counts exact, although a deadlock can happen and its victim is run again |
| event_gate | 4.1 million | until a request has outlived its window or its day, the gate implements `DailyAllowance`, the count is rows plus places held, rows stay within the cap, repeats are dropped; and then too, one report a day and process, unless a late request rolled the gate back over the day |
| accounts | 1,528,685 | a password change ends every older session, a link is used once; cooldown and number of links, forgot requests at once included |
| exclusions | 3.5 million | listed visits are dropped, others kept; the limit holds, nothing redundant is added |
| exclusions_outside | 12.2 million | an edit in psql is seen after the time to live, counted from the edit and from the end of every read then under way |
| dashboard | 6.0 million | at rest the editor and its phone show what is stored; in the context older data never returns but by a save that was overtaken, the spinner is the newest load's, the selection stays |
| pages | 1,109,822 | seven pages and dialogs: forms, dialogs, bulk prices, settings, session, customer menu, menu screen; each with its own properties |

Some properties are conjunctions, so that one name stands for one claim of a component:

| property | its parts |
|---|---|
| LocksInOrder | `AdvisoryFirst`, `WaitsUpward`, `NoDeadlock` |
| DeletesAreExact | `CascadeFindsLocked`, `CountIsExact` |
| TreeHolds | `WriterTypeOK`, `TreeIntact`, `NoForeignKeyError` |
| CountedTree | `TreeIntact`, `CountIsExact` |
| GateHolds | `GateTypeOK`, and until a request is late `CountIsRowsAndAdmitted`, `StoredWithinCap` |
| LinksRationed | `AccountTypeOK`, `CooldownKept`, `ActiveLinksBounded` |
| DashboardShowsStored | the types of both halves, `SettledShowsStored`, `PreviewShowsStored` |
| PagesInShape | the types of the seven pages, `OneSaveAtATime`, `OneDeletion` |
| SavedAsEdited | `SavesWhatWasEdited`, `PlacementSavedAsShown` |
| SheetStandsAlone | `SheetIsItsProducts`, `OwnGestureOnly` |

### What some properties leave out

- `SettledShowsStored` says nothing after writes to the same row overlapped, an answer
  was lost or another tab wrote: the code then has no way to know. It compares the
  products of a category as a set. A drag sends the new order and leaves every
  product's local `position` as it was, and the next product saved sorts by these
  (`MenuEditor.jsx:405`): the page then shows the old order until it is loaded again.
- `OneSaveAtATime` excepts an opening whose form was filled again. The effect that fills
  a form depends on the menu's languages; when they change under an open dialog the
  text is gone, and so is the flag that said a save was under way.
- `SentIsAcceptable` leaves out the server's ceilings of a price and a surcharge, which the
  forms do not check, and the unit of a length: JavaScript counts UTF-16 units, Go runes. In a menu that does
  not offer its default language it says the opposite: the payload is refused for its name, always. The form asks for names in the first language of the list, the server
  for one in the default; no name the owner can write is taken. The server checks the two settings apart
  (`menu.go:410-428`), so two tabs that each save one of them reach it.
- `PreviewIsWhatApplyDoes` is about a preview whose settings were not touched while it
  was fetched, and prices nobody else has changed since. The inputs stay enabled
  while a request runs.
- `DraftSurvivesRefresh` is about refreshes. A save that lands does wipe the draft, also
  what was typed while it was under way, and after a switch the draft of another menu.
- `RememberedIsServed` and `LostCookieIsForgotten` are about what the next load of a page draws (a tab already open is
  told nothing, there is no storage listener), and about a browser `AtRest`: no answer has moved the cookie without
  having been handled, and the last one that did was neither crossed by another nor cut short before
  its handler ran. A crossing leaves the storage at
  one account and the cookie at a live session of the other, and no request is refused (`BeliefIsCorrected`, below).
- `OlderDataNeverReturns` leaves out the `overtaken` menus, whose save was followed by another write on the server
  before its answer landed; `saveActiveMenu` applies that answer unasked (`NeverOlder`, below).
- `GateHolds`, `KeepsAllowance` and `RepeatsDropped` speak of the time until a request is `late`: a late one stores its row
  in a day it was not counted in, or releases the claim of its successor.
- `ReportedOnce` holds of late requests too, and leaves out the days one has turned the gate back over: a refusal
  of such a day may be reported again (`FirstRefusalReportedOnce`, below).
- `LinksRationed` relates a link to the links its request found issued, and only as long as no reset has
  deleted their rows. Requests that look at the same moment know nothing of each other (`MailsApart`, below).
- `ListedVisitsDropped` counts the time to live of an edit made outside from the end of the reads that were under way
  at the edit, however long they take; counted from the edit alone, as `ipexclude.go:60-65`
  has it, it fails (`OutsideEditsNoticed`, below).
- `RepeatsDropped` is about keys whose every claim found room in the set.

### Disagreements between code and comments

Three runs expect a violation: TLC finds an execution of the code that its own
comment excludes. The quotes are in `PROJECT.json`, under "findings".

| run | what happens |
|---|---|
| menu_writers_cascade | `CreateProduct` has passed its reread in a category of menu 2; the category moves to menu 1; `DeleteMenu(1)` reaches its cascade with the product unlocked |
| forms_price | a price typed 12.50 is sent as 1250 |
| dialogs_lock | a render of the bar under an open confirmation leaves the page locked once both dialogs are gone |

Others are kept out of the passing runs by what their properties say; most contradict a comment as well. The
formula without the exception is defined in the module, and each violation can be seen by changing the instance as told here.

| change | violated | what happens |
|---|---|---|
| `ExclusionsOutside.cfg`: `INVARIANTS OutsideEditsNoticed` | OutsideEditsNoticed | the list is read; an address is entered by hand; the slow read ends after the time to live has passed since, and the old list is served for another one (`ipexclude.go:351-360`, against `:63-65`) |
| `Pages.cfg`: `INVARIANTS BeliefIsCorrected` | BeliefIsCorrected | two tabs sign in as two accounts; the cookie of the second comes between the cookie and the handler of the first, the handlers run in the other order, and no protected request corrects the belief (`api.js:133`, against `auth.jsx:25-27`) |
| `Dashboard.cfg`: `INVARIANTS NeverOlder` | NeverOlder | a save answered late replaces a newer menu (`menuContext.jsx:218`, against `:93-95`) |
| `Accounts.cfg`: `INVARIANTS MailsApart` | MailsApart | two forgot requests both look before either has inserted, and both mail (`passwordreset.go:126`, against `:38`) |
| `EventGate.cfg`: `INVARIANTS FirstRefusalReportedOnce` | FirstRefusalReportedOnce | a request that read its day before midnight turns the gate back (`eventgate.go:243`, against `:17-19`), and the cap is reported twice |
| `EventGate.tla`: `ClaimedApart` for `p` and `q` remembered, in place of keys that always found room; `MCEventGate.tla`: a third tap in place of `other`; `Cap = 2` | RepeatsDropped | a claim the full set never remembered is released all the same, and takes another request's claim with it (`eventgate.go:157`) |
| `Pages.cfg`: `INVARIANTS OneLanguage` | OneLanguage | after a language is picked and the menu cannot be fetched, the interface speaks the new language over the old texts (`language.js:12`) |

### Further limits of the code

Met while modelling. The actions that lead there are in the models; no property
excludes them, because the code does nothing to.

- Using a link deletes the rows the cooldown looks for (`passwordreset.go:125`), so a new mail may follow at once. A mail that fails leaves
  its row behind, so a retry is answered like any other and nothing is mailed
  until the cooldown is over.
- A load of the editor carries no number, and `reloadIfStale` uses the load of an old
  render: it can fill the page with the menu left. A write that was done and whose
  answer was lost is rolled back on screen, and the phone is not asked again.
- A price typed in a row is committed by Escape, through the blur it causes (`ProductRow.jsx:90-98`).
- An upload that ends after the dialog was opened for another row sets that row's
  image; a save sent during an upload goes without it (`ImageUploader.jsx:59`).
- An apply of bulk prices that was committed and answered with an error can be pressed
  again and applies twice. Rounding to an ending of 95 or 99 can raise a cheap price
  on a discount.
- The confirmation of a category's deletion closed by Escape sets, after a switch of menu,
  the count from the list of the new menu. A late answer to one deletion of a menu closes the
  confirmation opened for another (`ActiveMenuBar.jsx:121`).
- A colour that is hidden and not valid refuses every save of the settings
  (`MenuSettings.jsx:910-925`). Two tabs that each send half of the languages can store a
  default that is not among them.
- An answer whose body is lost leaves its cookie: a sign-in that looks failed is one for the server. A 401 or a logout of an old session that lands late clears a newer login. A logout that
  fails leaves a live cookie. The sign-up page checks less than the sign-up dialog.
- A navigation from the directory that fails offers no retry. The opening screen, once
  decided on the directory, never opens for the menu chosen there. The sheet stays open on
  the product of an older payload; with the keyboard, rows behind the sheet can be reached.

### Bounds

Every bound is a constant or a guard named for it.

- `SessionStore`: three hashes, two users, a cap of two, so that eviction happens
  with another user's session present; batches of two, so that a sweep needs two;
  `MaxTime` covers two lifetimes.
- `MenuWriters`: two menus, four categories and five products, of which two
  categories and two products do not exist yet, one for each of two requests; so a product can be
  created in a category that is being created. `WriterRequests` gives the first writer one of ten
  structural writes around menu 1 (those around menu 2 mirror them), the second any operation, and the
  third a price edit, since a price edit is the writer that locks products
  without the menu's advisory lock. Re-runs and attempts are bounded by two
  (three in the code). `MovingCategory` has four writers, one of which moves a
  category. There a deadlock is possible, and the last run of `WriteIntoCategory` is not
  rechecked: `locks.go:178-182` says so and leaves it to `RetryOnConflict`. `NoDeadlock` and
  `NoForeignKeyError` are therefore not claimed of that instance.
- `EventGate`: a cap of one and four requests for two businesses, two of them the same tap,
  reach a full day, a refusal, a repeat, a change of day and a restart in
  between. `MaxKeys` one forces the sweep for room, and a claim there was no room
  for is let through, as in the code; `RepeatsDropped` speaks of keys whose every claim
  found room. `MaxLate` one lets one request at a time outlive its window or its day: it stores behind the
  turn of the day, or comes late to the gate and turns it back, and a refusal follows. With `MaxLate = 0`, where none does,
  `Cap = 2` was checked with `MaxKeys` 1 (964,201 states) and 2 (529,798).
- `MenuContext`: the load on mount and two further calls, of two menus one of which
  does not exist until a call creates it; a creation or a deletion that lands adds the load that
  follows it. Versions up to three: old, newer, newest. Others write whenever they like, between a save and its answer too.
- `MenuEditor`: two menus, three categories and three products of which one each is still
  to be created, and two acts (writes of the page or of another tab, and switches), which
  is every pair of operations with each other, in every order of execution and
  landing, with answers lost.
- `MCPages`: per page, the number of things done: three edits of a form, six of the menu bar
  and of the bulk dialog, two of the settings, two sign-ins or sign-outs, which is what a crossing takes, two page loads and three
  acts of a visitor, four of the sheet and of the screen. The
  settings page has over forty controls and one draft: a switch or refresh is no edit,
  so two edits are a pair of fields with everything else in between. Values are at the limits
  the checks have: a price over the ceiling, names and passwords too short and too long, a
  percentage out of range, texts whose UTF-16 units and runes
  differ, pauses and distances on both sides of the sheet's thresholds.
- `Accounts`: four requests, a cooldown of one tick, links that live three, three
  ticks and one restart, so that a link can expire under a request that holds it. Any number of the four may ask
  for a link at once.
- `Exclusions`: two visits and three edits; an add, a remove and a second add
  around one load is the longest race of the cache. Adds come from two single
  addresses and the range of both. The outside run has two edits and a clock
  instead, and a second attempt of an add that met a conflict; with a time to live of one tick and two to come, a read can
  outlast it.

### Fairness

Liveness is claimed in two places. `FairStoreSpec` assumes weak fairness of the
janitor's steps: `StartJanitor` runs a goroutine on a ticker until it is stopped,
and `ExpiredIsFreed` claims nothing once it is stopped. `FairWriterSpec` assumes
weak fairness of each request's next step: a statement that can proceed does.
Nothing is assumed of a request that waits for a lock. Every other property is a
safety property, and needs no fairness: no request of the browser has a timeout,
so nothing makes it be answered.

`CHECK_DEADLOCK FALSE` is set in the session store's run, whose clock is
bounded, and in the runs of the browser (dashboard, pages, forms_price, dialogs_lock),
whose acts are: a store with no request, or a page nobody touches, simply rests. The other modules have a
`Finished` step, so a state in which a request is stuck would be reported.

## 4. Proofs

Eight modules hold theorems, each proved for every value of the constants from the
assumptions named in the module it is about.

| theorem | property | assumptions | inductive invariant |
|---|---|---|---|
| StoreTyped | StoreTypeOK | `StoreConstants` | itself |
| StoreIndexAgrees | IndexAgrees | | type, the index, and no hash in two users' sets |
| StoreCapHolds | CapHolds | | with the index, and finiteness: an eviction leaves one place below the cap before the insert |
| LiveSessionsAreKept | LiveSessionsStay | | with `SweepInThePast` |
| ExclusionsTyped | ExclusionTypeOK | `ExclusionConstants` | itself |
| ExclusionsLimit | LimitHolds | | `ListInv` |
| ExclusionsNoRedundant | NoRedundantEntry | | `ListInv` |
| ExclusionsDropListed | ListedVisitsDropped | `OutsideEdits = FALSE` | `CacheInv` |
| ExclusionsKeepOthers | OtherVisitsKept | `OutsideEdits = FALSE` | `CacheInv` |
| BulkApplyIsPreview | PreviewIsWhatApplyDoes | `BulkConstants`, `NoResultIsNone` | `BulkInv` |
| SavedIsEdited | SavedAsEdited | `SettingsConstants`, `SettingsTexts` | `SettingsInv` |
| DraftStays | DraftSurvivesRefresh | | `SettingsInv` |
| FormsInShape | (limits, one save) | `FormConstants`, `StoredRows` | `FormInv` |
| SentTaken | SentIsAcceptable | the same | `FormInv` |
| UntouchedStays | UntouchedSaveChangesNothing | `FormConstants`, `StoredRows` | `FormInv` |
| DialogsSound | (OneDeletion) | `DialogConstants` | `DialogInv` |
| SettingsTyping | (types of the settings) | with `SettingsShapes` | `SettingsKept` |
| ScreenTyping | (types of screen and sheet) | `ScreenConstants`, `SheetConstants` | `ScreenKept` |
| PagesAreApart | (each page does what it does alone) | | |
| PagesShaped | PagesInShape | all of the pages' | those of the pages |
| WriterTyping | WriterTypeOK | `WriterConstants`, `RequestConstants` | `WriterInv` |
| TreeCounted | CountedTree | | `WriterInv` |
| TreeHeld | TreeHolds | `NoCategoryMoves` | `WriterInv`, `OrderInv` |
| DeletesExact | DeletesAreExact | `NoCategoryMoves` | the same |
| LockedInOrder | LocksInOrder | `NoCategoryMoves` | the same |
| SpinnerFollows | SpinnerFollowsNewestLoad | `ContextConstants` | `ContextInv` |
| SelectionKept | SelectionStays | | `ContextInv` |
| OlderNeverReturns | OlderDataNeverReturns | | `FreshInv` |
| EditorKeeps | (the invariant itself) | `EditorConstants`, `RowConstants` | `EditorInv` |
| SettledShows | (SettledShowsStored) | the same | `EditorInv` |
| PreviewShows | (PreviewShowsStored) | the same | `EditorInv` |
| DashboardSound | DashboardShowsStored | with `ContextConstants` | `EditorInv`, `ContextInv` |
| DrawnAsked | DrawnIsAsked | `VisitorConstants` | `VisitorInv` |
| ViewsCounted | ViewsCountedOnce | | `VisitorInv` |
| SplashOnce | SplashShownOnce | | `VisitorInv` |
| RememberedServed | RememberedIsServed | `ClientSessionConstants` | `SessionInv` |
| LostCookieForgotten | LostCookieIsForgotten | | `SessionInv` |
| SheetsApart | SheetStandsAlone | `SheetConstants` | `ScreenInv` |
| BackIsWhereLeft | BackLandsWhereLeft | `ScreenConstants` | `ScreenInv` |
| PasswordChangeEnds | PasswordChangeEndsSessions | `AccountConstants` | `AccountInv` |
| LinksAreSpent | LinkUsedOnce | | `AccountInv` |
| LinksAreRationed | LinksRationed | with `Cooldown <= TTL` | `RationInv` |
| GateCounts | GateHolds | `GateConstants`, `Cap # 0` | `MemoryOK`, `late \/ GateInv` |
| GateKeepsAllowance | KeepsAllowance | the same | `late \/ GateInv` |
| RepeatsAreDropped | RepeatsDropped | the same | `late \/ RepeatInv` |
| RefusalReportedOnce | ReportedOnce | `GateConstants` | `ReportInv` |

`SettingsKeepInv`, `FormsKeepInv`, `SessionSound`, `ScreenKeepsInv`, `WritersKeepInv`, `WritersKeepOrder`,
`ContextKeepsInv`, `ContextKeepsFresh` and `VisitorKeepsInv` are the invariance of the invariants named last, stated on
their own; `BulkTyped`, `ContextTyping`, `VisitorTyping`, `SessionTyping` and `EditorTyping` are the type invariants of five modules.
`PageProofs` holds the proofs about the seven pages of `MCPages`, `DashboardProofs` those about the two halves of `MCDashboard`,
`FilterProofs` the lemmas both need about filtered and sorted lists, every other `...Proofs` module those about the module it
is named after. The composed runs let one page, or one half, move at a time (`PagesAreApart`), so what is proved of a part holds of the whole. A cooldown is
thirty minutes in the code and a link lives one hour (`passwordreset.go:26`, `utils/reset.go:20`), so `Cooldown <= TTL`; a cap of 0 means that there is none.

The assumptions on the constants of the browser's modules say what JavaScript and the database already
ensure: a text has no more runes than UTF-16 units, records have the fields of the page, a missing product,
pointer, category or offset is not one of those there are, prices of options and the texts typed for them
are natural numbers (in hundredths), rows and categories are finitely many and numbered as they were created, a menu
has a language and no more links than allowed (`SettingsShapes`). `StoredRows` says that
the rows a form may be opened on are ones the server stores: each option group has an item, the limits
hold, a category has no options. That a menu offers its default language is not assumed, since the code does not see to it.

`IndexAgrees` relates two maps by set equality, and every removal goes through
`removeLocked`: one lemma says that removing a set of hashes from both keeps them in
step, and each action cites it. `CapHolds` alone is not inductive: the
number of a user's sessions has to be read off `byUser`, so the index is part of
the strengthening; the arithmetic is the cardinality of a set with its oldest
members gone, from the theorems on finite sets.

`LiveSessionsStay` is a property of steps. A sweep deletes what it found expired, later, under another lock;
what it needs is that the instant it judges by is not ahead of the clock (`SweepInThePast`), and that
the entry it deletes is looked at again, since its hash may have been opened anew in between.

`LimitHolds` is not inductive either: between its check and its commit an add
relies on the lock. `ListInv` adds `CommitChecked`: an add about to commit holds the
lock and what it checked is still true. `CacheInv` says, of the cached list and of every load in flight whose generation is
unmoved, that it differs from the rows only by edits whose answer
is not out yet (`CacheOK`, `MatchOK`), with `HistoryOK` on the rows removed;
that is what a generation counter buys, and it fails as soon as an edit does not
move it.

`BulkInv` follows a request: the plan it carries is the plan of the body it was sent with, at the
prices of that moment, so a preview that lands beside untouched settings is the plan of these settings.
`SettingsInv` has three parts and the property. `PageOK`: the draft was built from the record the page shows, and a menu
whose stored placement is still a legacy one is shown as one. `DraftOK`: a field nobody edited is what the draft was built with, up to
the spaces the server trims. `SavesOK`: at most one save is of the page as it is, and only while the page says that it is saving; a save
that carries one half of a legacy placement is of a menu whose other half is stored as it was shown. Without the last, the answer
to a save of one half could not be compared with the draft: what the other half means changes when the legacy value goes.

`FormInv` says of an open form that it has its parts within their limits (`FormShape`) and, if nobody typed into it, the
fields its row fills in (`AsFilled`); of a save under way that its payload is what its form sends and the form had no problem
(`SaveShape`); of the stored rows that they are rows a form can be filled from (`RowsOK`), so the next form opened on one is in shape as well. `SavesFollowForm` is what makes
`OneSaveAtATime` inductive: a form that was not filled over a save belongs to the opening of every save under way. From the payload's shape follow
both theorems about what is sent. `SentTaken` goes through the checks of the server one by one: each is implied by a check of the form (the
one of the name where the default language is offered, and only there), and for the options, which are filtered twice before they are sent, by lemmas about the filter. `UntouchedStays` follows a row through the
fill, the payload and the server: each price and each name is read back as what it came from (`PriceReadBack`, `NameReadBack`), every option
row has a name, so the filter drops none, and every group keeps its items. What a filter keeps is proved by induction on its steps. The library's
induction theorems cannot be applied by the provers here, since they quantify over an operator; `SetInduction` states induction for sets of numbers
instead and follows from the well-foundedness of the natural numbers, of which the library has a form without one.

`DialogInv` ties the flag of the bar to its requests: `deletions` has one element while `deleting` holds and none
otherwise, whatever is on screen. The lock is in shape because a render puts back only what the bottom of the page
had or one of the dialogs found, and what `InTree` lists are dialogs, again by the lemmas about the filter.

`ScreenInv` keeps the property of the sheet as it is, with the gesture under way one of the sheet that is open (`SheetInv`). `GridKept` says where the
grid's place is: it is the scroll position while the grid is shown, and put aside in `gridOffset` while a category is open, chips and
searches in between included.

`SessionInv` adds to the types (`SessionsOK`, `TabsOK`) what an answer under way may still do (`AnswersOK`): only a
sign-in that succeeded opened a session, which is its account's or nobody's, and only a sign-out
or an expired session clears the cookie. `RestOK` is what holds between such answers: at rest, an account that is remembered is
the one of the cookie's session or of the session that has gone, and there is a cookie. A handler that runs whole brings it
about, whatever was there before; headers that land end the rest, and an answer that crosses or is cut short sets `torn`. `AccountInv` adds that a session was opened by a request that is over
(`OpenersDone`) and that no two links share a token, spent ones included
(`TokensApart`). `RationInv` says that what a request for a link found out of the links it knows still holds when it
creates its own (`CooledDown`, `RoomLeft`): the clock only goes on, and rows of known links only go. `KnownExist`
keeps a later link from being one of them, and `IssuedKept`, that a
link issued since the last wipe has its row or is older than the cooldown, is where
`Cooldown <= TTL` is used: the sweep of expired rows takes none the cooldown still looks for.

`GateInv` is the largest: `CountIsRowsAndAdmitted` holds only because the count a request brings back
from the database, installed later, is corrected by what was admitted and stored
since. `HandlerOK` says at every step of a request what it has read and what is true
of it since, `EntriesNamed` and `EntriesCount` that every entry of the map belongs to one
business and counts its rows and places, `RowsOK` that rows are of requests that are done. It is kept by every
step after which no request is late (`GateInvStep`), and once late always late (`StaysLate`): so `late \/ GateInv` is invariant.
What holds of the gate's memory whoever is late, its types and the bound of the set of claims, is `MemoryOK`.
`GateKeepsAllowance` is the refinement: the initial states map to initial states and each of
the gate's actions to a step of `DailyAllowance` or to a stutter, in the states of `GateInv`, the turn of the day included as long as no request is late. `RepeatInv`
adds that a request with a claim is alone with its key and the set has its claim
(`ClaimKept`), and that a stored event is behind its window or the set still has its
claim (`RowKept`).

`ReportInv` owes nothing to `GateInv` and `RepeatInv`, which requests past midnight falsify: it asks for no more than `GateConstants`. A
request points to an entry of its own business and day (`Pointing`); an entry is of the gate's day or an earlier one and, if
of the gate's day, the one the map has, unless the gate went back over that day (`Current`); so a business has one entry of a
day (`OneEntryADay`). A report of this process is noted in the entry of the request that made it (`Noted`), and an entry
is reported once (`OneReportAnEntry`).

`WriterInv` says of a writer what it has locked once it is past a statement and what it
has or still awaits in the middle of one (`Needs`, `Has`), and that no lock of one writer conflicts
with a lock of another (`Compatible`). A commit deletes, moves or creates rows; for every other
writer the two together say that the row it relies on is not among them, since it would hold a lock
that conflicts. That is the proof of `CountedTree`, and it asks nothing of the requests beyond
`RequestConstants`: what is created does not exist, and is created by one request.

`OrderInv` adds what needs the menu of a category to be the one that was read: the products
and categories of a delete are all locked before its cascade (`ProductsLocked`), advisory locks come
from the menus of the rows (`MenuKept`), and locks are taken upwards (`TakenUpwards`). `LocksInOrder`
then follows: what a writer waits for comes after all it holds, so of the writers in a smallest circle
those that wait for something later than one of them does would be a smaller circle.
`NoCategoryMoves` is needed. A category may move between the snapshot of `WriteIntoCategory`'s last
run and its locks; with a fourth writer TLC then finds a cycle, a foreign key error and a cascade
that meets an unlocked row, as `locks.go:178-182` expects. The runs go further than the theorems
here: their instances contain moves.

`ContextInv` orders the calls of the context. The later of two calls saw no older server and took
no smaller number (`Ages`, `Orders`), one load is the newest (`Requests`), and a menu that is gone stays
gone, since it is created once (`Existence`, `Dead`); a menu that is listed or selected was known to the server
before the newest load was answered, so that load has it (`Chosen`), which is `SelectionStays`. `FreshInv` says what each answer
on its way will find: the newest load saw all that must be shown, or a newer answer of one menu is noted
under a higher number and will be kept (`LoadStands`); a refresh saw it, or is out of date and what is
listed is no older than what it saw (`RefreshStands`); a save brings the newest version of its menu
(`SaveStands`). All three are about the menus that were not overtaken (`Steady`); of these a save under way
holds the newest version, since whoever writes meanwhile makes the menu an overtaken one. What happens to an
overtaken menu is what violates `NeverOlder`.

`EditorInv` is about a page that runs ahead of the database. "Every optimistic change is confirmed or put back"
is only seen once the last answer is there; the invariant says it of every moment before. A request takes a part of the page while it
is under way: the order of the categories, lists, products (`TakesOrder`, `TakesList`, `TakesProduct`), no more than what `Touches`
says, so while `inSync` holds no two requests take the same (`Apart`). Of what it has taken it makes a claim (`Claims`),
one for each kind and for before and after the server executed it: before, that the page differs from the database by
what the handler changed and that `undo` is the rest; after, that the answer and the page together are what is stored.
What nobody has taken agrees (`OrderAgrees`, `ProductAgrees`). A step of one request changes only what it has taken (`OnlyTaken`), so the claims
of the others go on (`ClaimsGo`); its own claim makes the rollback and the answer agree (`FailureAgrees`, `SuccessAgrees`), whichever comes. The invariant is silent
(`Claimed`) when something has happened that `inSync` excludes, or while a load is under way, which answers for everything: `AloneOK` says that
what a load has read is still stored, if nothing else was under way with it. `PreviewKept` is the phone's part and needs none of that:
a write the page will hear of, or one it cannot have heard of (`stale`), is all that lies between the phone and the database.

`VisitorInv` has a part for each claim about the page. `Asking`: one request at most is heard, it asks
for what address and language call for, and the page is loading exactly while it is on its way.
`Counting`: the visits of this page load are of menus it has reported and carry its visitor, and those
of a browser with a storage carry the stored one. `Showing`: a menu whose opening screen was shown is
in the storage, or was shown in this page load and the page has decided.

TLC checked the invariants on the instances of their runs before they were proved; `SettingsInv` also with a third edit, in the first
3.2 million states. `EditorInv`, whose request
types are infinite sets, was checked without them in 524,047 states with two acts, and with three on random behaviours.

Every invariant a passing run checks is stated by a theorem, some under the assumptions the table names. Model-checked only: `MenuWriters` with
categories that move beyond its tree and its counts, and with outside edits the visit
properties of `Exclusions`, which then depend on the clock. Liveness
under fairness and ENABLED are outside what the prover can do; `ExpiredIsFreed` and
`EveryRequestEnds` therefore stay with TLC. What a fold of the community modules computes is proved only as far as that
it is a natural number, for the total of the sheet. That a scroll lock is released does not hold (`DialogsLock`). No module here declares a recursive operator.

## 5. Not modelled, and the plan

Pure I/O (SMTP, uploads, SQL text), rendering and wording stay out: the landing page, the QR
hub, translations, animation. The address grammar of `lib/contact.js` is two outcomes, good and
bad. Analytics and audit pages are lists with a page and a filter; what they could get wrong, an older
answer shown, the code prevents by one counter. What is
left, in order of what it is worth:

1. `MenuSlug`: `CreateMenu`, `UpdateMenu` and their bounded retry on a unique
   violation (`menuWriteAttempts`); properties: two menus of a business never share a slug, a
   retry ends, a create refused at the cap leaves nothing behind.
2. The date trigger: the date of the menu never goes back, although it stamps the start
   of its transaction (`010_price_change_date.sql:76`). `AuditTrail` beside it: the before
   image is what the update replaced (`audit.go:60`).
3. Steps that fail half way: the mail after its row (`passwordreset.go:176`), the link
   consumed before the password is written (`:240`), a visit judged before an add
   commits and inserted after it (`exclusions.go:224`), two processes that migrate at once (`migrate.go:46`).
4. Composition: context and editor over one selection, with the count of categories that
   both write (`menuContext.jsx:295`); the settings page over the context.
5. Abstract specifications: a menu tree that is edited one request at a time, which
   `MenuWriters` implements; a list of addresses that is read and edited at one
   point in time, which `Exclusions` implements while nobody edits from outside.
6. `PagedViews`: the request counters and the paging of the analytics and audit pages.
7. Pure modules, checked against a reference definition over bounded inputs: what server
   and client each compute of the same value must agree (slugs, links, excluded
   addresses, languages), and the address a proxy chain resolves to.
8. Proofs: what the editor keeps when two tabs write, up to the next load; the order of the products, which
   the code does not keep (section 3).
