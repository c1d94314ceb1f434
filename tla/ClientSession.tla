---------------------------- MODULE ClientSession ---------------------------
(* Who a browser thinks is signed in, and who the server thinks it is: the  *)
(* account remembered in localStorage (lib/session.js) and shown by each    *)
(* tab (lib/auth.jsx), the cookie all tabs share, and the pages that change *)
(* them - sign-in, sign-up (a page and a dialog of the landing page), the   *)
(* two steps of a password reset, the password form of the panel, sign-out. *)
(*                                                                         *)
(* Nothing asks the server who is signed in: a tab believes what it reads   *)
(* until a protected request is answered SESSION_EXPIRED (lib/api.js).  The *)
(* cookie a request carries is the one of the moment it is sent.  An answer *)
(* lands in two steps: the browser takes its cookie with the headers, and   *)
(* its handler runs once the body is read, if it ever is.                   *)
EXTENDS Naturals, FiniteSets, Sequences

CONSTANTS
  Account, Tab, NoAccount,
  RegisteredAtStart,
  MinPassword, MaxPassword, MinBusinessName, MaxBusinessName,
  Entry,           \* what may be typed into the forms; see below
  MaxSessionActs                  \* bound: submissions, requests, reloads and lost sessions

ASSUME ClientSessionConstants ==
  /\ RegisteredAtStart \subseteq Account /\ NoAccount \notin Account
  /\ MaxSessionActs \in Nat

VARIABLES
  accounts,        \* the registered accounts
  sessions,        \* the server's sessions by number: whose each is, NoAccount once it is gone
  cookie,          \* the session the browser's cookie names, or 0
  stored,          \* the account in localStorage
  tab,             \* each tab: the account it shows, its page, a form being sent
  authRequests,    \* the requests under way
  torn,            \* whether the last answer to say whose the cookie is was crossed, or cut short
  sessionActs

sessionVars == <<accounts, sessions, cookie, stored, tab, authRequests, torn, sessionActs>>

SessionAct == sessionActs < MaxSessionActs /\ sessionActs' = sessionActs + 1

-----------------------------------------------------------------------------
(* Routes.                                                                 *)

PublicPage == {"landing", "signIn", "signUp", "forgot", "reset"}
PanelPage == {"panel", "account"}

(* The routes without their guard.                                         *)
Unguarded(page, account) == page

(* A page of the panel needs an account; the others send one to the panel.  *)
ProtectedRoute(page, account) == IF page \in PanelPage /\ account = NoAccount THEN "signIn" ELSE page
PublicRoute(page, account) == IF page \in PublicPage /\ account # NoAccount THEN "panel" ELSE page

(* A page that is opened starts with an empty form.                        *)
Opened(page, account) ==
  [account |-> account, page |-> PublicRoute(ProtectedRoute(page, account), account),
   submitting |-> FALSE]

(* An answer that has moved the cookie, none having moved it since, and    *)
(* whose handler has not run.                                              *)
MovesCookie(r) == r.opened # 0 \/ r.clears
Took(r) == r.landed /\ MovesCookie(r) /\ cookie = r.opened

(* The requests of the form that was there find it gone.                   *)
Orphaned(requests, t) == {IF r.tab = t THEN [r EXCEPT !.here = FALSE] ELSE r : r \in requests}

Visit(t, page) ==
  /\ page # tab[t].page
  /\ tab' = [tab EXCEPT ![t] = Opened(page, @.account)]
  /\ tab'[t].page # tab[t].page
  /\ authRequests' = Orphaned(authRequests, t)
  /\ UNCHANGED <<accounts, sessions, cookie, stored, torn, sessionActs>>

(* The account is read from storage before the first paint; what was asked  *)
(* before is answered to nobody.                                           *)
readStoredSession(t, page) ==
  /\ SessionAct
  /\ tab' = [tab EXCEPT ![t] = Opened(page, stored)]
  /\ authRequests' = {r \in authRequests : r.tab # t}
  /\ torn' = (torn \/ \E r \in authRequests : r.tab = t /\ Took(r))
  /\ UNCHANGED <<accounts, sessions, cookie, stored>>

-----------------------------------------------------------------------------
(* Requests.                                                               *)

request(t, kind, who) ==
  authRequests' = authRequests \cup
    {[tab |-> t, kind |-> kind, who |-> who, cookie |-> cookie, here |-> TRUE,
      answer |-> "none", opened |-> 0, clears |-> FALSE, landed |-> FALSE]}

(* An entry is a name (its length, and whether a slug comes out of it), an  *)
(* email ("blank", "malformed" or "valid"), the length of a password,       *)
(* whether it was repeated right, and whether it is the current one.        *)

loginProblem(e) == e.email = "blank" \/ e.password = 0

signUpProblem(e) == e.name.runes = 0 \/ ~e.name.slug \/ e.email = "blank" \/ e.password < MinPassword

(* The dialog of the landing page checks what the server will.             *)
validateSignUp(e) ==
  \/ e.name.runes \notin MinBusinessName..MaxBusinessName
  \/ e.email # "valid"
  \/ e.password \notin MinPassword..MaxPassword

forgotProblem(e) == e.email = "blank"
resetProblem(e) == e.password < MinPassword \/ ~e.again
passwordProblem(e) == ~e.again \/ e.password < MinPassword \/ e.current

(* What the server refuses of an entry that the form let through.          *)
ServerRefuses(kind, e) ==
  \/ kind = "register" /\ validateSignUp(e)
  \/ kind \in {"reset", "password"} /\ e.password \notin MinPassword..MaxPassword

(* A form is sent once: the button and the handler wait for the answer.    *)
Submit(t, page, kind, who, e) ==
  /\ tab[t].page = page /\ ~tab[t].submitting
  /\ SessionAct
  /\ request(t, kind, IF ServerRefuses(kind, e) THEN NoAccount ELSE who)
  /\ tab' = [tab EXCEPT ![t].submitting = TRUE]
  /\ UNCHANGED <<accounts, sessions, cookie, stored, torn>>

submitLogin(t, who, e) == ~loginProblem(e) /\ Submit(t, "signIn", "login", who, e)
submitSignUp(t, who, e) == ~signUpProblem(e) /\ Submit(t, "signUp", "register", who, e)
submitSignUpDialog(t, who, e) == ~validateSignUp(e) /\ Submit(t, "landing", "register", who, e)
submitForgot(t, who, e) == ~forgotProblem(e) /\ Submit(t, "forgot", "forgot", who, e)
submitReset(t, who, e) == ~resetProblem(e) /\ Submit(t, "reset", "reset", who, e)
submitPassword(t, who, e) == ~passwordProblem(e) /\ Submit(t, "account", "password", who, e)

onSubmit(t, who, e) ==
  \/ submitLogin(t, who, e) \/ submitSignUp(t, who, e) \/ submitSignUpDialog(t, who, e)
  \/ submitForgot(t, who, e) \/ submitReset(t, who, e) \/ submitPassword(t, who, e)

(* Any request of the panel, and the sign-out button, which nothing holds.  *)
UsePanel(t, kind) ==
  /\ tab[t].page \in PanelPage /\ SessionAct
  /\ request(t, kind, tab[t].account)
  /\ UNCHANGED <<accounts, sessions, cookie, stored, tab, torn>>

-----------------------------------------------------------------------------
(* The server.                                                             *)

OwnerOf(s) == IF s = 0 THEN NoAccount ELSE sessions[s]

startSession(a) == Append(sessions, a)
EndAll(a, spared) == [s \in DOMAIN sessions |-> IF sessions[s] = a /\ s # spared THEN NoAccount ELSE sessions[s]]

(* The session middleware: no cookie and a cookie that matches nothing are  *)
(* refused alike, and only the latter is cleared.                          *)
Protected(r) == OwnerOf(r.cookie) = NoAccount

Replied(r, answer, opened, clears) ==
  authRequests' = (authRequests \ {r}) \cup
    {[r EXCEPT !.answer = answer, !.opened = opened, !.clears = clears]}

Refused(r) == Replied(r, "refused", 0, FALSE) /\ UNCHANGED <<accounts, sessions>>

Expired(r) ==
  /\ r.kind \in {"data", "password"} /\ Protected(r)
  /\ Replied(r, "expired", 0, r.cookie # 0)
  /\ UNCHANGED <<accounts, sessions>>

Login(r) ==
  /\ r.kind = "login"
  /\ \/ Refused(r)                                  \* a wrong password, or a failure
     \/ /\ r.who \in accounts
        /\ sessions' = startSession(r.who)
        /\ Replied(r, "ok", Len(sessions'), FALSE)
        /\ UNCHANGED accounts

Register(r) ==
  /\ r.kind = "register"
  /\ IF r.who = NoAccount \/ r.who \in accounts
     THEN Refused(r)
     ELSE /\ accounts' = accounts \cup {r.who}
          /\ sessions' = startSession(r.who)
          /\ Replied(r, "ok", Len(sessions'), FALSE)

Logout(r) ==
  /\ r.kind = "logout"
  /\ sessions' = IF r.cookie = 0 THEN sessions ELSE [sessions EXCEPT ![r.cookie] = NoAccount]
  /\ Replied(r, "ok", 0, TRUE)
  /\ UNCHANGED accounts

ChangePassword(r) ==
  /\ r.kind = "password" /\ ~Protected(r)
  /\ \/ Refused(r)
     \/ /\ r.who # NoAccount
        /\ sessions' = EndAll(OwnerOf(r.cookie), r.cookie)
        /\ Replied(r, "ok", 0, FALSE)
        /\ UNCHANGED accounts

(* The link of a reset is another module's business (Accounts).            *)
ResetPassword(r) ==
  /\ r.kind = "reset"
  /\ \/ Refused(r)
     \/ /\ r.who \in accounts
        /\ sessions' = EndAll(r.who, 0)
        /\ Replied(r, "ok", 0, FALSE)
        /\ UNCHANGED accounts

Served(r) ==
  /\ r.kind \in {"data", "forgot"} /\ (r.kind = "data" => ~Protected(r))
  /\ Replied(r, "ok", 0, FALSE) /\ UNCHANGED <<accounts, sessions>>

Serve(r) ==
  /\ r.answer = "none"
  /\ Expired(r) \/ Login(r) \/ Register(r) \/ Logout(r) \/ ChangePassword(r) \/ ResetPassword(r) \/ Served(r)
  /\ UNCHANGED <<cookie, stored, tab, torn, sessionActs>>

(* A session ends with its time, with the process, or from another device.  *)
SessionsLost ==
  /\ SessionAct
  /\ \E s \in DOMAIN sessions : sessions[s] # NoAccount /\ sessions' = [sessions EXCEPT ![s] = NoAccount]
  /\ UNCHANGED <<accounts, cookie, stored, tab, authRequests, torn>>

-----------------------------------------------------------------------------
(* The answer lands.                                                       *)

(* The account an answer leaves remembered.                                *)
remember(r) == r.who
forget == NoAccount

(* A registration that only its tab hears of, an expired session likewise.  *)
RegisteredHere(r) ==
  /\ r.kind = "register" /\ r.answer = "ok"
  /\ tab' = [tab EXCEPT ![r.tab] = Opened("panel", remember(r))]
  /\ UNCHANGED stored

ExpiredHere(r) ==
  /\ r.answer = "expired"
  /\ tab' = [tab EXCEPT ![r.tab] = Opened("signIn", forget)]
  /\ UNCHANGED stored

SignedIn(r, kind) ==
  /\ r.kind = kind /\ r.answer = "ok"
  /\ stored' = remember(r)
  /\ tab' = [tab EXCEPT ![r.tab] = Opened("panel", remember(r))]

LoginLands(r) == SignedIn(r, "login")
RegisterLands(r) == SignedIn(r, "register")

SignedOut(r) ==
  /\ r.kind = "logout"
  /\ stored' = forget
  /\ tab' = [tab EXCEPT ![r.tab] = Opened("landing", forget)]

handleExpiredSession(r) ==
  /\ r.answer = "expired"
  /\ stored' = forget
  /\ tab' = [tab EXCEPT ![r.tab] = Opened("signIn", forget)]

PasswordReset(r) ==
  /\ r.kind = "reset" /\ r.answer = "ok"
  /\ tab' = [tab EXCEPT ![r.tab] = Opened("signIn", @.account)]
  /\ UNCHANGED stored

(* The form that sent it, when it is still there, takes its button back.    *)
FormAnswered(r) ==
  /\ \/ r.kind \in {"login", "register", "reset"} /\ r.answer # "ok"
     \/ r.kind \in {"forgot", "password", "data"} /\ r.answer # "expired"
  /\ tab' = IF r.here /\ r.kind # "data"
            THEN [tab EXCEPT ![r.tab].submitting = FALSE]
            ELSE tab
  /\ UNCHANGED stored

CookieAfter(r) == IF r.opened # 0 THEN r.opened ELSE IF r.clears THEN 0 ELSE cookie

Handled(r) ==
  \/ LoginLands(r) \/ RegisterLands(r)
  \/ SignedOut(r) \/ handleExpiredSession(r) \/ PasswordReset(r) \/ FormAnswered(r)

(* The headers come, and with them the cookie; the body is still to read.   *)
HeadersLand(r) ==
  /\ r.answer # "none" /\ ~r.landed
  /\ cookie' = CookieAfter(r)
  /\ authRequests' = (authRequests \ {r}) \cup {[r EXCEPT !.landed = TRUE]}
  /\ UNCHANGED <<accounts, sessions, stored, tab, torn, sessionActs>>

(* A request is over; a page it leaves takes its form with it.             *)
Over(r) ==
  authRequests' = IF tab'[r.tab].page = tab[r.tab].page THEN authRequests \ {r}
                  ELSE Orphaned(authRequests \ {r}, r.tab)

AnswerHandled(r) ==
  /\ r.landed
  /\ Handled(r) /\ Over(r)
  /\ torn' = IF MovesCookie(r) THEN ~Took(r) ELSE torn
  /\ UNCHANGED <<accounts, sessions, cookie, sessionActs>>

(* Nothing comes back, whether or not the server did it, or the body is     *)
(* lost: the handler does not run, a cookie that came with the headers      *)
(* stays.  A sign-out forgets all the same.                                *)
NetworkFails(r) ==
  /\ SignedOut(r) \/ FormAnswered([r EXCEPT !.answer = "lost"])
  /\ Over(r)
  /\ torn' = (torn \/ Took(r))
  /\ UNCHANGED <<accounts, sessions, cookie, sessionActs>>

-----------------------------------------------------------------------------
(* The browser was closed signed in, or not; its session may be gone since.  *)
SessionInit ==
  /\ accounts = RegisteredAtStart
  /\ stored \in RegisteredAtStart \cup {NoAccount}
  /\ sessions = IF stored = NoAccount THEN <<>> ELSE <<stored>>
  /\ cookie = Len(sessions)
  /\ tab \in [Tab -> {Opened("landing", stored)}]
  /\ authRequests = {} /\ torn = FALSE /\ sessionActs = 0

SessionNext ==
  \/ \E t \in Tab, page \in PublicPage \cup PanelPage : Visit(t, page)
  \/ \E t \in Tab, page \in {"landing", "panel"} : readStoredSession(t, page)
  \/ \E t \in Tab, who \in Account, e \in Entry : onSubmit(t, who, e)
  \/ \E t \in Tab, kind \in {"data", "logout"} : UsePanel(t, kind)
  \/ \E r \in authRequests : Serve(r) \/ HeadersLand(r) \/ AnswerHandled(r) \/ NetworkFails(r)
  \/ SessionsLost

SessionSpec == SessionInit /\ [][SessionNext]_sessionVars

-----------------------------------------------------------------------------
(* Properties.                                                             *)

SessionTypeOK ==
  /\ accounts \subseteq Account
  /\ sessions \in Seq(Account \cup {NoAccount})
  /\ cookie \in 0..Len(sessions)
  /\ stored \in Account \cup {NoAccount}
  /\ \A t \in Tab : tab[t].page \in PanelPage => tab[t].account # NoAccount
  /\ \A r \in authRequests : r.landed => r.answer # "none"
  /\ torn \in BOOLEAN
  /\ sessionActs \in 0..MaxSessionActs

(* No answer has moved the cookie without its handler having run, and the   *)
(* last handler of such an answer ran before another moved it again.        *)
AtRest == ~torn /\ ~\E r \in authRequests : Took(r)

(* The account the next load of a page will draw is the one the server will *)
(* act for: when the last answer that moved the cookie was handled whole,   *)
(* whatever else crosses it in whichever tab, the browser does not remember *)
(* one account while its cookie is a live session of another.               *)
RememberedIsServed ==
  AtRest /\ stored # NoAccount => OwnerOf(cookie) \in {stored, NoAccount}

(* And an answer handled whole that took the cookie away - a sign-out, an   *)
(* expired session - leaves nobody remembered: the panel is not drawn for   *)
(* somebody who is signed out (lib/api.js:83).                             *)
LostCookieIsForgotten == AtRest /\ cookie = 0 => stored = NoAccount

(* What lib/auth.jsx says of a belief that is wrong, that a protected       *)
(* request corrects it: that needs the server to refuse the request, that   *)
(* is, a cookie that is no live session of another account.                 *)
BeliefIsCorrected ==
  authRequests = {} /\ stored # NoAccount => OwnerOf(cookie) \in {stored, NoAccount}
=============================================================================
