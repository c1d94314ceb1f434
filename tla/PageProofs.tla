----------------------------- MODULE PageProofs ------------------------------
(* Proofs about the pages and dialogs of the browser, for any tabs, accounts,  *)
(* menus, texts, limits and numbers of steps: who a browser remembers and    *)
(* whom its cookie serves (ClientSession); what a visitor's page draws and   *)
(* reports (VisitorMenu); where the way back leads in a menu, and whose      *)
(* gesture throws a product sheet away (MenuScreen, ProductSheet); that an    *)
(* apply of bulk prices does what its table shows (BulkPrice); that the       *)
(* settings page sends what was edited and keeps what was typed             *)
(* (SettingsForm); that what a category or a product dialog lets through is   *)
(* taken, and an untouched row saved as it was (EditorForms); that the menu   *)
(* bar deletes one menu at a time (MenuDialogs).  At the end, that each of    *)
(* them keeps its state in shape whichever page is open (MCPages).           *)
EXTENDS MCPages, FilterProofs, FiniteSetTheorems, SequenceTheorems, WellFoundedInduction, TLAPS

-----------------------------------------------------------------------------
(* The session of a browser.                                                *)

(* Types.                                                                   *)

Page == PublicPage \cup PanelPage
TabState == [account : Account \cup {NoAccount}, page : Page, submitting : BOOLEAN]

AuthRequest ==
  [tab : Tab, kind : {"login", "register", "logout", "password", "reset", "forgot", "data"},
   who : Account \cup {NoAccount}, cookie : Nat, here : BOOLEAN,
   answer : {"none", "ok", "refused", "expired"}, opened : Nat, clears : BOOLEAN, landed : BOOLEAN]

TabsOK ==
  /\ tab \in [Tab -> TabState]
  /\ \A t \in Tab : tab[t].page \in PanelPage => tab[t].account # NoAccount

SessionsOK ==
  /\ accounts \subseteq Account
  /\ sessions \in Seq(Account \cup {NoAccount})
  /\ cookie \in 0..Len(sessions)
  /\ stored \in Account \cup {NoAccount}
  /\ torn \in BOOLEAN
  /\ sessionActs \in 0..MaxSessionActs

(* What a request may still do to the cookie: only a sign-in that succeeded   *)
(* opened a session, which is its account's or nobody's; only a sign-out and  *)
(* an expired session clear it.                                              *)
AnswerOK(r) ==
  /\ r \in AuthRequest
  /\ r.cookie \in 0..Len(sessions) /\ r.opened \in 0..Len(sessions)
  /\ r.kind \in {"login", "register"} /\ r.answer = "ok" =>
       r.opened # 0 /\ sessions[r.opened] \in {r.who, NoAccount}
  /\ ~(r.kind \in {"login", "register"} /\ r.answer = "ok") => r.opened = 0
  /\ r.clears => r.kind = "logout" \/ r.answer = "expired"
  /\ r.answer = "expired" => r.kind \in {"data", "password"}
  /\ r.landed => r.answer # "none"

AnswersOK == \A r \in authRequests : AnswerOK(r)

(* Between answers that move the cookie, an account that is remembered is the *)
(* one of the cookie's session, or of the session that has gone.             *)
RestOK ==
  AtRest /\ stored # NoAccount => cookie # 0 /\ OwnerOf(cookie) \in {stored, NoAccount}

SessionInv == SessionsOK /\ TabsOK /\ AnswersOK /\ RestOK

(* A page that is opened is one its account may see.                         *)
LEMMA OpenedIsAllowed ==
  ASSUME NEW page \in Page, NEW account \in Account \cup {NoAccount}
  PROVE  /\ Opened(page, account) \in TabState
         /\ Opened(page, account).account = account
         /\ Opened(page, account).page \in PanelPage => account # NoAccount
<1> DEFINE p == ProtectedRoute(page, account)
           q == PublicRoute(p, account)
<1>1. p \in Page /\ (p \in PanelPage => account # NoAccount)
  BY DEF ProtectedRoute, Page, PublicPage, PanelPage
<1>2. q \in Page /\ (q \in PanelPage => account # NoAccount)
  BY <1>1 DEF PublicRoute, Page, PublicPage, PanelPage
<1> HIDE DEF q
<1>3. Opened(page, account) = [account |-> account, page |-> q, submitting |-> FALSE]
  BY DEF Opened, q
<1> QED BY <1>2, <1>3 DEF TabState

LEMMA OrphanedOK ==
  ASSUME NEW requests, NEW t, \A r \in requests : AnswerOK(r)
  PROVE  \A r \in Orphaned(requests, t) : AnswerOK(r)
<1>1. ASSUME NEW r \in requests PROVE AnswerOK([r EXCEPT !.here = FALSE])
  BY <1>1 DEF AnswerOK, AuthRequest
<1> QED BY <1>1 DEF Orphaned

LEMMA OrphanedSame ==
  ASSUME NEW requests, requests \subseteq AuthRequest, NEW t, NEW q \in requests
  PROVE  \E p \in Orphaned(requests, t) : <<p.landed, p.opened, p.clears>> = <<q.landed, q.opened, q.clears>>
<1>1. [q EXCEPT !.here = FALSE].landed = q.landed /\ [q EXCEPT !.here = FALSE].opened = q.opened
      /\ [q EXCEPT !.here = FALSE].clears = q.clears
  BY DEF AuthRequest
<1>2. (IF q.tab = t THEN [q EXCEPT !.here = FALSE] ELSE q) \in Orphaned(requests, t)
  BY DEF Orphaned
<1> QED BY <1>1, <1>2

LEMMA SessionInvInit == SessionInit => SessionInv
<1> SUFFICES ASSUME SessionInit PROVE SessionInv
  OBVIOUS
<1>1. stored \in Account \cup {NoAccount} /\ RegisteredAtStart \subseteq Account
  BY ClientSessionConstants DEF SessionInit
<1>2. Opened("landing", stored) \in TabState
      /\ (Opened("landing", stored).page \in PanelPage => stored # NoAccount)
      /\ Opened("landing", stored).account = stored
  BY <1>1, OpenedIsAllowed DEF Page, PublicPage
<1>3. TabsOK
  BY <1>2 DEF SessionInit, TabsOK
<1>4. sessions \in Seq(Account \cup {NoAccount}) /\ cookie = Len(sessions)
      /\ (cookie # 0 => cookie = 1 /\ sessions[1] = stored)
      /\ (stored # NoAccount => cookie # 0)
  <2>1. CASE stored = NoAccount
    BY <2>1 DEF SessionInit
  <2>2. CASE stored # NoAccount
    <3>1. sessions = <<stored>>
      BY <2>2 DEF SessionInit
    <3>2. Len(sessions) = 1 /\ sessions[1] = stored
      BY <3>1
    <3>3. sessions \in Seq(Account \cup {NoAccount})
      BY <1>1, <3>1
    <3> QED BY <3>2, <3>3 DEF SessionInit
  <2> QED BY <2>1, <2>2
<1>5. SessionsOK
  <2>1. torn \in BOOLEAN
    BY DEF SessionInit
  <2>2. sessionActs \in 0..MaxSessionActs
    BY ClientSessionConstants DEF SessionInit
  <2>3. accounts \subseteq Account /\ cookie \in 0..Len(sessions)
    BY <1>1, <1>4 DEF SessionInit
  <2> QED BY <1>1, <1>4, <2>1, <2>2, <2>3 DEF SessionsOK
<1>6. RestOK
  <2>1. ASSUME stored # NoAccount PROVE cookie # 0 /\ OwnerOf(cookie) = stored
    <3>1. cookie = 1 /\ sessions[1] = stored
      BY <1>4, <2>1
    <3> QED BY <3>1 DEF OwnerOf
  <2> QED BY <2>1 DEF RestOK
<1>7. AnswersOK
  BY DEF SessionInit, AnswersOK
<1> QED BY <1>3, <1>5, <1>6, <1>7 DEF SessionInv

-----------------------------------------------------------------------------
(* Sessions are only opened and ended.                                       *)

SessionsAge ==
  /\ sessions' \in Seq(Account \cup {NoAccount})
  /\ Len(sessions) <= Len(sessions')
  /\ \A s \in 1..Len(sessions) : sessions'[s] \in {sessions[s], NoAccount}

LEMMA AgeUnchanged == ASSUME SessionsOK, UNCHANGED sessions PROVE SessionsAge
  BY DEF SessionsOK, SessionsAge

LEMMA AgeStarted ==
  ASSUME SessionsOK, NEW a \in Account \cup {NoAccount}, sessions' = startSession(a)
  PROVE  SessionsAge /\ Len(sessions') = Len(sessions) + 1 /\ sessions'[Len(sessions')] = a
  BY DEF SessionsOK, SessionsAge, startSession

LEMMA AgeEnded ==
  ASSUME SessionsOK, NEW a, NEW spared, sessions' = EndAll(a, spared)
  PROVE  SessionsAge
<1>1. sessions \in [1..Len(sessions) -> Account \cup {NoAccount}] /\ Len(sessions) \in Nat
  BY DEF SessionsOK
<1>2. sessions' \in [1..Len(sessions) -> Account \cup {NoAccount}]
  BY <1>1 DEF EndAll
<1>3. sessions' \in Seq(Account \cup {NoAccount}) /\ Len(sessions') = Len(sessions)
  BY <1>1, <1>2
<1>4. \A s \in 1..Len(sessions) : sessions'[s] \in {sessions[s], NoAccount}
  BY <1>1 DEF EndAll
<1> QED BY <1>1, <1>3, <1>4 DEF SessionsAge

LEMMA AgeOne ==
  ASSUME SessionsOK, NEW s \in 1..Len(sessions), sessions' = [sessions EXCEPT ![s] = NoAccount]
  PROVE  SessionsAge
<1>1. sessions' \in Seq(Account \cup {NoAccount}) /\ Len(sessions') = Len(sessions)
  BY DEF SessionsOK
<1> QED BY <1>1 DEF SessionsOK, SessionsAge

(* What held of a request holds of it when sessions have aged.               *)
LEMMA StillOK ==
  ASSUME SessionsOK, SessionsAge, NEW r, AnswerOK(r)
  PROVE  AnswerOK(r)'
<1>1. Len(sessions) \in Nat /\ Len(sessions') \in Nat
  BY DEF SessionsOK, SessionsAge
<1>2. r.cookie \in 0..Len(sessions') /\ r.opened \in 0..Len(sessions')
  BY <1>1 DEF AnswerOK, SessionsAge
<1>3. r.kind \in {"login", "register"} /\ r.answer = "ok" =>
        r.opened # 0 /\ sessions'[r.opened] \in {r.who, NoAccount}
  BY <1>1 DEF AnswerOK, SessionsAge
<1> QED BY <1>2, <1>3 DEF AnswerOK

(* The cookie's session ends or stays what it was.                          *)
LEMMA OwnerAges ==
  ASSUME SessionsOK, SessionsAge, UNCHANGED cookie
  PROVE  OwnerOf(cookie)' \in {OwnerOf(cookie), NoAccount}
  BY DEF SessionsOK, SessionsAge, OwnerOf

LEMMA OwnerTyped ==
  ASSUME SessionsOK, NEW s \in 0..Len(sessions)
  PROVE  OwnerOf(s) \in Account \cup {NoAccount}
  BY DEF SessionsOK, OwnerOf

(* No handler owed before a step is forgotten by it: it is still owed, or the *)
(* step is said to have torn the two apart.                                  *)
LEMMA StillOwed ==
  ASSUME UNCHANGED cookie, torn => torn',
         \A q \in authRequests : Took(q) =>
           torn' \/ \E p \in authRequests' : <<p.landed, p.opened, p.clears>> = <<q.landed, q.opened, q.clears>>
  PROVE  AtRest' => AtRest
<1> SUFFICES ASSUME ~torn', \A p \in authRequests' : ~Took(p)', NEW q \in authRequests, Took(q)
             PROVE  FALSE
  BY DEF AtRest
<1>1. PICK p \in authRequests' : p.landed = q.landed /\ p.opened = q.opened /\ p.clears = q.clears
  OBVIOUS
<1>2. Took(p)'
  BY <1>1 DEF Took, MovesCookie
<1> QED BY <1>2

(* A step that leaves the cookie and the remembered account alone.           *)
LEMMA ServedStays ==
  ASSUME SessionInv, SessionsAge, UNCHANGED <<cookie, stored>>, AtRest' => AtRest
  PROVE  RestOK'
<1>1. OwnerOf(cookie)' \in {OwnerOf(cookie), NoAccount}
  BY OwnerAges DEF SessionInv
<1> QED BY <1>1 DEF SessionInv, RestOK

-----------------------------------------------------------------------------
(* The acts of the owner.                                                    *)

LEMMA RequestOK ==
  ASSUME SessionInv, NEW t \in Tab, NEW who \in Account \cup {NoAccount},
         NEW kind \in {"login", "register", "logout", "password", "reset", "forgot", "data"},
         request(t, kind, who), UNCHANGED sessions
  PROVE  AnswersOK'
<1> DEFINE r == [tab |-> t, kind |-> kind, who |-> who, cookie |-> cookie, here |-> TRUE,
                 answer |-> "none", opened |-> 0, clears |-> FALSE, landed |-> FALSE]
<1>1. cookie \in 0..Len(sessions) /\ Len(sessions) \in Nat
  BY DEF SessionInv, SessionsOK
<1>2. AnswerOK(r)
  BY <1>1 DEF AnswerOK, AuthRequest
<1>3. authRequests' = authRequests \cup {r}
  BY DEF request
<1> HIDE DEF r
<1>4. \A q \in authRequests' : AnswerOK(q)
  BY <1>2, <1>3 DEF SessionInv, AnswersOK
<1> QED BY <1>4, AgeUnchanged, StillOK DEF SessionInv, AnswersOK

LEMMA VisitKeeps ==
  ASSUME SessionInv, NEW t \in Tab, NEW page \in Page, Visit(t, page)
  PROVE  SessionInv'
<1>1. tab \in [Tab -> TabState] /\ tab[t].account \in Account \cup {NoAccount}
  BY DEF SessionInv, TabsOK, TabState
<1>2. tab' = [tab EXCEPT ![t] = Opened(page, tab[t].account)]
  BY DEF Visit
<1>3. TabsOK'
  BY <1>1, <1>2, OpenedIsAllowed DEF SessionInv, TabsOK
<1>4. \A r \in authRequests' : AnswerOK(r)
  BY OrphanedOK DEF Visit, SessionInv, AnswersOK
<1>5. SessionsAge /\ UNCHANGED <<cookie, stored, accounts, torn, sessionActs>>
  BY AgeUnchanged DEF Visit, SessionInv
<1>6. AnswersOK'
  BY <1>4, <1>5, StillOK DEF SessionInv, AnswersOK
<1>7. SessionsOK'
  BY DEF Visit, SessionInv, SessionsOK
<1>8. AtRest' => AtRest
  <2>1. authRequests' = Orphaned(authRequests, t)
    BY DEF Visit
  <2>2. \A q \in authRequests : \E p \in authRequests' :
          <<p.landed, p.opened, p.clears>> = <<q.landed, q.opened, q.clears>>
    BY <2>1, OrphanedSame DEF SessionInv, AnswersOK, AnswerOK
  <2> QED BY <1>5, <2>2, StillOwed
<1> QED BY <1>3, <1>5, <1>6, <1>7, <1>8, ServedStays DEF SessionInv

LEMMA ReloadKeeps ==
  ASSUME SessionInv, NEW t \in Tab, NEW page \in Page, readStoredSession(t, page)
  PROVE  SessionInv'
<1>1. tab \in [Tab -> TabState] /\ stored \in Account \cup {NoAccount}
  BY DEF SessionInv, TabsOK, SessionsOK
<1>2. TabsOK'
  BY <1>1, OpenedIsAllowed DEF readStoredSession, SessionInv, TabsOK
<1>3. SessionsAge /\ UNCHANGED <<cookie, stored, accounts, sessions>>
  BY AgeUnchanged DEF readStoredSession, SessionInv
<1>4. AnswersOK'
  BY <1>3, StillOK DEF readStoredSession, SessionInv, AnswersOK
<1>5. SessionsOK'
  BY ClientSessionConstants DEF readStoredSession, SessionAct, SessionInv, SessionsOK
<1>6. AtRest' => AtRest
  <2>1. /\ torn' = (torn \/ \E r \in authRequests : r.tab = t /\ Took(r))
        /\ authRequests' = {r \in authRequests : r.tab # t}
    BY DEF readStoredSession
  <2>2. \A q \in authRequests : Took(q) => torn' \/ q \in authRequests'
    BY <2>1
  <2> QED BY <1>3, <2>1, <2>2, StillOwed
<1> QED BY <1>2, <1>3, <1>4, <1>5, <1>6, ServedStays DEF SessionInv

LEMMA SubmitKeeps ==
  ASSUME SessionInv, NEW t \in Tab, NEW who \in Account, NEW e, NEW page,
         NEW kind \in {"login", "register", "reset", "forgot", "password"}, Submit(t, page, kind, who, e)
  PROVE  SessionInv'
<1>1. TabsOK'
  BY DEF Submit, SessionInv, TabsOK, TabState
<1>2. SessionsAge /\ UNCHANGED <<cookie, stored, accounts, sessions>>
  BY AgeUnchanged DEF Submit, SessionInv
<1>3. (IF ServerRefuses(kind, e) THEN NoAccount ELSE who) \in Account \cup {NoAccount}
  OBVIOUS
<1>4. AnswersOK'
  BY <1>2, <1>3, RequestOK DEF Submit
<1>5. SessionsOK'
  BY ClientSessionConstants DEF Submit, SessionAct, SessionInv, SessionsOK
<1>6. AtRest' => AtRest
  BY StillOwed DEF Submit, request
<1> QED BY <1>1, <1>2, <1>4, <1>5, <1>6, ServedStays DEF SessionInv

LEMMA UsePanelKeeps ==
  ASSUME SessionInv, NEW t \in Tab, NEW kind \in {"data", "logout"}, UsePanel(t, kind)
  PROVE  SessionInv'
<1>1. tab[t].account \in Account \cup {NoAccount}
  BY DEF SessionInv, TabsOK, TabState
<1>2. SessionsAge /\ UNCHANGED <<cookie, stored, accounts, sessions, tab>>
  BY AgeUnchanged DEF UsePanel, SessionInv
<1>3. AnswersOK'
  BY <1>1, <1>2, RequestOK DEF UsePanel
<1>4. SessionsOK' /\ TabsOK'
  BY ClientSessionConstants DEF UsePanel, SessionAct, SessionInv, SessionsOK, TabsOK
<1>5. AtRest' => AtRest
  BY StillOwed DEF UsePanel, request
<1> QED BY <1>2, <1>3, <1>4, <1>5, ServedStays DEF SessionInv

LEMMA LossKeeps == ASSUME SessionInv, SessionsLost PROVE SessionInv'
<1>1. PICK s \in DOMAIN sessions : sessions' = [sessions EXCEPT ![s] = NoAccount]
  BY DEF SessionsLost
<1>2. s \in 1..Len(sessions)
  BY DEF SessionInv, SessionsOK
<1>3. SessionsAge /\ UNCHANGED <<cookie, stored, accounts, authRequests, tab, torn>>
  BY <1>1, <1>2, AgeOne DEF SessionsLost, SessionInv
<1>4. AnswersOK' /\ TabsOK'
  BY <1>3, StillOK DEF SessionInv, AnswersOK, TabsOK
<1>5. SessionsOK'
  BY <1>3, ClientSessionConstants DEF SessionsLost, SessionAct, SessionsAge, SessionInv, SessionsOK
<1>6. AtRest' => AtRest
  BY <1>3 DEF AtRest, Took, MovesCookie
<1> QED BY <1>3, <1>4, <1>5, <1>6, ServedStays DEF SessionInv

-----------------------------------------------------------------------------
(* The server.                                                               *)

Reply(r, answer, opened, clears) == [r EXCEPT !.answer = answer, !.opened = opened, !.clears = clears]

LEMMA RepliedKeeps ==
  ASSUME SessionInv, NEW r \in authRequests, NEW answer, NEW opened, NEW clears,
         Replied(r, answer, opened, clears), AnswerOK(Reply(r, answer, opened, clears))',
         r.answer = "none",
         SessionsAge, accounts' \subseteq Account, UNCHANGED <<cookie, stored, tab, torn, sessionActs>>
  PROVE  SessionInv'
<1> DEFINE reply == Reply(r, answer, opened, clears)
<1>1. authRequests' = (authRequests \ {r}) \cup {reply}
  BY DEF Replied, Reply
<1>2. \A q \in authRequests : AnswerOK(q)'
  BY StillOK DEF SessionInv, AnswersOK
<1>3. AnswersOK'
  <2> HIDE DEF reply
  <2>1. AnswerOK(reply)'
    BY DEF reply
  <2>2. ASSUME NEW q \in authRequests' PROVE AnswerOK(q)'
    <3>1. CASE q \in authRequests
      BY <1>2, <3>1
    <3>2. CASE q = reply
      BY <2>1, <3>2
    <3> QED BY <1>1, <2>2, <3>1, <3>2
  <2> QED BY <2>2 DEF AnswersOK
<1>4. SessionsOK' /\ TabsOK'
  BY DEF SessionsAge, SessionInv, SessionsOK, TabsOK
<1>5. ~Took(r)
  BY DEF Took, SessionInv, AnswersOK, AnswerOK
<1>6. AtRest' => AtRest
  <2> HIDE DEF reply
  <2> QED BY <1>1, <1>5, StillOwed
<1> QED BY <1>3, <1>4, <1>6, ServedStays DEF SessionInv

(* An answer that opens nothing.                                            *)
LEMMA PlainReplyOK ==
  ASSUME SessionsOK, SessionsAge, NEW r, AnswerOK(r), r.answer = "none", NEW answer \in {"ok", "refused", "expired"}, NEW clears \in BOOLEAN,
         answer = "ok" => r.kind \notin {"login", "register"},
         clears => r.kind = "logout" \/ answer = "expired",
         answer = "expired" => r.kind \in {"data", "password"}
  PROVE  AnswerOK(Reply(r, answer, 0, clears))'
<1> DEFINE reply == Reply(r, answer, 0, clears)
<1>1. AnswerOK(r)'
  BY StillOK
<1>2. r \in AuthRequest /\ r.cookie \in 0..Len(sessions') /\ Len(sessions') \in Nat
  BY <1>1 DEF AnswerOK, SessionsAge
<1>3. reply \in AuthRequest /\ reply.cookie = r.cookie /\ reply.kind = r.kind /\ reply.answer = answer
      /\ reply.opened = 0 /\ reply.clears = clears /\ reply.landed = r.landed
  BY <1>2 DEF Reply, AuthRequest
<1> HIDE DEF reply
<1>4. AnswerOK(reply)'
  BY <1>2, <1>3 DEF AnswerOK
<1> QED BY <1>4 DEF reply

(* An answer that opens the session of the account it is for.               *)
LEMMA OpeningReplyOK ==
  ASSUME SessionsOK, SessionsAge, NEW r, AnswerOK(r), r.answer = "none", r.kind \in {"login", "register"},
         NEW n, n = Len(sessions'), n = Len(sessions) + 1, sessions'[n] = r.who
  PROVE  AnswerOK(Reply(r, "ok", n, FALSE))'
<1> DEFINE reply == Reply(r, "ok", n, FALSE)
<1>1. AnswerOK(r)'
  BY StillOK
<1>2. r \in AuthRequest /\ r.cookie \in 0..Len(sessions') /\ n \in Nat /\ n # 0
  BY <1>1 DEF AnswerOK, SessionsAge, SessionsOK
<1>3. reply \in AuthRequest /\ reply.cookie = r.cookie /\ reply.kind = r.kind /\ reply.answer = "ok"
      /\ reply.opened = n /\ reply.clears = FALSE /\ reply.who = r.who
  BY <1>2 DEF Reply, AuthRequest
<1> HIDE DEF reply
<1>4. reply \in AuthRequest /\ reply.cookie \in 0..Len(sessions') /\ reply.opened \in 0..Len(sessions')
      /\ reply.opened # 0 /\ sessions'[reply.opened] \in {reply.who, NoAccount}
  BY <1>2, <1>3
<1>5. /\ ~(reply.kind \in {"login", "register"} /\ reply.answer = "ok") => reply.opened = 0
      /\ reply.clears => reply.kind = "logout" \/ reply.answer = "expired"
      /\ reply.answer = "expired" => reply.kind \in {"data", "password"}
  BY <1>3
<1>6. AnswerOK(reply)'
  BY <1>4, <1>5 DEF AnswerOK
<1> QED BY <1>6 DEF reply

LEMMA ServeKeeps ==
  ASSUME SessionInv, NEW r \in authRequests, Serve(r)
  PROVE  SessionInv'
<1>1. SessionsOK /\ AnswerOK(r) /\ r.answer = "none" /\ UNCHANGED <<cookie, stored, tab, torn, sessionActs>>
  BY DEF Serve, SessionInv, AnswersOK
<1>2. r.who \in Account \cup {NoAccount} /\ r.cookie \in 0..Len(sessions) /\ accounts \subseteq Account
  BY <1>1 DEF AnswerOK, AuthRequest, SessionsOK
<1>3. ASSUME Refused(r) PROVE SessionInv'
  BY <1>1, <1>2, <1>3, AgeUnchanged, PlainReplyOK, RepliedKeeps DEF Refused
<1>4. CASE Expired(r)
  <2>1. Replied(r, "expired", 0, r.cookie # 0) /\ r.kind \in {"data", "password"} /\ UNCHANGED <<accounts, sessions>>
    BY <1>4 DEF Expired
  <2>2. (r.cookie # 0) \in BOOLEAN
    OBVIOUS
  <2>3. SessionsAge
    BY <1>1, <2>1, AgeUnchanged
  <2>4. AnswerOK(Reply(r, "expired", 0, r.cookie # 0))'
    BY <1>1, <2>1, <2>2, <2>3, PlainReplyOK
  <2> QED BY <1>1, <1>2, <2>1, <2>3, <2>4, RepliedKeeps
<1>5. CASE Login(r)
  <2>1. CASE Refused(r)
    BY <1>3, <2>1
  <2>2. CASE ~Refused(r)
    <3>1. r.kind = "login" /\ sessions' = startSession(r.who) /\ Replied(r, "ok", Len(sessions'), FALSE) /\ UNCHANGED accounts
      BY <1>5, <2>2 DEF Login
    <3>2. PICK n : n = Len(sessions')
      OBVIOUS
    <3>3. SessionsAge /\ n = Len(sessions) + 1 /\ sessions'[n] = r.who
      BY <1>1, <1>2, <3>1, <3>2, AgeStarted
    <3>4. AnswerOK(Reply(r, "ok", n, FALSE))'
      BY <1>1, <3>1, <3>2, <3>3, OpeningReplyOK
    <3>5. Replied(r, "ok", n, FALSE)
      BY <3>1, <3>2
    <3> QED BY <1>1, <1>2, <3>1, <3>3, <3>4, <3>5, RepliedKeeps
  <2> QED BY <2>1, <2>2
<1>6. CASE Register(r)
  <2>1. CASE r.who = NoAccount \/ r.who \in accounts
    BY <1>3, <1>6, <2>1 DEF Register
  <2>2. CASE ~(r.who = NoAccount \/ r.who \in accounts)
    <3>1. r.kind = "register" /\ sessions' = startSession(r.who) /\ Replied(r, "ok", Len(sessions'), FALSE)
          /\ accounts' \subseteq Account
      BY <1>2, <1>6, <2>2 DEF Register
    <3>2. PICK n : n = Len(sessions')
      OBVIOUS
    <3>3. SessionsAge /\ n = Len(sessions) + 1 /\ sessions'[n] = r.who
      BY <1>1, <1>2, <3>1, <3>2, AgeStarted
    <3>4. AnswerOK(Reply(r, "ok", n, FALSE))'
      BY <1>1, <3>1, <3>2, <3>3, OpeningReplyOK
    <3>5. Replied(r, "ok", n, FALSE)
      BY <3>1, <3>2
    <3> QED BY <1>1, <3>1, <3>3, <3>4, <3>5, RepliedKeeps
  <2> QED BY <2>1, <2>2
<1>7. CASE Logout(r)
  <2>1. r.kind = "logout" /\ Replied(r, "ok", 0, TRUE) /\ UNCHANGED accounts
    BY <1>7 DEF Logout
  <2>2. SessionsAge
    <3>1. CASE r.cookie = 0
      BY <1>1, <1>7, <3>1, AgeUnchanged DEF Logout
    <3>2. CASE r.cookie # 0
      <4>1. r.cookie \in 1..Len(sessions)
        BY <1>1, <1>2, <3>2 DEF SessionsOK
      <4> QED BY <1>1, <1>7, <3>2, <4>1, AgeOne DEF Logout
    <3> QED BY <3>1, <3>2
  <2>3. AnswerOK(Reply(r, "ok", 0, TRUE))'
    BY <1>1, <2>1, <2>2, PlainReplyOK
  <2> QED BY <1>1, <1>2, <2>1, <2>2, <2>3, RepliedKeeps
<1>8. CASE ChangePassword(r) \/ ResetPassword(r)
  <2>1. CASE Refused(r)
    BY <1>3, <2>1
  <2>2. CASE ~Refused(r)
    <3>1. r.kind \in {"password", "reset"} /\ Replied(r, "ok", 0, FALSE) /\ UNCHANGED accounts
      BY <1>8, <2>2 DEF ChangePassword, ResetPassword
    <3>2. SessionsAge
      BY <1>1, <1>8, <2>2, AgeEnded DEF ChangePassword, ResetPassword
    <3>3. AnswerOK(Reply(r, "ok", 0, FALSE))'
      BY <1>1, <3>1, <3>2, PlainReplyOK
    <3> QED BY <1>1, <1>2, <3>1, <3>2, <3>3, RepliedKeeps
  <2> QED BY <2>1, <2>2
<1>9. CASE Served(r)
  <2>1. r.kind \in {"data", "forgot"} /\ Replied(r, "ok", 0, FALSE) /\ UNCHANGED <<accounts, sessions>>
    BY <1>9 DEF Served
  <2>2. SessionsAge
    BY <1>1, <2>1, AgeUnchanged
  <2>3. AnswerOK(Reply(r, "ok", 0, FALSE))'
    BY <1>1, <2>1, <2>2, PlainReplyOK
  <2> QED BY <1>1, <1>2, <2>1, <2>2, <2>3, RepliedKeeps
<1> QED BY <1>4, <1>5, <1>6, <1>7, <1>8, <1>9 DEF Serve

-----------------------------------------------------------------------------
(* The answers land.                                                         *)

LEMMA EndKeeps ==
  ASSUME SessionInv, NEW r \in authRequests, TabsOK', Over(r),
         UNCHANGED <<accounts, sessions, cookie, sessionActs>>,
         stored' \in Account \cup {NoAccount}, torn' \in BOOLEAN, RestOK'
  PROVE  SessionInv'
<1>1. \A q \in authRequests \ {r} : AnswerOK(q)
  BY DEF SessionInv, AnswersOK
<1>2. \A q \in Orphaned(authRequests \ {r}, r.tab) : AnswerOK(q)
  BY <1>1, OrphanedOK
<1>3. \A q \in authRequests' : AnswerOK(q)
  BY <1>1, <1>2 DEF Over
<1>4. AnswersOK'
  BY <1>3, AgeUnchanged, StillOK DEF SessionInv, AnswersOK
<1>5. SessionsOK'
  BY DEF SessionInv, SessionsOK
<1> QED BY <1>4, <1>5 DEF SessionInv

(* A request that is over, and that owed no handler or is said to have.      *)
LEMMA EndOwes ==
  ASSUME SessionInv, NEW r \in authRequests, Over(r), UNCHANGED cookie,
         torn => torn', Took(r) => torn'
  PROVE  AtRest' => AtRest
<1>1. authRequests \ {r} \subseteq AuthRequest
  BY DEF SessionInv, AnswersOK, AnswerOK
<1>2. \A q \in authRequests \ {r} : \E p \in authRequests' :
        <<p.landed, p.opened, p.clears>> = <<q.landed, q.opened, q.clears>>
  BY <1>1, OrphanedSame DEF Over
<1> QED BY <1>2, StillOwed

LEMMA HeadersLandKeeps ==
  ASSUME SessionInv, NEW r \in authRequests, HeadersLand(r)
  PROVE  SessionInv'
<1> DEFINE q == [r EXCEPT !.landed = TRUE]
<1>1. r.answer # "none" /\ cookie' = CookieAfter(r) /\ authRequests' = (authRequests \ {r}) \cup {q}
      /\ UNCHANGED <<accounts, sessions, stored, tab, torn, sessionActs>>
  BY DEF HeadersLand
<1>2. AnswerOK(r) /\ r \in AuthRequest /\ r.opened \in 0..Len(sessions)
      /\ cookie \in 0..Len(sessions) /\ Len(sessions) \in Nat
  BY DEF SessionInv, AnswersOK, AnswerOK, SessionsOK
<1>3. q \in AuthRequest /\ q.landed = TRUE /\ q.kind = r.kind /\ q.answer = r.answer /\ q.opened = r.opened
      /\ q.clears = r.clears /\ q.cookie = r.cookie /\ q.who = r.who
  BY <1>2 DEF AuthRequest
<1> HIDE DEF q
<1>4. AnswerOK(q)
  BY <1>1, <1>2, <1>3 DEF AnswerOK
<1>5. AnswersOK'
  <2>1. \A p \in authRequests' : AnswerOK(p)
    BY <1>1, <1>4 DEF SessionInv, AnswersOK
  <2> QED BY <1>1, <2>1, AgeUnchanged, StillOK DEF SessionInv, AnswersOK
<1>6. cookie' \in 0..Len(sessions)
  BY <1>1, <1>2 DEF CookieAfter
<1>7. SessionsOK' /\ TabsOK'
  BY <1>1, <1>6 DEF SessionInv, SessionsOK, TabsOK
<1>8. RestOK'
  <2>1. CASE MovesCookie(r)
    <3>1. cookie' = q.opened /\ MovesCookie(q)
      BY <1>1, <1>2, <1>3, <2>1 DEF MovesCookie, CookieAfter
    <3>2. Took(q)' /\ q \in authRequests'
      BY <1>1, <1>3, <3>1 DEF Took, MovesCookie
    <3> QED BY <3>2 DEF RestOK, AtRest
  <2>2. CASE ~MovesCookie(r)
    <3>1. UNCHANGED cookie /\ ~Took(r)
      BY <1>1, <2>2 DEF MovesCookie, CookieAfter, Took
    <3>2. AtRest' => AtRest
      BY <1>1, <3>1, StillOwed
    <3> QED BY <1>1, <3>1, <3>2, AgeUnchanged, ServedStays DEF SessionInv
  <2> QED BY <2>1, <2>2
<1> QED BY <1>5, <1>7, <1>8 DEF SessionInv

(* A tab that is sent to another page.                                       *)
LEMMA SentElsewhere ==
  ASSUME TabsOK, NEW t, NEW page \in Page, NEW account \in Account \cup {NoAccount},
         tab' = [tab EXCEPT ![t] = Opened(page, account)]
  PROVE  TabsOK'
  BY OpenedIsAllowed DEF TabsOK

LEMMA FormKeeps ==
  ASSUME SessionInv, NEW r, FormAnswered(r)
  PROVE  TabsOK' /\ UNCHANGED stored
  BY DEF FormAnswered, SessionInv, TabsOK, TabState

LEMMA SignedOutKeeps ==
  ASSUME SessionInv, NEW r, SignedOut(r)
  PROVE  TabsOK' /\ stored' = NoAccount
<1>1. "landing" \in Page
  BY DEF Page, PublicPage
<1>2. tab' = [tab EXCEPT ![r.tab] = Opened("landing", NoAccount)] /\ stored' = NoAccount
  BY DEF SignedOut, forget
<1> QED BY <1>1, <1>2, SentElsewhere DEF SessionInv

(* What an answer does to the tabs and to the remembered account.            *)
LEMMA HandledKeeps ==
  ASSUME SessionInv, NEW r \in authRequests, Handled(r)
  PROVE  /\ TabsOK'
         /\ \/ r.kind \in {"login", "register"} /\ r.answer = "ok" /\ stored' = r.who
            \/ (r.kind = "logout" \/ r.answer = "expired") /\ stored' = NoAccount /\ r.opened = 0
            \/ UNCHANGED stored /\ r.opened = 0 /\ r.clears = FALSE
<1>1. AnswerOK(r) /\ r \in AuthRequest /\ TabsOK
  BY DEF SessionInv, AnswersOK, AnswerOK
<1>2. r.who \in Account \cup {NoAccount} /\ r.tab \in Tab /\ tab[r.tab].account \in Account \cup {NoAccount}
      /\ r.clears \in BOOLEAN
  BY <1>1 DEF AuthRequest, TabsOK, TabState
<1>3. {"panel", "signIn"} \subseteq Page
  BY DEF Page, PublicPage, PanelPage
<1>4. ASSUME NEW kind \in {"login", "register"}, SignedIn(r, kind)
      PROVE TabsOK' /\ r.kind \in {"login", "register"} /\ r.answer = "ok" /\ stored' = r.who
  <2>1. tab' = [tab EXCEPT ![r.tab] = Opened("panel", r.who)] /\ r.kind = kind /\ r.answer = "ok" /\ stored' = r.who
    BY <1>4 DEF SignedIn, remember
  <2> QED BY <1>1, <1>2, <1>3, <2>1, SentElsewhere
<1>5. CASE LoginLands(r) \/ RegisterLands(r)
  BY <1>4, <1>5 DEF LoginLands, RegisterLands
<1>6. CASE SignedOut(r)
  <2>1. r.kind = "logout"
    BY <1>6 DEF SignedOut
  <2>2. r.opened = 0
    BY <1>1, <2>1 DEF AnswerOK
  <2> QED BY <1>6, <2>1, <2>2, SignedOutKeeps
<1>7. CASE handleExpiredSession(r)
  <2>1. tab' = [tab EXCEPT ![r.tab] = Opened("signIn", NoAccount)] /\ r.answer = "expired" /\ stored' = NoAccount
    BY <1>7 DEF handleExpiredSession, forget
  <2>2. r.opened = 0
    BY <1>1, <2>1 DEF AnswerOK
  <2>3. TabsOK'
    BY <1>1, <1>3, <2>1, SentElsewhere
  <2> QED BY <2>1, <2>2, <2>3
<1>8. CASE PasswordReset(r)
  <2>1. tab' = [tab EXCEPT ![r.tab] = Opened("signIn", tab[r.tab].account)] /\ UNCHANGED stored
        /\ r.kind = "reset" /\ r.answer = "ok"
    BY <1>8 DEF PasswordReset
  <2>2. r.opened = 0 /\ r.clears = FALSE
    BY <1>1, <1>2, <2>1 DEF AnswerOK
  <2>3. TabsOK'
    BY <1>1, <1>2, <1>3, <2>1, SentElsewhere
  <2> QED BY <2>1, <2>2, <2>3
<1>9. CASE FormAnswered(r)
  <2>1. \/ r.kind \in {"login", "register", "reset"} /\ r.answer # "ok"
        \/ r.kind \in {"forgot", "password", "data"} /\ r.answer # "expired"
    BY <1>9 DEF FormAnswered
  <2>2. r.opened = 0 /\ r.clears = FALSE
    BY <1>1, <1>2, <2>1 DEF AnswerOK
  <2> QED BY <1>9, <2>2, FormKeeps
<1> QED BY <1>5, <1>6, <1>7, <1>8, <1>9 DEF Handled

(* The handler of an answer remembers whom the answer signed in, forgets who  *)
(* was signed out, or leaves both as they are.                               *)
LEMMA AnswerHandledKeeps ==
  ASSUME SessionInv, NEW r \in authRequests, AnswerHandled(r)
  PROVE  SessionInv'
<1>1. Handled(r) /\ Over(r) /\ r.landed /\ UNCHANGED <<accounts, sessions, cookie, sessionActs>>
      /\ torn' = IF MovesCookie(r) THEN ~Took(r) ELSE torn
  BY DEF AnswerHandled
<1>2. AnswerOK(r) /\ r.who \in Account \cup {NoAccount} /\ stored \in Account \cup {NoAccount}
      /\ torn \in BOOLEAN
  BY DEF SessionInv, AnswersOK, AnswerOK, AuthRequest, SessionsOK
<1>3. TabsOK'
  BY <1>1, HandledKeeps
<1>4. torn' \in BOOLEAN
  <2>1. Took(r) \in BOOLEAN
    BY <1>2 DEF Took, AnswerOK, AuthRequest
  <2> QED BY <1>1, <1>2, <2>1
<1>5. CASE r.kind \in {"login", "register"} /\ r.answer = "ok" /\ stored' = r.who
  <2>1. MovesCookie(r) /\ r.opened # 0 /\ sessions[r.opened] \in {r.who, NoAccount}
    BY <1>2, <1>5 DEF MovesCookie, AnswerOK
  <2>2. AtRest' => cookie = r.opened
    <3>1. torn' = ~Took(r)
      BY <1>1, <2>1
    <3> QED BY <3>1 DEF AtRest, Took
  <2>3. RestOK'
    <3>1. AtRest' => cookie' # 0 /\ OwnerOf(cookie)' \in {stored', NoAccount}
      BY <1>1, <1>5, <2>1, <2>2 DEF OwnerOf
    <3> QED BY <3>1 DEF RestOK
  <2> QED BY <1>1, <1>2, <1>3, <1>4, <1>5, <2>3, EndKeeps
<1>6. CASE stored' = NoAccount
  <2>1. RestOK'
    BY <1>6 DEF RestOK
  <2> QED BY <1>1, <1>3, <1>4, <1>6, <2>1, EndKeeps
<1>7. CASE UNCHANGED stored /\ r.opened = 0 /\ r.clears = FALSE
  <2>1. ~MovesCookie(r) /\ ~Took(r)
    BY <1>7 DEF MovesCookie, Took
  <2>2. AtRest' => AtRest
    BY <1>1, <2>1, EndOwes
  <2>3. RestOK'
    BY <1>1, <1>7, <2>2, AgeUnchanged, ServedStays DEF SessionInv
  <2> QED BY <1>1, <1>2, <1>3, <1>4, <1>7, <2>3, EndKeeps
<1> QED BY <1>1, <1>5, <1>6, <1>7, HandledKeeps

LEMMA NetworkFailsKeeps ==
  ASSUME SessionInv, NEW r \in authRequests, NetworkFails(r)
  PROVE  SessionInv'
<1>1. UNCHANGED <<accounts, sessions, cookie, sessionActs>> /\ Over(r) /\ torn' = (torn \/ Took(r))
      /\ (SignedOut(r) \/ FormAnswered([r EXCEPT !.answer = "lost"]))
  BY DEF NetworkFails
<1>2. TabsOK' /\ (stored' = NoAccount \/ UNCHANGED stored)
  BY <1>1, SignedOutKeeps, FormKeeps
<1>3. stored' \in Account \cup {NoAccount}
  BY <1>2 DEF SessionInv, SessionsOK
<1>4. torn' \in BOOLEAN
  BY <1>1
<1>5. RestOK'
  <2>1. CASE stored' = NoAccount
    BY <2>1 DEF RestOK
  <2>2. CASE UNCHANGED stored
    <3>1. AtRest' => AtRest
      BY <1>1, EndOwes
    <3> QED BY <1>1, <2>2, <3>1, AgeUnchanged, ServedStays DEF SessionInv
  <2> QED BY <1>2, <2>1, <2>2
<1> QED BY <1>1, <1>2, <1>3, <1>4, <1>5, EndKeeps

-----------------------------------------------------------------------------
(* The theorems.                                                             *)

LEMMA StutterKeeps == ASSUME SessionInv, UNCHANGED sessionVars PROVE SessionInv'
<1>1. SessionsAge
  BY AgeUnchanged DEF SessionInv, sessionVars
<1>2. AnswersOK'
  BY <1>1, StillOK DEF sessionVars, SessionInv, AnswersOK
<1>3. AtRest' => AtRest
  BY DEF sessionVars, AtRest, Took, MovesCookie
<1>4. SessionsOK' /\ TabsOK'
  BY DEF sessionVars, SessionInv, SessionsOK, TabsOK
<1> QED BY <1>1, <1>2, <1>3, <1>4, ServedStays DEF sessionVars, SessionInv

LEMMA SubmitsKeep ==
  ASSUME SessionInv, NEW t \in Tab, NEW who \in Account, NEW e \in Entry, onSubmit(t, who, e)
  PROVE  SessionInv'
<1>1. CASE submitLogin(t, who, e)
  BY <1>1, SubmitKeeps DEF submitLogin
<1>2. CASE submitSignUp(t, who, e)
  BY <1>2, SubmitKeeps DEF submitSignUp
<1>3. CASE submitSignUpDialog(t, who, e)
  BY <1>3, SubmitKeeps DEF submitSignUpDialog
<1>4. CASE submitForgot(t, who, e)
  BY <1>4, SubmitKeeps DEF submitForgot
<1>5. CASE submitReset(t, who, e)
  BY <1>5, SubmitKeeps DEF submitReset
<1>6. CASE submitPassword(t, who, e)
  BY <1>6, SubmitKeeps DEF submitPassword
<1> QED BY <1>1, <1>2, <1>3, <1>4, <1>5, <1>6 DEF onSubmit

LEMMA SessionInvStep == SessionInv /\ [SessionNext]_sessionVars => SessionInv'
<1> SUFFICES ASSUME SessionInv, [SessionNext]_sessionVars PROVE SessionInv'
  OBVIOUS
<1>1. ASSUME NEW t \in Tab, NEW page \in PublicPage \cup PanelPage, Visit(t, page) PROVE SessionInv'
  BY <1>1, VisitKeeps DEF Page
<1>2. ASSUME NEW t \in Tab, NEW page \in {"landing", "panel"}, readStoredSession(t, page) PROVE SessionInv'
  BY <1>2, ReloadKeeps DEF Page, PublicPage, PanelPage
<1>3. ASSUME NEW t \in Tab, NEW who \in Account, NEW e \in Entry, onSubmit(t, who, e) PROVE SessionInv'
  BY <1>3, SubmitsKeep
<1>4. ASSUME NEW t \in Tab, NEW kind \in {"data", "logout"}, UsePanel(t, kind) PROVE SessionInv'
  BY <1>4, UsePanelKeeps
<1>5. ASSUME NEW r \in authRequests, Serve(r) \/ HeadersLand(r) \/ AnswerHandled(r) \/ NetworkFails(r)
      PROVE SessionInv'
  BY <1>5, ServeKeeps, HeadersLandKeeps, AnswerHandledKeeps, NetworkFailsKeeps
<1>6. CASE SessionsLost
  BY <1>6, LossKeeps
<1>7. CASE UNCHANGED sessionVars
  BY <1>7, StutterKeeps
<1> QED BY <1>1, <1>2, <1>3, <1>4, <1>5, <1>6, <1>7 DEF SessionNext

(* In every reachable state the sessions, the tabs and the requests under     *)
(* way are consistent: the inductive invariant of the two theorems below      *)
(* (lib/session.js, lib/auth.jsx, lib/api.js).                               *)
THEOREM SessionSound == SessionSpec => []SessionInv
<1>1. SessionInv /\ [][SessionNext]_sessionVars => []SessionInv
  BY SessionInvStep, PTL
<1> QED BY <1>1, SessionInvInit, PTL DEF SessionSpec

(* Whatever requests of however many tabs cross: when the last answer that    *)
(* moved the cookie was handled whole, the account in localStorage is not one *)
(* while the cookie is a live session of another (the Set-Cookie with the     *)
(* headers, lib/api.js:113; the handler behind the body, lib/api.js:133 and   *)
(* lib/auth.jsx:76).                                                         *)
THEOREM RememberedServed == SessionSpec => []RememberedIsServed
<1>1. SessionInv => RememberedIsServed
  BY DEF SessionInv, RestOK, RememberedIsServed
<1> QED BY <1>1, SessionSound, PTL

(* And if that answer took the cookie away, nobody is remembered              *)
(* (lib/api.js:83).                                                          *)
THEOREM LostCookieForgotten == SessionSpec => []LostCookieIsForgotten
<1>1. SessionInv => LostCookieIsForgotten
  BY DEF SessionInv, RestOK, LostCookieIsForgotten
<1> QED BY <1>1, SessionSound, PTL

-----------------------------------------------------------------------------
(***************************************************************************)
(* The page behind a QR code.  What it draws, what it reports and how often *)
(* it opens rest on an invariant each.  A page has at most one request that *)
(* is still heard, and that request asks for what is on screen; the views   *)
(* of a page load are the menus it has reported; and a menu whose opening   *)
(* screen was shown is remembered, by the browser or by the page.           *)
(***************************************************************************)

(* The state of the page and of the browser.                               *)

Slug == MenuSlug \cup {NoSlug}

Language == InterfaceLanguage \cup {NoLanguage}
ServedLanguage == {Negotiated(m, l) : m \in MenuSlug, l \in Language} \cup {NoLanguage}

Fetch == [slug : Slug, lang : Language, live : BOOLEAN]
Answer == [slug : Slug, lang : ServedLanguage, menus : SUBSET MenuSlug, asked : Fetch]

VisitRecord == [
  selected : Language, remembered : Language, menu : Answer \cup {NothingDrawn},
  loading : BOOLEAN, error : {"none", "failed", "notFound"}, images : BOOLEAN,
  splash : [decided : BOOLEAN, open : BOOLEAN, held : BOOLEAN, exiting : BOOLEAN],
  reported : SUBSET Slug, visitor : Nat \cup {NoVisitor}]

Browser == [
  embedded : BOOLEAN, storage : BOOLEAN, optout : BOOLEAN, language : Language,
  visitor : Nat \cup {NoVisitor}, splashSeen : SUBSET Slug, loads : Nat, linked : BOOLEAN,
  openings : Seq(Nat \X Slug)]

PageAddress == [slug : Slug, lang : Language]

PageShape ==
  /\ published \subseteq MenuSlug
  /\ browser \in Browser /\ address \in PageAddress /\ visit \in VisitRecord
  /\ fetches \subseteq Fetch
  /\ visitorActs \in 0..MaxVisitorActs

-----------------------------------------------------------------------------
(* What is asked for: one request is heard at most, the one the address and *)
(* the language call for; and what an answer without an error left drawn    *)
(* was asked for that way.                                                 *)

AsksFor(f, v, a) == f.slug = a.slug /\ f.lang = requestLanguage(v, a)

Asking ==
  /\ \A f, g \in fetches : f.live /\ g.live => f = g
  /\ \A f \in fetches : f.live => AsksFor(f, visit, address)
  /\ visit.loading <=> \E f \in fetches : f.live
  /\ ~visit.loading /\ visit.error = "none" /\ visit.menu # NothingDrawn =>
       AsksFor(visit.menu.asked, visit, address)

AskingInv == PageShape /\ Asking

-----------------------------------------------------------------------------
(* What is reported: the views of this page load are of menus it reported,  *)
(* under its visitor; with a storage all of them are the browser's.         *)

Counting ==
  /\ IsFiniteSet(viewEvents)
  /\ \A e \in viewEvents :
       /\ e.load \in Nat /\ e.load <= browser.loads
       /\ e.load = browser.loads => e.slug \in visit.reported
       /\ ~browser.storage /\ e.load = browser.loads => visit.visitor # NoVisitor /\ e.visitor = visit.visitor
       /\ browser.storage => browser.visitor # NoVisitor /\ e.visitor = browser.visitor
  /\ \A d, e \in viewEvents :
       /\ d.load = e.load /\ d.slug = e.slug => d = e
       /\ d.load = e.load => d.visitor = e.visitor
  /\ viewEvents # {} => ~browser.embedded /\ ~browser.optout
  /\ Resolved(visit) /\ ~browser.embedded => visit.menu.slug \in visit.reported

(* What was shown: a menu whose opening screen was shown is in the storage, *)
(* and where there is none, the page has made its decision.                 *)
Showing ==
  \A i \in DOMAIN browser.openings :
    /\ browser.openings[i][1] <= browser.loads
    /\ browser.storage => browser.openings[i][2] \in browser.splashSeen
    /\ browser.openings[i][1] = browser.loads => visit.splash.decided

VisitorInv == AskingInv /\ Counting /\ Showing /\ SplashShownOnce

-----------------------------------------------------------------------------
(* Asking.                                                                 *)

AskingShape == address \in PageAddress /\ visit \in VisitRecord /\ fetches \subseteq Fetch

(* What is asked for depends on what was chosen and on the address alone. *)
LEMMA SameRequest ==
  ASSUME NEW v, NEW w, NEW a, NEW b, v.selected = w.selected, v.remembered = w.remembered, a.lang = b.lang
  PROVE  requestLanguage(v, a) = requestLanguage(w, b)
  BY DEF requestLanguage, choice, addressLanguage

LEMMA RequestTyped ==
  ASSUME NEW v \in VisitRecord, NEW a \in PageAddress
  PROVE  requestLanguage(v, a) \in Language
  BY DEF VisitRecord, PageAddress, requestLanguage, choice, addressLanguage, FirstNamed, Language

LEMMA LoadingKeeps ==
  ASSUME NEW v \in VisitRecord
  PROVE  /\ Loading(v) \in VisitRecord /\ Loading(v).loading = TRUE /\ Loading(v).error = "none"
         /\ Loading(v).selected = v.selected /\ Loading(v).remembered = v.remembered
         /\ Loading(v).menu = v.menu /\ Loading(v).reported = v.reported
         /\ Loading(v).visitor = v.visitor /\ Loading(v).splash = v.splash
  BY DEF VisitRecord, Loading

(* A new request takes the place of the one under way. *)
LEMMA AskedAnew ==
  ASSUME AskingShape, NEW v \in VisitRecord, NEW a \in PageAddress,
         address' = a, visit' = Loading(v), fetches' = Asked(v, a)
  PROVE  AskingShape' /\ Asking'
  <1>1. Loading(v) \in VisitRecord /\ Loading(v).loading = TRUE
        /\ Loading(v).selected = v.selected /\ Loading(v).remembered = v.remembered
    BY LoadingKeeps
  <1>2. requestLanguage(Loading(v), a) = requestLanguage(v, a)
    BY <1>1, SameRequest
  <1>3. PICK new \in Fetch : new = [slug |-> a.slug, lang |-> requestLanguage(v, a), live |-> TRUE]
    BY RequestTyped DEF Fetch, PageAddress
  <1>4. \A f \in Asked(v, a) : f \in Fetch /\ (f.live => f = new)
    <2>1. \A f \in fetches : [f EXCEPT !.live = FALSE] \in Fetch /\ [f EXCEPT !.live = FALSE].live = FALSE
      BY DEF AskingShape, Fetch
    <2> QED  BY <1>3, <2>1 DEF Asked
  <1>5. new \in Asked(v, a) /\ new.live /\ AsksFor(new, Loading(v), a)
    BY <1>2, <1>3 DEF Asked, AsksFor
  <1>6. AskingShape'
    BY <1>1, <1>4 DEF AskingShape
  <1>7. Asking'
    BY <1>1, <1>4, <1>5 DEF Asking, AsksFor
  <1> QED  BY <1>6, <1>7

(* Nothing was asked for, and nothing that is asked for depends on changed. *)
LEMMA NothingAsked ==
  ASSUME AskingShape, Asking, visit' \in VisitRecord, UNCHANGED <<address, fetches>>,
         visit'.selected = visit.selected, visit'.remembered = visit.remembered,
         visit'.loading = visit.loading, visit'.error = visit.error, visit'.menu = visit.menu
  PROVE  AskingShape' /\ Asking'
  <1>1. requestLanguage(visit', address') = requestLanguage(visit, address)
    BY SameRequest
  <1>2. AskingShape'
    BY DEF AskingShape
  <1>3. Asking'
    BY <1>1 DEF Asking, AsksFor
  <1> QED  BY <1>2, <1>3

LEMMA RenderAsks ==
  ASSUME AskingShape, Asking, NEW v \in VisitRecord, NEW a \in PageAddress, Render(v, a),
         v.loading = visit.loading, v.error = visit.error, v.menu = visit.menu
  PROVE  /\ AskingShape' /\ Asking'
         /\ visit'.menu = v.menu /\ visit'.reported = v.reported /\ visit'.visitor = v.visitor
         /\ visit'.splash = v.splash
  <1>1. CASE SamePlace(v, a)
    <2>1. address' = a /\ visit' = v /\ fetches' = fetches
      BY <1>1 DEF Render
    <2>2. AskingShape'
      BY <2>1 DEF AskingShape
    <2>3. Asking'
      BY <1>1, <2>1 DEF Asking, AsksFor, SamePlace
    <2> QED  BY <2>1, <2>2, <2>3
  <1>2. CASE ~SamePlace(v, a)
    <2>1. address' = a /\ visit' = Loading(v) /\ fetches' = Asked(v, a)
      BY <1>2 DEF Render
    <2>2. AskingShape' /\ Asking'
      BY <2>1, AskedAnew
    <2> QED  BY <2>1, <2>2, LoadingKeeps
  <1> QED  BY <1>1, <1>2

(* An answer or a failure ends the one request that is heard. *)
LEMMA AnswerEnds ==
  ASSUME AskingShape, Asking, NEW f \in fetches, f.live, UNCHANGED address,
         fetches' = fetches \ {f}, visit' \in VisitRecord, ~visit'.loading,
         visit'.error # "none" \/ AsksFor(visit'.menu.asked, visit', address)
  PROVE  AskingShape' /\ Asking'
  <1>1. AskingShape'
    BY DEF AskingShape
  <1>2. \A g \in fetches' : ~g.live
    BY DEF Asking
  <1>3. Asking'
    BY <1>2 DEF Asking, AsksFor
  <1> QED  BY <1>1, <1>3

-----------------------------------------------------------------------------
(* Every step but an arrival and an answer leaves the counts alone.         *)

Counted == Counting /\ Showing /\ SplashShownOnce

LEMMA NothingCounted ==
  ASSUME Counted, UNCHANGED viewEvents,
         visit'.menu = visit.menu, visit'.reported = visit.reported, visit'.visitor = visit.visitor,
         visit.splash.decided => visit'.splash.decided,
         browser'.embedded = browser.embedded, browser'.storage = browser.storage,
         browser'.optout = browser.optout, browser'.visitor = browser.visitor,
         browser'.splashSeen = browser.splashSeen, browser'.loads = browser.loads,
         browser'.openings = browser.openings
  PROVE  Counted'
  <1>1. Counting'
    BY DEF Counted, Counting, Resolved
  <1>2. Showing'
    BY DEF Counted, Showing
  <1>3. SplashShownOnce'
    BY DEF Counted, SplashShownOnce
  <1> QED  BY <1>1, <1>2, <1>3 DEF Counted

LEMMA ActCounted ==
  ASSUME visitorActs \in 0..MaxVisitorActs, VisitorAct
  PROVE  visitorActs' \in 0..MaxVisitorActs
  BY VisitorConstants DEF VisitorAct

LEMMA Parts == VisitorInv <=> PageShape /\ Asking /\ Counted
  BY DEF VisitorInv, AskingInv, Counted

LEMMA ShapeParts ==
  PageShape <=> published \subseteq MenuSlug /\ browser \in Browser /\ AskingShape /\ visitorActs \in 0..MaxVisitorActs
  BY DEF PageShape, AskingShape

LEMMA LinkFollowed ==
  ASSUME VisitorInv, NEW linked \in BOOLEAN, NEW slug \in Slug, VisitorAct,
         Render(visit, [address EXCEPT !.slug = slug]),
         browser' = [browser EXCEPT !.linked = linked], UNCHANGED <<published, viewEvents>>
  PROVE  VisitorInv'
  <1>1. PageShape /\ Asking /\ Counted /\ AskingShape /\ visit \in VisitRecord /\ browser \in Browser
    BY Parts, ShapeParts DEF AskingShape
  <1>2. PICK a \in PageAddress : a = [address EXCEPT !.slug = slug]
    BY <1>1 DEF AskingShape, PageAddress
  <1>3. AskingShape' /\ Asking'
        /\ visit'.menu = visit.menu /\ visit'.reported = visit.reported /\ visit'.visitor = visit.visitor
        /\ visit'.splash = visit.splash
    BY <1>1, <1>2, RenderAsks
  <1>4. browser' \in Browser /\ \A field \in {"embedded", "storage", "optout", "visitor", "splashSeen", "loads", "openings"} :
          browser'[field] = browser[field]
    BY <1>1 DEF Browser
  <1>5. Counted'
    BY <1>1, <1>3, <1>4, NothingCounted
  <1>6. PageShape'
    BY <1>1, <1>3, <1>4, ActCounted DEF PageShape, AskingShape
  <1> QED  BY <1>3, <1>5, <1>6 DEF VisitorInv, AskingInv, Counted

LEMMA MenuDirectoryKeeps ==
  ASSUME VisitorInv, NEW slug \in MenuSlug, MenuDirectory(slug)
  PROVE  VisitorInv'
  BY LinkFollowed DEF MenuDirectory, Slug

LEMMA GoBackKeeps ==
  ASSUME VisitorInv, GoBack
  PROVE  VisitorInv'
  BY LinkFollowed DEF GoBack, Slug

LEMMA chooseLanguageKeeps ==
  ASSUME VisitorInv, NEW l \in InterfaceLanguage, chooseLanguage(l)
  PROVE  VisitorInv'
  <1>1. PageShape /\ Asking /\ Counted /\ AskingShape /\ visit \in VisitRecord /\ browser \in Browser /\ l \in Language
    BY Parts, ShapeParts DEF AskingShape, Language
  <1>2. PICK a \in PageAddress :
          a = IF ~browser.embedded /\ address.lang # NoLanguage THEN [address EXCEPT !.lang = l] ELSE address
    BY <1>1 DEF AskingShape, PageAddress
  <1>3. PICK v \in VisitRecord : v = IF l # resolveMenuLanguage(visit, address) THEN [visit EXCEPT !.selected = l] ELSE visit
    BY <1>1 DEF VisitRecord
  <1>4. v.loading = visit.loading /\ v.error = visit.error /\ v.menu = visit.menu
        /\ v.reported = visit.reported /\ v.visitor = visit.visitor /\ v.splash = visit.splash
    BY <1>1, <1>3 DEF VisitRecord
  <1>5. Render(v, a)
    BY <1>2, <1>3 DEF chooseLanguage
  <1>6. AskingShape' /\ Asking'
        /\ visit'.menu = visit.menu /\ visit'.reported = visit.reported /\ visit'.visitor = visit.visitor
        /\ visit'.splash = visit.splash
    BY <1>1, <1>4, <1>5, RenderAsks
  <1>7. browser' = browser \/ browser' = [browser EXCEPT !.language = l]
    BY DEF chooseLanguage, rememberLanguage
  <1>8. /\ browser' \in Browser
        /\ \A field \in {"embedded", "storage", "optout", "visitor", "splashSeen", "loads", "openings"} :
             browser'[field] = browser[field]
    BY <1>1, <1>7 DEF Browser
  <1>9. VisitorAct /\ UNCHANGED <<published, viewEvents>>
    BY DEF chooseLanguage
  <1>10. Counted'
    BY <1>1, <1>6, <1>8, <1>9, NothingCounted
  <1>11. PageShape'
    BY <1>1, <1>6, <1>8, <1>9, ActCounted DEF PageShape, AskingShape
  <1> QED  BY <1>6, <1>10, <1>11, Parts DEF VisitorInv, AskingInv, Counted

LEMMA RetryKeeps ==
  ASSUME VisitorInv, Retry
  PROVE  VisitorInv'
  <1>1. PageShape /\ Asking /\ Counted /\ AskingShape /\ visit \in VisitRecord /\ address \in PageAddress
    BY Parts, ShapeParts DEF AskingShape
  <1>2. AskingShape' /\ Asking'
    BY <1>1, AskedAnew DEF Retry
  <1>3. visit'.menu = visit.menu /\ visit'.reported = visit.reported /\ visit'.visitor = visit.visitor
        /\ visit'.splash = visit.splash
    BY <1>1, LoadingKeeps DEF Retry
  <1>4. Counted'
    BY <1>1, <1>3, NothingCounted DEF Retry
  <1>5. PageShape'
    BY <1>1, <1>2, ActCounted DEF Retry, PageShape, AskingShape
  <1> QED  BY <1>2, <1>4, <1>5 DEF VisitorInv, AskingInv, Counted

(* The opening screen's own steps. *)
LEMMA SplashKeeps ==
  ASSUME VisitorInv, HoldElapsed \/ useImagesReady \/ skip \/ ExitEnds
  PROVE  VisitorInv'
  <1>1. PageShape /\ Asking /\ Counted /\ AskingShape /\ visit \in VisitRecord
    BY Parts, ShapeParts DEF AskingShape
  <1>2. UNCHANGED <<published, browser, address, fetches, viewEvents, visitorActs>>
    BY DEF HoldElapsed, useImagesReady, skip, ExitEnds
  <1>3. /\ visit' \in VisitRecord
        /\ \A field \in {"selected", "remembered", "menu", "loading", "error", "reported", "visitor"} :
             visit'[field] = visit[field]
        /\ visit.splash.decided => visit'.splash.decided
    <2>1. CASE HoldElapsed
      BY <1>1, <2>1 DEF HoldElapsed, Leaving, VisitRecord
    <2>2. CASE useImagesReady
      BY <1>1, <2>2 DEF useImagesReady, Leaving, VisitRecord
    <2>3. CASE skip
      BY <1>1, <2>3 DEF skip, VisitRecord
    <2>4. CASE ExitEnds
      BY <1>1, <2>4 DEF ExitEnds, splashClosed, VisitRecord
    <2> QED  BY <2>1, <2>2, <2>3, <2>4
  <1>4. AskingShape' /\ Asking'
    BY <1>1, <1>2, <1>3, NothingAsked
  <1>5. Counted'
    BY <1>1, <1>2, <1>3, NothingCounted
  <1>6. PageShape'
    BY <1>1, <1>2, <1>4 DEF PageShape, AskingShape
  <1> QED  BY <1>4, <1>5, <1>6 DEF VisitorInv, AskingInv, Counted

LEMMA FailureKeeps ==
  ASSUME VisitorInv, NEW f \in fetches, NotFound(f) \/ FetchFails(f)
  PROVE  VisitorInv'
  <1>1. PageShape /\ Asking /\ Counted /\ AskingShape /\ visit \in VisitRecord
    BY Parts, ShapeParts DEF AskingShape
  <1>2. PICK reason \in {"notFound", "failed"} : visit' = Failed(visit, reason)
    BY DEF NotFound, FetchFails
  <1>3. f.live /\ fetches' = fetches \ {f} /\ UNCHANGED <<published, browser, address, viewEvents>>
        /\ (VisitorAct \/ UNCHANGED visitorActs)
    BY DEF NotFound, FetchFails
  <1>4. /\ visit' \in VisitRecord /\ ~visit'.loading /\ visit'.error # "none"
        /\ visit'.menu = visit.menu /\ visit'.reported = visit.reported /\ visit'.visitor = visit.visitor
        /\ visit'.splash = visit.splash
    BY <1>1, <1>2 DEF Failed, VisitRecord
  <1>5. AskingShape' /\ Asking'
    BY <1>1, <1>3, <1>4, AnswerEnds
  <1>6. Counted'
    BY <1>1, <1>3, <1>4, NothingCounted
  <1>7. PageShape'
    BY <1>1, <1>3, <1>5, ActCounted DEF PageShape, AskingShape
  <1> QED  BY <1>5, <1>6, <1>7 DEF VisitorInv, AskingInv, Counted

LEMMA UnheardKeeps ==
  ASSUME VisitorInv, NEW f \in fetches, Unheard(f)
  PROVE  VisitorInv'
  <1>1. PageShape /\ Asking /\ Counted
    BY Parts
  <1>2. ~f.live /\ fetches' = fetches \ {f} /\ UNCHANGED <<published, browser, address, visit, viewEvents, visitorActs>>
    BY DEF Unheard
  <1>3. Asking'
    BY <1>1, <1>2 DEF Asking, AsksFor
  <1>4. Counted'
    BY <1>1, <1>2, NothingCounted
  <1>5. PageShape'
    BY <1>1, <1>2 DEF PageShape
  <1> QED  BY <1>3, <1>4, <1>5 DEF VisitorInv, AskingInv, Counted

LEMMA OwnerPublishesKeeps ==
  ASSUME VisitorInv, OwnerPublishes
  PROVE  VisitorInv'
  <1>1. PageShape /\ Asking /\ Counted
    BY Parts
  <1>2. UNCHANGED <<browser, address, visit, fetches, viewEvents>> /\ VisitorAct
    BY DEF OwnerPublishes
  <1>3. Asking'
    BY <1>1, <1>2 DEF Asking, AsksFor
  <1>4. Counted'
    BY <1>1, <1>2, NothingCounted
  <1>5. PageShape'
    <2>1. published' \subseteq MenuSlug
      BY <1>1 DEF OwnerPublishes, PageShape
    <2> QED  BY <1>1, <1>2, <2>1, ActCounted DEF PageShape
  <1> QED  BY <1>3, <1>4, <1>5 DEF VisitorInv, AskingInv, Counted

-----------------------------------------------------------------------------
(* A page is opened.                                                       *)

LEMMA NewVisitTyped ==
  ASSUME NEW b \in Browser
  PROVE  /\ NewVisit(b) \in VisitRecord /\ NewVisit(b).loading = TRUE /\ NewVisit(b).menu = NothingDrawn
         /\ NewVisit(b).selected = NoLanguage /\ NewVisit(b).remembered = readRememberedLanguage(b)
  BY DEF NewVisit, readRememberedLanguage, Browser, VisitRecord, Language, splashClosed

LEMMA PageAsks ==
  ASSUME visit' \in VisitRecord, visit'.loading = TRUE, NEW a \in PageAddress, address' = a,
         fetches' = {[slug |-> a.slug, lang |-> requestLanguage(visit', a), live |-> TRUE]}
  PROVE  AskingShape' /\ Asking'
  <1>1. PICK new \in Fetch : new = [slug |-> a.slug, lang |-> requestLanguage(visit', a), live |-> TRUE]
    BY RequestTyped DEF Fetch, PageAddress
  <1> QED  BY <1>1 DEF AskingShape, Asking, AsksFor

LEMMA ArriveKeeps ==
  ASSUME VisitorInv, Arrive
  PROVE  VisitorInv'
  <1>1. PageShape /\ Asking /\ Counted /\ browser \in Browser
    BY Parts, ShapeParts
  <1>2. PICK a \in PageAddress : OpenPage(a)
    <2>1. PICK slug \in MenuSlug \cup {NoSlug}, lang \in InterfaceLanguage \cup {NoLanguage} :
            OpenPage([slug |-> slug, lang |-> lang])
      BY DEF Arrive
    <2> QED  BY <2>1 DEF PageAddress, Slug, Language
  <1>3. visit' \in VisitRecord /\ visit'.loading = TRUE /\ visit'.menu = NothingDrawn
    BY <1>1, <1>2, NewVisitTyped DEF OpenPage
  <1>4. AskingShape' /\ Asking'
    BY <1>2, <1>3, PageAsks DEF OpenPage
  <1>5. UNCHANGED <<published, viewEvents, visitorActs>>
    BY DEF Arrive
  <1>6. /\ browser' \in Browser /\ browser'.loads = browser.loads + 1
        /\ \A field \in {"embedded", "storage", "optout", "visitor", "splashSeen", "openings"} :
             browser'[field] = browser[field]
    <2>1. browser' = [browser EXCEPT !.loads = browser.loads + 1, !.linked = FALSE]
      BY DEF Arrive
    <2>2. browser.loads + 1 \in Nat
      BY <1>1 DEF Browser
    <2>3. PICK n \in Nat : n = browser.loads + 1 /\ browser' = [browser EXCEPT !.loads = n, !.linked = FALSE]
      BY <2>1, <2>2
    <2> QED  BY <1>1, <2>3 DEF Browser
  <1>7. Counting'
    <2>1. \A e \in viewEvents : e.load \in Nat /\ e.load <= browser'.loads /\ e.load # browser'.loads
      <3>1. browser.loads \in Nat
        BY <1>1 DEF Browser
      <3> QED  BY <1>1, <1>6, <3>1 DEF Counted, Counting
    <2>2. ~Resolved(visit')
      BY <1>3 DEF Resolved
    <2> QED  BY <1>1, <1>5, <1>6, <2>1, <2>2 DEF Counted, Counting
  <1>8. Showing' /\ SplashShownOnce'
    <2>1. ASSUME NEW i \in DOMAIN browser.openings
          PROVE  browser.openings[i][1] < browser'.loads
      <3>1. browser.openings[i][1] \in Nat /\ browser.loads \in Nat
        BY <1>1 DEF Browser
      <3> QED  BY <1>1, <1>6, <3>1 DEF Counted, Showing
    <2>2. browser' .openings = browser.openings /\ browser'.loads \in Nat
      BY <1>6 DEF Browser
    <2>3. \A i \in DOMAIN browser.openings : browser.openings[i][1] \in Nat
      BY <1>1 DEF Browser
    <2>4. Showing'
      BY <1>1, <1>6, <2>1, <2>2, <2>3 DEF Counted, Showing
    <2>5. SplashShownOnce'
      BY <1>1, <1>6, <2>2 DEF Counted, SplashShownOnce
    <2> QED  BY <2>4, <2>5
  <1>9. PageShape'
    BY <1>1, <1>4, <1>5, <1>6 DEF PageShape, AskingShape
  <1> QED  BY <1>4, <1>7, <1>8, <1>9 DEF VisitorInv, AskingInv

-----------------------------------------------------------------------------
(* An answer is drawn.                                                     *)

LEMMA PayloadTyped ==
  ASSUME published \subseteq MenuSlug, NEW f \in Fetch
  PROVE  Payload(f) \in Answer /\ Payload(f).asked = f
  <1>1. \A p \in MenuSlug : Negotiated(p, f.lang) \in ServedLanguage
    BY DEF ServedLanguage, Fetch
  <1>2. CASE f.slug \in published
    <2>1. Payload(f) = [slug |-> f.slug, lang |-> Negotiated(f.slug, f.lang), menus |-> published, asked |-> f]
      BY <1>2, VisitorConstants DEF Payload
    <2> QED  BY <1>1, <1>2, <2>1 DEF Answer, Slug
  <1>3. CASE f.slug \notin published /\ f.slug = NoSlug /\ Cardinality(published) = 1
    <2>1. PICK p \in published : p = CHOOSE q \in published : TRUE
      BY <1>3, FS_EmptySet
    <2>2. Payload(f) = [slug |-> p, lang |-> Negotiated(p, f.lang), menus |-> published, asked |-> f]
      BY <1>3, <2>1 DEF Payload
    <2> QED  BY <1>1, <2>1, <2>2 DEF Answer, Slug
  <1>4. CASE f.slug \notin published /\ ~(f.slug = NoSlug /\ Cardinality(published) = 1)
    <2>1. Payload(f) = [slug |-> NoSlug, lang |-> NoLanguage, menus |-> published, asked |-> f]
      BY <1>4 DEF Payload
    <2> QED  BY <2>1 DEF Answer, Slug, ServedLanguage
  <1> QED  BY <1>2, <1>3, <1>4

(* One more view of this load, of a menu it has not reported yet. *)
LEMMA ViewCounted ==
  ASSUME browser \in Browser, visit \in VisitRecord, Counting, NEW m \in Answer, NEW id \in Nat,
         trackMenuEvent(m), id = getVisitorId,
         NEW n, viewEvents' = viewEvents \cup {[load |-> browser.loads, slug |-> m.slug, visitor |-> id, number |-> n]},
         visit'.menu = m, visit'.reported = visit.reported \cup {m.slug}, visit'.visitor = id,
         browser'.embedded = browser.embedded, browser'.storage = browser.storage,
         browser'.optout = browser.optout, browser'.loads = browser.loads,
         browser'.visitor = IF browser.storage THEN id ELSE browser.visitor
  PROVE  Counting'
  <1>1. PICK new : new = [load |-> browser.loads, slug |-> m.slug, visitor |-> id, number |-> n]
    OBVIOUS
  <1>2. /\ new.load = browser.loads /\ new.slug = m.slug /\ new.visitor = id /\ viewEvents' = viewEvents \cup {new}
        /\ browser.loads \in Nat /\ id # NoVisitor /\ browser.storage \in BOOLEAN
    BY <1>1, VisitorConstants DEF Browser
  <1>3. IsFiniteSet(viewEvents')
    BY <1>2, FS_AddElement DEF Counting
  <1>4. ~browser.embedded /\ ~browser.optout /\ m.slug \notin visit.reported
    BY DEF trackMenuEvent, Reports
  <1>5. \A e \in viewEvents : e.load = browser.loads => e.slug # m.slug
    BY <1>4 DEF Counting
  <1>6. \A e \in viewEvents : browser.storage \/ e.load = browser.loads => e.visitor = id
    BY DEF Counting, getVisitorId
  <1>7. \A e \in viewEvents' :
          /\ e.load \in Nat /\ e.load <= browser.loads
          /\ e.load = browser.loads => e.slug \in visit'.reported
          /\ browser.storage \/ e.load = browser.loads => e.visitor = id
    BY <1>2, <1>6 DEF Counting
  <1>8. \A d, e \in viewEvents' :
          /\ d.load = e.load /\ d.slug = e.slug => d = e
          /\ d.load = e.load => d.visitor = e.visitor
    BY <1>2, <1>5, <1>6 DEF Counting
  <1> QED  BY <1>2, <1>3, <1>4, <1>7, <1>8 DEF Counting

(* No view of this answer: it was reported before, or nothing may be. *)
LEMMA NoViewCounted ==
  ASSUME browser \in Browser, visit \in VisitRecord, Counting, NEW m \in Answer, ~trackMenuEvent(m),
         viewEvents' = viewEvents,
         visit'.menu = m, visit'.visitor = visit.visitor,
         visit'.reported = IF Reports(m) THEN visit.reported \cup {m.slug} ELSE visit.reported,
         browser'.embedded = browser.embedded, browser'.storage = browser.storage,
         browser'.optout = browser.optout, browser'.loads = browser.loads,
         browser'.visitor = browser.visitor
  PROVE  Counting'
  <1>1. visit.reported \subseteq visit'.reported
    OBVIOUS
  <1>2. Resolved(visit') /\ ~browser.embedded => m.slug \in visit'.reported
    BY DEF Resolved, Reports
  <1> QED  BY <1>1, <1>2 DEF Counting

(* The opening screen opens where it was not open, or stays as it is. *)
LEMMA ScreenShown ==
  ASSUME browser \in Browser, visit \in VisitRecord, Showing, SplashShownOnce, NEW m \in Answer, NEW open \in BOOLEAN,
         open = IF visit.splash.decided THEN visit.splash.open ELSE shouldOpenSplash(m),
         visit'.splash.decided,
         browser'.storage = browser.storage, browser'.loads = browser.loads,
         browser'.splashSeen = IF open /\ browser.storage THEN browser.splashSeen \cup {m.slug} ELSE browser.splashSeen,
         browser'.openings = IF open /\ ~visit.splash.open THEN Append(browser.openings, <<browser.loads, m.slug>>)
                             ELSE browser.openings
  PROVE  Showing' /\ SplashShownOnce'
  <1>1. /\ browser.openings \in Seq(Nat \X Slug) /\ browser.loads \in Nat /\ browser.storage \in BOOLEAN
        /\ browser.splashSeen \subseteq browser'.splashSeen
    BY DEF Browser
  <1>2. CASE ~(open /\ ~visit.splash.open)
    BY <1>1, <1>2 DEF Showing, SplashShownOnce
  <1>3. CASE open /\ ~visit.splash.open
    <2>1. ~visit.splash.decided /\ shouldOpenSplash(m)
      BY <1>3
    <2>2. PICK k \in Nat : k = Len(browser.openings)
      BY <1>1
    <2>3. /\ DOMAIN browser.openings = 1..k /\ DOMAIN browser'.openings = 1..(k + 1)
          /\ \A i \in 1..k : browser'.openings[i] = browser.openings[i]
          /\ browser'.openings[k + 1] = <<browser.loads, m.slug>>
      <3>1. PICK s \in Seq(Nat \X Slug) : s = browser.openings
        BY <1>1
      <3>2. PICK o \in Nat \X Slug : o = <<browser.loads, m.slug>>
        BY <1>1 DEF Answer
      <3>3. browser'.openings = Append(s, o)
        BY <1>3, <3>1, <3>2
      <3>4. /\ DOMAIN s = 1..k /\ DOMAIN Append(s, o) = 1..(k + 1)
            /\ \A i \in 1..k : Append(s, o)[i] = s[i]
            /\ Append(s, o)[k + 1] = o
        BY <2>2, <3>1
      <3> QED  BY <3>1, <3>2, <3>3, <3>4
    <2>4. browser.storage => m.slug \notin browser.splashSeen /\ m.slug \in browser'.splashSeen
      BY <1>3, <2>1 DEF shouldOpenSplash
    <2>5. \A i \in 1..k : /\ browser.openings[i][1] <= browser.loads /\ browser.openings[i][1] # browser.loads
                          /\ browser.storage => browser.openings[i][2] \in browser.splashSeen
      BY <2>1, <2>3 DEF Showing
    <2>6. Showing'
      BY <1>1, <2>3, <2>4, <2>5 DEF Showing
    <2>7. SplashShownOnce'
      <3> SUFFICES ASSUME NEW i \in 1..(k + 1), NEW j \in 1..(k + 1), i # j,
                          browser'.openings[i][2] = browser'.openings[j][2]
                   PROVE  ~browser.storage /\ browser'.openings[i][1] # browser'.openings[j][1]
        BY <2>3 DEF SplashShownOnce
      <3>1. CASE i # k + 1 /\ j # k + 1
        <4>1. i \in 1..k /\ j \in 1..k
          BY <2>2, <3>1
        <4> QED  BY <2>3, <4>1 DEF SplashShownOnce
      <3>2. CASE i = k + 1
        <4>1. j \in 1..k
          BY <2>2, <3>2
        <4> QED  BY <2>3, <2>4, <2>5, <3>2, <4>1
      <3>3. CASE j = k + 1
        <4>1. i \in 1..k
          BY <2>2, <3>3
        <4> QED  BY <2>3, <2>4, <2>5, <3>3, <4>1
      <3> QED  BY <3>1, <3>2, <3>3
    <2> QED  BY <2>6, <2>7
  <1> QED  BY <1>2, <1>3

LEMMA DrawnTyped ==
  ASSUME browser \in Browser, visit \in VisitRecord, NEW m \in Answer
  PROVE  /\ Drawn(visit, m) \in VisitRecord /\ Drawn(visit, m).menu = m
         /\ Drawn(visit, m).loading = FALSE /\ Drawn(visit, m).error = "none"
         /\ \A field \in {"selected", "remembered", "reported", "visitor"} : Drawn(visit, m)[field] = visit[field]
         /\ Drawn(visit, m).splash.decided
         /\ Drawn(visit, m).splash.open = IF visit.splash.decided THEN visit.splash.open ELSE shouldOpenSplash(m)
  <1>1. shouldOpenSplash(m) \in BOOLEAN
    BY DEF shouldOpenSplash, Browser
  <1>2. PICK s \in [decided : BOOLEAN, open : BOOLEAN, held : BOOLEAN, exiting : BOOLEAN] : s = Decided(visit, m)
    BY <1>1 DEF Decided, splashClosed, VisitRecord
  <1>3. s.decided /\ s.open = IF visit.splash.decided THEN visit.splash.open ELSE shouldOpenSplash(m)
    BY <1>1, <1>2 DEF Decided, splashClosed, VisitRecord
  <1>4. PICK z \in [decided : BOOLEAN, open : BOOLEAN, held : BOOLEAN, exiting : BOOLEAN] :
          z = (IF m.slug = NoSlug THEN [s EXCEPT !.held = FALSE, !.exiting = FALSE] ELSE s)
    <2>1. [s EXCEPT !.held = FALSE, !.exiting = FALSE]
            \in [decided : BOOLEAN, open : BOOLEAN, held : BOOLEAN, exiting : BOOLEAN]
      OBVIOUS
    <2>2. CASE m.slug = NoSlug
      BY <2>1, <2>2
    <2>3. CASE m.slug # NoSlug
      BY <2>3
    <2> QED  BY <2>2, <2>3
  <1>5. z.decided = s.decided /\ z.open = s.open
    BY <1>4
  <1>6. PICK images \in BOOLEAN : images = (visit.images /\ m.slug # NoSlug)
    OBVIOUS
  <1>7. PICK d \in VisitRecord :
          d = [visit EXCEPT !.menu = m, !.loading = FALSE, !.error = "none", !.images = images, !.splash = z]
    BY DEF VisitRecord
  <1>8. d = Drawn(visit, m)
    BY <1>2, <1>4, <1>6, <1>7 DEF Drawn
  <1>9. /\ d.menu = m /\ d.loading = FALSE /\ d.error = "none" /\ d.splash = z
        /\ d.selected = visit.selected /\ d.remembered = visit.remembered
        /\ d.reported = visit.reported /\ d.visitor = visit.visitor
    BY <1>7 DEF VisitRecord
  <1>10. \A field \in {"selected", "remembered", "reported", "visitor"} : d[field] = visit[field]
    BY <1>9
  <1>11. d.splash.decided /\ d.splash.open = IF visit.splash.decided THEN visit.splash.open ELSE shouldOpenSplash(m)
    BY <1>3, <1>5, <1>9
  <1> QED  BY <1>7, <1>8, <1>9, <1>10, <1>11

LEMMA MenuLandsKeeps ==
  ASSUME VisitorInv, NEW f \in fetches, MenuLands(f)
  PROVE  VisitorInv'
  <1>1. /\ PageShape /\ Asking /\ Counted /\ AskingShape
        /\ published \subseteq MenuSlug /\ browser \in Browser /\ address \in PageAddress /\ visit \in VisitRecord
        /\ fetches \subseteq Fetch
    BY Parts, ShapeParts DEF AskingShape
  <1>2. PICK m \in Answer : m = Payload(f) /\ m.asked = f
    BY <1>1, PayloadTyped
  <1>3. PICK id \in Nat : getVisitorId \in Nat => id = getVisitorId
    OBVIOUS
  <1>4. id = getVisitorId
    <2>1. Cardinality(viewEvents) \in Nat
      BY <1>1, FS_CardinalityType DEF Counted, Counting
    <2>2. getVisitorId \in Nat
      BY <1>1, <2>1 DEF getVisitorId, Browser, VisitRecord
    <2> QED  BY <1>3, <2>2
  <1>5. PICK d \in VisitRecord : d = Drawn(visit, m)
    BY <1>1, DrawnTyped
  <1>6. PICK v \in VisitRecord :
          v = [d EXCEPT !.reported = IF Reports(m) THEN @ \cup {m.slug} ELSE @,
                        !.visitor = IF trackMenuEvent(m) THEN id ELSE @]
    BY DEF VisitRecord, Answer
  <1>7. /\ v.menu = m /\ v.loading = FALSE /\ v.error = "none" /\ v.splash = d.splash
        /\ v.selected = visit.selected /\ v.remembered = visit.remembered
        /\ v.reported = IF Reports(m) THEN visit.reported \cup {m.slug} ELSE visit.reported
        /\ v.visitor = IF trackMenuEvent(m) THEN id ELSE visit.visitor
    <2>1. /\ d.menu = m /\ d.loading = FALSE /\ d.error = "none"
          /\ d.selected = visit.selected /\ d.remembered = visit.remembered
          /\ d.reported = visit.reported /\ d.visitor = visit.visitor
      BY <1>1, <1>5, DrawnTyped
    <2> QED  BY <1>6, <2>1 DEF VisitRecord
  <1>8. PICK a \in PageAddress : a = RealAddress(m) /\ a.lang = address.lang
    <2>1. m.slug \in Slug
      BY DEF Answer
    <2>2. PICK b \in PageAddress : b = [address EXCEPT !.slug = m.slug]
      BY <1>1, <2>1 DEF PageAddress
    <2>3. b.lang = address.lang
      BY <1>1, <2>2 DEF PageAddress
    <2>4. RealAddress(m) \in {b, address}
      BY <2>2 DEF RealAddress
    <2> QED  BY <1>1, <2>3, <2>4
  <1>9. /\ f.live
        /\ browser' = [browser EXCEPT
             !.splashSeen = IF v.splash.open /\ browser.storage THEN @ \cup {m.slug} ELSE @,
             !.visitor = IF trackMenuEvent(m) /\ browser.storage THEN id ELSE @,
             !.openings = IF v.splash.open /\ ~visit.splash.open THEN Append(@, <<browser.loads, m.slug>>) ELSE @]
        /\ viewEvents' = IF trackMenuEvent(m)
                         THEN viewEvents \cup {[load |-> browser.loads, slug |-> m.slug, visitor |-> id,
                                                number |-> Cardinality(viewEvents) + 1]}
                         ELSE viewEvents
        /\ address' = a
        /\ IF a = address
           THEN visit' = v /\ fetches' = fetches \ {f}
           ELSE /\ visit' = Loading(v)
                /\ fetches' = (fetches \ {f}) \cup {[slug |-> a.slug, lang |-> f.lang, live |-> TRUE]}
        /\ UNCHANGED <<published, visitorActs>>
    BY <1>2, <1>4, <1>5, <1>6, <1>8 DEF MenuLands
  <1>10. visit' \in VisitRecord /\ visit'.menu = m /\ visit'.reported = v.reported /\ visit'.visitor = v.visitor
         /\ visit'.splash = v.splash
    BY <1>7, <1>9, LoadingKeeps
  <1>11. AsksFor(f, v, a) \/ a # address
    <2>1. requestLanguage(v, address) = requestLanguage(visit, address)
      BY <1>7, SameRequest
    <2> QED  BY <1>1, <1>9, <2>1 DEF Asking, AsksFor
  <1>12. AskingShape' /\ Asking'
    <2>1. CASE a = address
      <3>1. UNCHANGED address /\ visit' = v /\ fetches' = fetches \ {f}
        BY <1>9, <2>1
      <3>2. AsksFor(visit'.menu.asked, visit', address)
        BY <1>2, <1>7, <1>11, <2>1, <3>1
      <3> QED  BY <1>1, <1>7, <1>9, <3>1, <3>2, AnswerEnds
    <2>2. CASE a # address
      <3>1. visit' = Loading(v) /\ fetches' = (fetches \ {f}) \cup {[slug |-> a.slug, lang |-> f.lang, live |-> TRUE]}
        BY <1>9, <2>2
      <3>2. PICK new \in Fetch : new = [slug |-> a.slug, lang |-> f.lang, live |-> TRUE]
        BY <1>1 DEF Fetch, PageAddress
      <3>3. requestLanguage(visit', a) = requestLanguage(visit, address)
        <4>1. visit'.selected = visit.selected /\ visit'.remembered = visit.remembered
          BY <1>7, <3>1, LoadingKeeps
        <4> QED  BY <1>8, <4>1, SameRequest
      <3>4. AsksFor(new, visit', a)
        BY <1>1, <1>9, <3>2, <3>3 DEF Asking, AsksFor
      <3>5. visit'.loading = TRUE
        BY <3>1, LoadingKeeps
      <3>6. \A g \in fetches' : g \in Fetch /\ (g.live => g = new)
        BY <1>1, <1>9, <3>1, <3>2 DEF Asking
      <3>7. new \in fetches' /\ new.live
        BY <3>1, <3>2
      <3>8. AskingShape'
        BY <1>9, <1>10, <3>6 DEF AskingShape
      <3>9. Asking'
        BY <1>9, <3>4, <3>5, <3>6, <3>7 DEF Asking
      <3> QED  BY <3>8, <3>9
    <2> QED  BY <2>1, <2>2
  <1>13. PICK b \in Browser :
           /\ b = browser'
           /\ \A field \in {"embedded", "storage", "optout", "loads"} : b[field] = browser[field]
           /\ b.splashSeen = IF v.splash.open /\ browser.storage THEN browser.splashSeen \cup {m.slug}
                             ELSE browser.splashSeen
           /\ b.visitor = IF trackMenuEvent(m) /\ browser.storage THEN id ELSE browser.visitor
           /\ b.openings = IF v.splash.open /\ ~visit.splash.open
                           THEN Append(browser.openings, <<browser.loads, m.slug>>) ELSE browser.openings
    <2>1. PICK seen \in SUBSET Slug :
            seen = IF v.splash.open /\ browser.storage THEN browser.splashSeen \cup {m.slug} ELSE browser.splashSeen
      BY <1>1 DEF Browser, Answer
    <2>2. PICK who \in Nat \cup {NoVisitor} :
            who = IF trackMenuEvent(m) /\ browser.storage THEN id ELSE browser.visitor
      BY <1>1 DEF Browser
    <2>3. PICK shown \in Seq(Nat \X Slug) :
            shown = IF v.splash.open /\ ~visit.splash.open
                    THEN Append(browser.openings, <<browser.loads, m.slug>>) ELSE browser.openings
      <3>1. PICK s \in Seq(Nat \X Slug) : s = browser.openings
        BY <1>1 DEF Browser
      <3>2. PICK o \in Nat \X Slug : o = <<browser.loads, m.slug>>
        BY <1>1 DEF Browser, Answer
      <3>3. Append(s, o) \in Seq(Nat \X Slug)
        OBVIOUS
      <3> QED  BY <3>1, <3>2, <3>3
    <2>4. browser' = [browser EXCEPT !.splashSeen = seen, !.visitor = who, !.openings = shown]
      BY <1>9, <2>1, <2>2, <2>3
    <2>5. PICK b \in Browser : b = [browser EXCEPT !.splashSeen = seen, !.visitor = who, !.openings = shown]
      BY <1>1 DEF Browser
    <2>6. /\ \A field \in {"embedded", "storage", "optout", "loads"} : b[field] = browser[field]
          /\ b.splashSeen = seen /\ b.visitor = who /\ b.openings = shown
      BY <1>1, <2>5 DEF Browser
    <2> QED  BY <2>1, <2>2, <2>3, <2>4, <2>5, <2>6
  <1>14. Counting'
    <2>1. CASE trackMenuEvent(m)
      <3>1. Reports(m)
        BY <2>1 DEF trackMenuEvent
      <3> QED  BY <1>1, <1>4, <1>7, <1>9, <1>10, <1>13, <2>1, <3>1, ViewCounted DEF Counted
    <2>2. CASE ~trackMenuEvent(m)
      BY <1>1, <1>7, <1>9, <1>10, <1>13, <2>2, NoViewCounted DEF Counted
    <2> QED  BY <2>1, <2>2
  <1>15. Showing' /\ SplashShownOnce'
    <2>1. /\ d.splash.decided
          /\ d.splash.open = IF visit.splash.decided THEN visit.splash.open ELSE shouldOpenSplash(m)
      BY <1>1, <1>5, DrawnTyped
    <2>2. v.splash.open \in BOOLEAN
      BY DEF VisitRecord
    <2> QED  BY <1>1, <1>7, <1>10, <1>13, <2>1, <2>2, ScreenShown DEF Counted
  <1>16. PageShape'
    BY <1>1, <1>9, <1>12, <1>13 DEF PageShape, AskingShape
  <1> QED  BY <1>12, <1>14, <1>15, <1>16 DEF VisitorInv, AskingInv

-----------------------------------------------------------------------------
(* The start, every step, and what the invariant says.                     *)

LEMMA VisitorStarts ==
  ASSUME VisitorInit
  PROVE  VisitorInv
  <1>1. /\ browser \in Browser /\ browser.loads = 1 /\ browser.openings = <<>> /\ browser.language = NoLanguage
        /\ address \in PageAddress /\ address.lang = NoLanguage
    <2>1. NoLanguage \in Language /\ MenuSlug \cup {NoSlug} = Slug
      BY DEF Language, Slug
    <2>2. <<>> \in Seq(Nat \X Slug) /\ {} \in SUBSET Slug /\ 1 \in Nat
      OBVIOUS
    <2>3. browser \in Browser
      BY <2>1, <2>2 DEF VisitorInit, Browser
    <2>4. address \in PageAddress /\ address.lang = NoLanguage
      BY <2>1 DEF VisitorInit, PageAddress
    <2>5. browser.loads = 1 /\ browser.openings = <<>> /\ browser.language = NoLanguage
      BY DEF VisitorInit
    <2> QED  BY <2>3, <2>4, <2>5
  <1>2. visit \in VisitRecord /\ visit.loading = TRUE /\ visit.menu = NothingDrawn
        /\ visit.selected = NoLanguage /\ visit.remembered = NoLanguage
    BY <1>1, NewVisitTyped DEF VisitorInit, readRememberedLanguage
  <1>3. requestLanguage(visit, address) = NoLanguage
    BY <1>1, <1>2 DEF requestLanguage, choice, addressLanguage, FirstNamed
  <1>4. PICK new \in Fetch : new = [slug |-> address.slug, lang |-> NoLanguage, live |-> TRUE]
    BY <1>1 DEF Fetch, PageAddress, Language
  <1>5. fetches = {new} /\ viewEvents = {} /\ visitorActs = 0 /\ published \subseteq MenuSlug
    BY <1>4 DEF VisitorInit
  <1>6. PageShape
    BY <1>1, <1>2, <1>5, VisitorConstants DEF PageShape
  <1>7. Asking
    BY <1>2, <1>3, <1>4, <1>5 DEF Asking, AsksFor
  <1>8. Counting
    BY <1>2, <1>5, FS_EmptySet DEF Counting, Resolved
  <1>9. Showing /\ SplashShownOnce
    BY <1>1 DEF Showing, SplashShownOnce
  <1> QED  BY <1>6, <1>7, <1>8, <1>9 DEF VisitorInv, AskingInv

LEMMA VisitorSteps ==
  ASSUME VisitorInv, [VisitorNext]_visitorVars
  PROVE  VisitorInv'
  <1>1. CASE UNCHANGED visitorVars
    <2>1. PageShape' /\ Asking'
      BY <1>1 DEF visitorVars, VisitorInv, AskingInv, PageShape, Asking, AsksFor
    <2>2. Counting' /\ Showing' /\ SplashShownOnce'
      BY <1>1 DEF visitorVars, VisitorInv, Counting, Resolved, Showing, SplashShownOnce
    <2> QED  BY <2>1, <2>2 DEF VisitorInv, AskingInv
  <1>2. CASE Arrive \/ GoBack \/ Retry \/ OwnerPublishes
    BY <1>2, ArriveKeeps, GoBackKeeps, RetryKeeps, OwnerPublishesKeeps
  <1>3. CASE \E m \in MenuSlug : MenuDirectory(m)
    BY <1>3, MenuDirectoryKeeps
  <1>4. CASE \E l \in InterfaceLanguage : chooseLanguage(l)
    BY <1>4, chooseLanguageKeeps
  <1>5. CASE HoldElapsed \/ useImagesReady \/ skip \/ ExitEnds
    BY <1>5, SplashKeeps
  <1>6. CASE \E f \in fetches : MenuLands(f) \/ NotFound(f) \/ FetchFails(f) \/ Unheard(f)
    BY <1>6, MenuLandsKeeps, FailureKeeps, UnheardKeeps
  <1> QED  BY <1>1, <1>2, <1>3, <1>4, <1>5, <1>6 DEF VisitorNext

LEMMA VisitorShaped ==
  ASSUME VisitorInv
  PROVE  VisitorTypeOK
  <1>1. PageShape /\ Asking
    BY DEF VisitorInv, AskingInv
  <1>2. Cardinality({f \in fetches : f.live}) <= 1
    <2>1. CASE {f \in fetches : f.live} = {}
      BY <2>1, FS_EmptySet
    <2>2. CASE {f \in fetches : f.live} # {}
      <3>1. PICK f \in fetches : f.live
        BY <2>2
      <3>2. {g \in fetches : g.live} = {f}
        BY <1>1, <3>1 DEF Asking
      <3>3. Cardinality({f}) = 1
        BY FS_Singleton
      <3> QED  BY <3>2, <3>3
    <2> QED  BY <2>1, <2>2
  <1> QED  BY <1>1, <1>2 DEF PageShape, Asking, PageAddress, VisitRecord, Slug, VisitorTypeOK

(* CustomerMenu.jsx, lib/analytics.js, SplashScreen: at every moment at most *)
(* one request of the page is heard, the views of a load are the menus it    *)
(* reported, and no opening screen is forgotten.                           *)
THEOREM VisitorKeepsInv == VisitorSpec => []VisitorInv
  <1>1. VisitorInit => VisitorInv
    BY VisitorStarts
  <1>2. VisitorInv /\ [VisitorNext]_visitorVars => VisitorInv'
    BY VisitorSteps
  <1> QED  BY <1>1, <1>2, PTL DEF VisitorSpec

(* The page is in shape: it says it is loading exactly while one request is *)
(* heard, and it never hears two.                                          *)
THEOREM VisitorTyping == VisitorSpec => []VisitorTypeOK
  <1>1. VisitorInv => VisitorTypeOK
    BY VisitorShaped
  <1> QED  BY <1>1, VisitorKeepsInv, PTL

(* CustomerMenu.jsx, the effect that loads the menu: with any menus,        *)
(* languages, links followed and answers in any order, a settled page shows *)
(* the answer to the address and the language on screen.                    *)
THEOREM DrawnAsked == VisitorSpec => []DrawnIsAsked
  <1>1. VisitorInv => DrawnIsAsked
    BY DEF VisitorInv, AskingInv, Asking, AsksFor, DrawnIsAsked, Settled
  <1> QED  BY <1>1, VisitorKeepsInv, PTL

(* lib/analytics.js, trackMenuEvent and getVisitorId: a menu is reported once *)
(* a page load and always under one visitor, and nothing is reported by a   *)
(* browser that opted out.                                                 *)
THEOREM ViewsCounted == VisitorSpec => []ViewsCountedOnce
  <1>1. VisitorInv => ViewsCountedOnce
    BY DEF VisitorInv, Counting, ViewsCountedOnce
  <1> QED  BY <1>1, VisitorKeepsInv, PTL

(* SplashScreen, shouldOpenSplash: whatever is fetched again and however    *)
(* often the page is opened, a menu's opening screen is shown once to a     *)
(* browser session, or once to a page load where storage refuses.           *)
THEOREM SplashOnce == VisitorSpec => []SplashShownOnce
  <1>1. VisitorInv => SplashShownOnce
    BY DEF VisitorInv
  <1> QED  BY <1>1, VisitorKeepsInv, PTL

-----------------------------------------------------------------------------
(* The sheet.                                                               *)

GestureOn(s) ==
  [pointer : Pointer, sheet : {s}, startY : Height, previousY : Height, lastY : Height, sampled : Pause \cup {0}]

(* A gesture belongs to the sheet that is up, and no sheet, no gesture.       *)
SheetInv ==
  /\ sheetProduct \in Product \cup {NoProduct}
  /\ drag \in {NoDrag} \cup GestureOn(sheets)
  /\ SheetStandsAlone

(* The answers a sheet opens with are answers to its groups.                 *)
LEMMA DefaultsAreAnswers ==
  ASSUME NEW p \in Product \cup {NoProduct}
  PROVE  /\ DOMAIN defaultSelections(p) = DOMAIN optionGroupsOf(p)
         /\ \A i \in DOMAIN defaultSelections(p) :
              LET group == optionGroupsOf(p)[i]
              IN /\ defaultSelections(p)[i] \subseteq DOMAIN group.prices
                 /\ group.type = "single" => Cardinality(defaultSelections(p)[i]) <= 1
                 /\ group.type = "single" /\ group.required => defaultSelections(p)[i] # {}
<1>1. ASSUME NEW i \in DOMAIN optionGroupsOf(p)
      PROVE  /\ p \in Product /\ optionGroupsOf(p) = OptionGroups[p]
             /\ OptionGroups[p][i].prices \in Seq(Nat) \ {<<>>}
  <2>1. p \in Product /\ optionGroupsOf(p) = OptionGroups[p]
    BY <1>1 DEF optionGroupsOf
  <2>2. \A X : \A s \in Seq(X) : \A k \in DOMAIN s : s[k] \in X
    OBVIOUS
  <2>3. OptionGroups[p][i] \in [type : {"single", "multiple"}, required : BOOLEAN, prices : Seq(Nat) \ {<<>>}]
    BY <1>1, <2>1, <2>2, SheetConstants
  <2> QED BY <2>1, <2>3
<1>2. ASSUME NEW s \in Seq(Nat), s # <<>> PROVE 1 \in DOMAIN s
  BY <1>2
<1>3. Cardinality({1}) = 1 /\ Cardinality({}) = 0
  BY FS_Singleton, FS_EmptySet
<1>4. ASSUME NEW i \in DOMAIN optionGroupsOf(p) PROVE 1 \in DOMAIN optionGroupsOf(p)[i].prices
  BY <1>1, <1>2
<1> QED
  BY <1>3, <1>4 DEF defaultSelections

(* A product that comes to the sheet, or leaves it, finds it as new.          *)
LEMMA ResetStands ==
  ASSUME NEW p \in Product \cup {NoProduct}, SheetReset(p),
         sheetEnd'.gesture \in {0, sheetEnd'.sheet}
  PROVE  SheetInv'
<1>1. optionGroupsOf(sheetProduct)' = optionGroupsOf(p) /\ selections' = defaultSelections(p)
  BY DEF SheetReset, optionGroupsOf
<1>2. SheetIsItsProducts'
  <2>1. dragOffset' = 0 
    BY DEF SheetReset
  <2> QED
    BY <1>1, <2>1, DefaultsAreAnswers DEF SheetIsItsProducts
<1> QED
  BY <1>2 DEF SheetReset, SheetInv, SheetStandsAlone, OwnGestureOnly

LEMMA AnswerStands == ASSUME SheetInv, ChooseOption PROVE SheetInv'
<1>0. PICK i \in DOMAIN optionGroupsOf(sheetProduct) :
        \E item \in DOMAIN optionGroupsOf(sheetProduct)[i].prices :
          chooseSingle(i, item) \/ toggleMultiple(i, item)
  BY DEF ChooseOption
<1>1. PICK item \in DOMAIN optionGroupsOf(sheetProduct)[i].prices :
        chooseSingle(i, item) \/ toggleMultiple(i, item)
  BY <1>0
<1>2. UNCHANGED <<sheetProduct, drag, dragOffset, sheets, sheetEnd>>
  BY DEF ChooseOption
<1>3. optionGroupsOf(sheetProduct)' = optionGroupsOf(sheetProduct)
  BY <1>2 DEF optionGroupsOf
<1>4. SheetIsItsProducts'
  <2> DEFINE group == optionGroupsOf(sheetProduct)[i]
  <2>0. SheetIsItsProducts
    BY DEF SheetInv, SheetStandsAlone
  <2>1. DOMAIN selections' = DOMAIN selections /\ \A j \in DOMAIN selections : j # i => selections'[j] = selections[j]
    BY <1>1, <2>0 DEF chooseSingle, toggleMultiple
  <2>2. /\ selections'[i] \subseteq DOMAIN group.prices
        /\ group.type = "single" => Cardinality(selections'[i]) <= 1
        /\ group.type = "single" /\ group.required => selections'[i] # {}
    <3>1. CASE chooseSingle(i, item)
      <4>1. selections'[i] = {item}
        BY <3>1, <2>0 DEF chooseSingle, SheetIsItsProducts
      <4>2. Cardinality({item}) = 1
        BY FS_Singleton
      <4> QED
        BY <4>1, <4>2
    <3>2. CASE toggleMultiple(i, item)
      <4>1. group.type # "single"
        BY <3>2 DEF toggleMultiple
      <4>2. selections'[i] \in {selections[i] \ {item}, selections[i] \cup {item}}
        BY <3>2, <2>0 DEF toggleMultiple, SheetIsItsProducts
      <4>3. selections[i] \subseteq DOMAIN group.prices
        BY <2>0 DEF SheetIsItsProducts
      <4> QED
        BY <4>1, <4>2, <4>3
    <3> QED
      BY <1>1, <3>1, <3>2
  <2>3. ~isDragging' => dragOffset' = 0
    BY <2>0, <1>2 DEF SheetIsItsProducts, isDragging
  <2> HIDE DEF group
  <2>4. ASSUME NEW j \in DOMAIN selections'
        PROVE  LET g == optionGroupsOf(sheetProduct)[j]
               IN /\ selections'[j] \subseteq DOMAIN g.prices
                  /\ g.type = "single" => Cardinality(selections'[j]) <= 1
                  /\ g.type = "single" /\ g.required => selections'[j] # {}
    <3>1. CASE j = i
      BY <3>1, <2>2 DEF group
    <3>2. CASE j # i
      BY <3>2, <2>0, <2>1 DEF SheetIsItsProducts
    <3> QED
      BY <3>1, <3>2
  <2>5. DOMAIN selections' = DOMAIN optionGroupsOf(sheetProduct)
    BY <2>0, <2>1 DEF SheetIsItsProducts
  <2> QED
    BY <1>3, <2>3, <2>4, <2>5 DEF SheetIsItsProducts
<1> QED
  BY <1>2, <1>4 DEF SheetInv, SheetStandsAlone, OwnGestureOnly

(* A gesture that ends throws away the sheet it began on, or nothing.         *)
LEMMA GestureStands ==
  ASSUME SheetInv, Gesture
  PROVE  SheetInv'
<1>0. PICK p \in Pointer :
        \/ cancelDrag(p)
        \/ \E y \in Height : startDrag(p, y) \/ \E pause \in Pause : moveDrag(p, y, pause) \/ endDrag(p, y, pause)
  BY DEF Gesture
<1>1. ASSUME NEW d \in GestureOn(sheets) PROVE d # NoDrag
  BY SheetConstants DEF GestureOn, NoDrag
<1>2. drag.pointer = p => drag \in GestureOn(sheets)
  BY SheetConstants DEF SheetInv, NoDrag
<1>3. ASSUME UNCHANGED <<sheetProduct, selections, sheets, sheetEnd>>,
             (drag' = NoDrag /\ dragOffset' = 0) \/ drag' \in GestureOn(sheets)
      PROVE  SheetInv'
  <2>1. isDragging' \/ dragOffset' = 0
    BY <1>1, <1>3 DEF isDragging
  <2>2. optionGroupsOf(sheetProduct)' = optionGroupsOf(sheetProduct)
    BY <1>3 DEF optionGroupsOf
  <2>3. SheetIsItsProducts'
    BY <1>3, <2>1, <2>2 DEF SheetIsItsProducts, SheetInv, SheetStandsAlone
  <2> QED
    BY <1>3, <2>3 DEF SheetInv, SheetStandsAlone, OwnGestureOnly
<1>4. ASSUME NEW y \in Height, startDrag(p, y) PROVE SheetInv'
  <2>1. drag' \in GestureOn(sheets) 
    BY <1>4 DEF startDrag, GestureOn
  <2> QED
    BY <1>3, <1>4, <2>1 DEF startDrag
<1>5. ASSUME NEW y \in Height, NEW pause \in Pause, moveDrag(p, y, pause) PROVE SheetInv'
  <2>1. drag' \in GestureOn(sheets) 
    BY <1>2, <1>5 DEF moveDrag, GestureOn
  <2> QED
    BY <1>3, <1>5, <2>1 DEF moveDrag
<1>6. ASSUME NEW y \in Height, NEW pause \in Pause, endDrag(p, y, pause) PROVE SheetInv'
  <2>1. CASE onClose(drag.sheet)
    <3>1. drag.sheet = sheets
      BY <1>2, <1>6 DEF endDrag, GestureOn
    <3>2. sheetEnd'.gesture \in {0, sheetEnd'.sheet}
      BY <2>1, <3>1 DEF onClose
    <3> QED
      BY <2>1, <3>2, ResetStands DEF onClose
  <2>2. CASE drag' = NoDrag /\ dragOffset' = 0 /\ UNCHANGED <<sheetProduct, selections, sheets, sheetEnd>>
    BY <1>3, <2>2
  <2> QED
    BY <1>6, <2>1, <2>2 DEF endDrag
<1>7. CASE cancelDrag(p)
  BY <1>3, <1>7 DEF cancelDrag
<1> QED
  BY <1>0, <1>4, <1>5, <1>6, <1>7

LEMMA SheetStepStands == ASSUME SheetInv, SheetNext PROVE SheetInv'
<1>1. CASE CloseSheet
  BY <1>1, ResetStands DEF CloseSheet, onClose
<1>2. CASE ChooseOption
  BY <1>2, AnswerStands
<1>3. CASE Gesture
  BY <1>3, GestureStands
<1> QED
  BY <1>1, <1>2, <1>3 DEF SheetNext

LEMMA SheetStays == ASSUME SheetInv, UNCHANGED sheetVars PROVE SheetInv'
<1>1. optionGroupsOf(sheetProduct)' = optionGroupsOf(sheetProduct)
  BY DEF sheetVars, optionGroupsOf
<1>2. SheetIsItsProducts'
  BY <1>1 DEF sheetVars, SheetInv, SheetStandsAlone, SheetIsItsProducts, isDragging
<1> QED
  BY <1>2 DEF sheetVars, SheetInv, SheetStandsAlone, OwnGestureOnly

-----------------------------------------------------------------------------
(* The screen.                                                              *)

(* While the grid is on screen its place is the scroll position; while a     *)
(* category is open, results over it or not, its place is kept aside.       *)
GridKept ==
  /\ payload \subseteq Category /\ selectedCategory \in payload \cup {NoCategory}
  /\ scroll \in Nat /\ gridOffset \in Nat \cup {NoOffset}
  /\ isHome => gridSeen = scroll
  /\ selectedCategory # NoCategory => gridOffset = gridSeen /\ gridSeen \in Nat

ScreenInv == SheetInv /\ GridKept

LEMMA ReachIsNatural ==
  ASSUME NEW selected, NEW text, NEW shown \in SUBSET Category
  PROVE  /\ Reach(selected, text, shown) \in Nat
         /\ \A n \in Nat : Clamped(n, Reach(selected, text, shown)) \in Nat
<1>1. Cardinality(shown) \in Nat
  BY ScreenConstants, FS_Subset, FS_CardinalityType
<1> QED
  BY <1>1 DEF Reach, Clamped

(* A render keeps the grid's place, whatever it shows, if it puts away the    *)
(* place of a grid it leaves.                                               *)
LEMMA ShowKeepsGrid ==
  ASSUME GridKept, NEW text, NEW shown \in SUBSET Category, NEW selected \in shown \cup {NoCategory},
         NEW offset \in Nat \cup {NoOffset}, Show(selected, text, shown, offset),
         selected # NoCategory => offset = gridSeen /\ offset \in Nat
  PROVE  GridKept'
<1>1. scroll' \in Nat
  BY ReachIsNatural, ScreenConstants DEF Show, ScrollAfter, GridKept
<1>2. isHome' => gridSeen' = scroll'
  BY DEF Show, isHome
<1>3. View(selected, text) = "grid" => selected = NoCategory
  BY DEF View
<1>4. selectedCategory' # NoCategory => gridOffset' = gridSeen' /\ gridSeen' \in Nat
  BY <1>3 DEF Show
<1>5. payload' \subseteq Category /\ selectedCategory' \in payload' \cup {NoCategory} /\ gridOffset' \in Nat \cup {NoOffset}
  BY DEF Show
<1> QED
  BY <1>1, <1>2, <1>4, <1>5 DEF GridKept

(* A listing is entered from the grid, whose place it keeps, or from another  *)
(* listing, whose place is the grid's.                                       *)
LEMMA StepKeepsGrid == ASSUME SheetInv, GridKept, ScreenNext PROVE GridKept'
<1>1. ASSUME NEW c \in Category, openCategory(c) PROVE GridKept'
  <2> DEFINE kept == IF selectedCategory = NoCategory THEN scroll ELSE gridOffset
  <2>1. Show(c, search, payload, kept) /\ search # "word"
    BY <1>1 DEF openCategory, CategoryButtons, searching
  <2>2. kept = gridSeen /\ kept \in Nat
    BY <2>1 DEF GridKept, isHome, View, searching
  <2>3. c \in payload /\ payload \in SUBSET Category
    BY <1>1 DEF openCategory, CategoryButtons, GridKept
  <2> HIDE DEF kept
  <2> QED
    BY <2>1, <2>2, <2>3, ShowKeepsGrid
<1>2. CASE backToCategories
  BY <1>2, ShowKeepsGrid DEF backToCategories, GridKept
<1>3. ASSUME NEW text \in SearchText, onSearchChange(text) PROVE GridKept'
  BY <1>3, ShowKeepsGrid DEF onSearchChange, GridKept
<1>4. ASSUME NEW p \in Product, openProduct(p) PROVE GridKept'
  BY <1>4 DEF openProduct, isHome, GridKept
<1>5. CASE Scroll
  <2>1. scroll' \in 0..Reach(selectedCategory, search, payload) /\ Reach(selectedCategory, search, payload) \in Nat
    BY <1>5, ReachIsNatural DEF Scroll, GridKept
  <2>2. scroll' \in Nat
    BY <2>1
  <2>3. isHome' = isHome /\ UNCHANGED <<payload, selectedCategory, gridOffset>> /\ gridSeen' = IF isHome THEN scroll' ELSE gridSeen
    BY <1>5 DEF Scroll, isHome
  <2>4. selectedCategory # NoCategory => ~isHome
    BY DEF isHome, View
  <2> QED
    BY <2>2, <2>3, <2>4 DEF GridKept
<1>6. CASE PayloadArrives
  BY <1>6, ShowKeepsGrid DEF PayloadArrives, GridKept
<1>7. CASE OnSheet
  BY <1>7 DEF OnSheet, isHome, GridKept
<1> QED
  BY <1>1, <1>2, <1>3, <1>4, <1>5, <1>6, <1>7 DEF ScreenNext

LEMMA StepKeepsSheet == ASSUME SheetInv, ScreenNext PROVE SheetInv'
<1>1. ASSUME NEW p \in Product, openProduct(p) PROVE SheetInv'
  <2>1. CASE UNCHANGED <<sheetProduct, selections, drag, dragOffset, sheets, sheetEnd>>
    <3>1. optionGroupsOf(sheetProduct)' = optionGroupsOf(sheetProduct)
      BY <2>1 DEF optionGroupsOf
    <3>2. SheetIsItsProducts'
      BY <2>1, <3>1 DEF SheetInv, SheetStandsAlone, SheetIsItsProducts, isDragging
    <3> QED
      BY <2>1, <3>2 DEF SheetInv, SheetStandsAlone, OwnGestureOnly
  <2>2. CASE OpenSheet(p)
    <3>1. sheetEnd'.gesture \in {0, sheetEnd'.sheet}
      BY <2>2 DEF OpenSheet, SheetInv, SheetStandsAlone, OwnGestureOnly
    <3> QED
      BY <2>2, <3>1, ResetStands DEF OpenSheet
  <2> QED
    BY <1>1, <2>1, <2>2 DEF openProduct
<1>2. CASE SheetNext
  BY <1>2, SheetStepStands
<1>3. CASE UNCHANGED sheetVars
  BY <1>3, SheetStays
<1> QED
  BY <1>1, <1>2, <1>3
  DEF ScreenNext, openCategory, backToCategories, onSearchChange, Scroll, PayloadArrives, OnSheet

LEMMA ScreenStarts == ScreenInit => ScreenInv
<1> SUFFICES ASSUME ScreenInit PROVE ScreenInv
  OBVIOUS
<1>1. SheetInv
  <2>1. sheetProduct = NoProduct /\ selections = defaultSelections(NoProduct) /\ drag = NoDrag /\ dragOffset = 0
        /\ sheetEnd.gesture = 0
    BY DEF ScreenInit, SheetInit
  <2>2. SheetIsItsProducts
    BY <2>1, DefaultsAreAnswers DEF SheetIsItsProducts
  <2> QED
    BY <2>1, <2>2 DEF SheetInv, SheetStandsAlone, OwnGestureOnly
<1>2. GridKept
  BY DEF ScreenInit, GridKept
<1> QED
  BY <1>1, <1>2 DEF ScreenInv

LEMMA StepKeepsScreen == ScreenInv /\ [ScreenNext]_screenVars => ScreenInv'
<1>1. ASSUME ScreenInv, ScreenNext PROVE ScreenInv'
  BY <1>1, StepKeepsGrid, StepKeepsSheet DEF ScreenInv
<1>2. ASSUME ScreenInv, UNCHANGED screenVars PROVE ScreenInv'
  <2>1. SheetInv'
    BY <1>2, SheetStays DEF ScreenInv, screenVars
  <2>2. GridKept'
    BY <1>2 DEF ScreenInv, screenVars, GridKept, isHome
  <2> QED
    BY <2>1, <2>2 DEF ScreenInv
<1> QED
  BY <1>1, <1>2

(* The invariant of the screen and of the sheet over it.                      *)
THEOREM ScreenKeepsInv == ScreenSpec => []ScreenInv
<1> QED
  BY ScreenStarts, StepKeepsScreen, PTL DEF ScreenSpec

(* Whatever is tapped, dragged and released, the answers on a product sheet   *)
(* are answers to its own product, and only a gesture that began on a sheet   *)
(* throws it away, for any products, option groups and pointers             *)
(* (ProductDetailModal.jsx:172, 208, 214).                                   *)
THEOREM SheetsApart == ScreenSpec => []SheetStandsAlone
<1>1. ScreenInv => SheetStandsAlone
  BY DEF ScreenInv, SheetInv
<1> QED
  BY <1>1, ScreenKeepsInv, PTL

(* The way back from a category lands where the grid was left.               *)
LEMMA BackLands ==
  ASSUME ScreenInv, ScreenNext,
         View(selectedCategory, search) = "listing", View(selectedCategory', search') = "grid"
  PROVE  scroll' = Clamped(gridSeen, Reach(selectedCategory', search', payload'))
<1>1. selectedCategory # NoCategory /\ ~searching(search) /\ selectedCategory' = NoCategory
  BY DEF View
<1>2. gridOffset = gridSeen /\ gridSeen # NoOffset
  BY <1>1, ScreenConstants DEF ScreenInv, GridKept
<1>3. ASSUME NEW text, NEW shown, Show(NoCategory, text, shown, gridOffset)
      PROVE  scroll' = Clamped(gridSeen, Reach(selectedCategory', search', payload'))
  BY <1>1, <1>2, <1>3 DEF Show, ScrollAfter
<1>4. CASE backToCategories
  BY <1>3, <1>4 DEF backToCategories
<1>5. ASSUME NEW text \in SearchText, onSearchChange(text) PROVE FALSE
  BY <1>1, <1>5 DEF onSearchChange, Show
<1>6. CASE PayloadArrives
  <2>1. PICK shown \in SUBSET Category :
          Show(IF selectedCategory \in shown THEN selectedCategory ELSE NoCategory, search, shown, gridOffset)
    BY <1>6 DEF PayloadArrives
  <2>2. Show(NoCategory, search, shown, gridOffset)
    BY <1>1, <2>1 DEF Show
  <2> QED
    BY <1>3, <2>2
<1>7. ASSUME NEW c \in Category, openCategory(c) PROVE FALSE
  BY <1>1, <1>7, ScreenConstants DEF openCategory, Show
<1>8. ASSUME UNCHANGED selectedCategory PROVE FALSE
  BY <1>1, <1>8
<1>9. ASSUME NEW p \in Product, openProduct(p) PROVE FALSE
  BY <1>8, <1>9 DEF openProduct
<1> QED
  BY <1>4, <1>5, <1>6, <1>7, <1>8, <1>9 DEF ScreenNext, Scroll, OnSheet

(* Whatever was opened, switched, searched or refetched in between, and for    *)
(* any categories of a menu, the way back from a category lands where the     *)
(* grid was left (MenuContent.jsx:743).                                     *)
THEOREM BackIsWhereLeft == ScreenSpec => BackLandsWhereLeft
<1>1. ScreenInv /\ [ScreenNext]_screenVars =>
        [View(selectedCategory, search) = "listing" /\ View(selectedCategory', search') = "grid" =>
           scroll' = Clamped(gridSeen, Reach(selectedCategory', search', payload'))]_screenVars
  BY BackLands
<1> QED
  BY <1>1, ScreenKeepsInv, PTL DEF ScreenSpec, BackLandsWhereLeft
-----------------------------------------------------------------------------
(* Types of the sheet and of the screen.                                    *)

(* The extras of a sheet are prices, so the total is no less than the price. *)
LEMMA TotalIsPrice == ASSUME SheetInv, SheetOpen PROVE total >= BasePrice[sheetProduct]
<1> DEFINE groups == optionGroupsOf(sheetProduct)
           extras == [i \in DOMAIN groups |-> GroupExtra(i)]
<1>1. /\ sheetProduct \in Product /\ groups = OptionGroups[sheetProduct]
      /\ groups \in Seq([type : {"single", "multiple"}, required : BOOLEAN, prices : Seq(Nat) \ {<<>>}])
      /\ BasePrice[sheetProduct] \in Nat
  BY SheetConstants DEF SheetInv, SheetOpen, optionGroupsOf
<1>2. ASSUME NEW i \in DOMAIN groups PROVE extras[i] \in Nat
  <2> DEFINE prices == groups[i].prices
             chosen == (IF i \in DOMAIN selections THEN selections[i] ELSE {}) \cap DOMAIN prices
  <2>1. prices \in Seq(Nat)
    <3>1. groups[i] \in [type : {"single", "multiple"}, required : BOOLEAN, prices : Seq(Nat) \ {<<>>}]
      <4>1. \A X : \A s \in Seq(X) : \A k \in DOMAIN s : s[k] \in X
        OBVIOUS
      <4> HIDE DEF groups
      <4> QED BY <1>1, <1>2, <4>1
    <3> QED BY <3>1
  <2>2. IsFiniteSet(DOMAIN prices)
    <3>1. DOMAIN prices = 1..Len(prices) /\ Len(prices) \in Nat
      BY <2>1, LenProperties
    <3> QED BY <3>1, FS_Interval
  <2>3. IsFiniteSet(chosen) /\ \A x \in chosen : prices[x] \in Nat
    <3>1. IsFiniteSet(chosen)
      BY <2>2, FS_Subset
    <3> QED BY <2>1, <3>1
  <2>4. GroupExtra(i) = FoldFunctionOnSet(+, 0, prices, chosen)
    BY DEF GroupExtra
  <2> HIDE DEF prices, chosen
  <2>5. GroupExtra(i) \in Nat
    BY <2>3, <2>4, SumIsNatural
  <2> QED BY <1>2, <2>5
<1>3. IsFiniteSet(DOMAIN groups)
  <2>1. DOMAIN groups = 1..Len(groups) /\ Len(groups) \in Nat
    BY <1>1, LenProperties
  <2> QED BY <2>1, FS_Interval
<1>4. total = BasePrice[sheetProduct] + FoldFunctionOnSet(+, 0, extras, DOMAIN groups)
  BY DEF total, FoldFunction
<1> HIDE DEF extras, groups
<1>5. FoldFunctionOnSet(+, 0, extras, DOMAIN groups) \in Nat
  BY <1>2, <1>3, SumIsNatural
<1> DEFINE sum == FoldFunctionOnSet(+, 0, extras, DOMAIN groups)
<1>6. total = BasePrice[sheetProduct] + sum /\ sum \in Nat
  BY <1>4, <1>5
<1> HIDE DEF sum
<1> QED BY <1>1, <1>6

(* What the invariants of sheet and screen do not say yet: how far a sheet   *)
(* is dragged, how far the screen scrolls, and that only an open sheet is    *)
(* stale.  Nothing is searched in a menu without categories.                *)
Length == 0..Cardinality(Category)

ScreenKept ==
  /\ dragOffset \in Distance /\ sheetSteps \in 0..MaxSheetSteps
  /\ scroll \in Length /\ gridOffset \in {NoOffset} \cup Length
  /\ sheetStale => SheetOpen
  /\ search # "" => Category # {}

LEMMA StepsBounded == MaxSheetSteps \in Nat
  BY SheetConstants

LEMMA SheetDragged ==
  ASSUME SheetInv, dragOffset \in Distance, sheetSteps \in 0..MaxSheetSteps, SheetNext
  PROVE  dragOffset' \in Distance /\ sheetSteps' \in 0..MaxSheetSteps
<1>1. ASSUME NEW p \in Pointer, NEW y \in Height, NEW pause \in Pause, moveDrag(p, y, pause)
      PROVE  dragOffset' \in Distance
  <2>1. drag \in GestureOn(sheets)
    BY <1>1, SheetConstants DEF moveDrag, SheetInv, NoDrag
  <2>2. drag.startY \in Height /\ dragOffset' = Down(y, drag.startY)
    BY <1>1, <2>1 DEF moveDrag, GestureOn
  <2> QED BY <2>2 DEF Distance
<1>2. dragOffset' \in Distance
  <2>1. 0 \in Distance
    BY DEF Distance
  <2> QED
    BY <1>1, <2>1
    DEF SheetNext, CloseSheet, ChooseOption, Gesture, startDrag, endDrag, cancelDrag, onClose, SheetReset
<1>3. SheetStep
  BY DEF SheetNext, CloseSheet, ChooseOption, Gesture, startDrag, moveDrag, endDrag, cancelDrag
<1>4. sheetSteps' \in 0..MaxSheetSteps
  BY <1>3, StepsBounded DEF SheetStep
<1> QED BY <1>2, <1>4

LEMMA LengthOf ==
  /\ Cardinality(Category) \in Nat /\ 0 \in Length
  /\ \A shown \in SUBSET Category : Cardinality(shown) \in Length
  /\ Category # {} => 1 \in Length
<1>1. Cardinality(Category) \in Nat
  BY ScreenConstants, FS_CardinalityType
<1>2. ASSUME NEW shown \in SUBSET Category PROVE Cardinality(shown) \in Length
  <2>1. Cardinality(shown) \in Nat /\ Cardinality(shown) <= Cardinality(Category)
    BY ScreenConstants, FS_Subset, FS_CardinalityType
  <2> QED BY <1>1, <2>1 DEF Length
<1>3. Category # {} => Cardinality(Category) # 0
  BY ScreenConstants, FS_EmptySet
<1> QED BY <1>1, <1>2, <1>3 DEF Length

LEMMA ReachInLength ==
  ASSUME NEW shown \in SUBSET Category, NEW selected \in shown \cup {NoCategory}, NEW text,
         text # "" => Category # {}
  PROVE  /\ Reach(selected, text, shown) \in Length
         /\ \A n \in Length : Clamped(n, Reach(selected, text, shown)) \in Length
<1>1. View(selected, text) # "grid" => Category # {}
  BY DEF View, searching
<1>2. Reach(selected, text, shown) \in Length
  BY <1>1, LengthOf DEF Reach
<1> QED BY <1>2 DEF Clamped

LEMMA ShowKeepsLength ==
  ASSUME ScreenKept, NEW shown \in SUBSET Category, NEW selected \in shown \cup {NoCategory}, NEW text,
         text # "" => Category # {}, NEW offset \in {NoOffset} \cup Length, Show(selected, text, shown, offset)
  PROVE  scroll' \in Length /\ gridOffset' \in {NoOffset} \cup Length /\ (search' # "" => Category # {})
<1>1. scroll' \in Length
  <2>1. ScrollAfter(selected, text, shown, offset) \in Length
    BY ReachInLength, LengthOf DEF ScrollAfter, ScreenKept
  <2> QED BY <2>1 DEF Show
<1> QED BY <1>1 DEF Show

LEMMA ScreenKeptStep == ASSUME ScreenInv, ScreenKept, ScreenNext PROVE ScreenKept'
<1>0. /\ payload \in SUBSET Category /\ selectedCategory \in payload \cup {NoCategory}
      /\ (search # "" => Category # {})
      /\ scroll \in Length /\ gridOffset \in {NoOffset} \cup Length
  BY DEF ScreenInv, GridKept, ScreenKept
<1>1. ASSUME scroll' \in Length, gridOffset' \in {NoOffset} \cup Length, search' # "" => Category # {},
             UNCHANGED <<sheetStale, sheetVars>>
      PROVE  ScreenKept'
  BY <1>1 DEF ScreenKept, sheetVars, SheetOpen
<1>2. ASSUME NEW c \in Category, openCategory(c) PROVE ScreenKept'
  <2>1. c \in payload /\ Show(c, search, payload, IF selectedCategory = NoCategory THEN scroll ELSE gridOffset)
    BY <1>2 DEF openCategory, CategoryButtons
  <2>2. scroll' \in Length /\ gridOffset' \in {NoOffset} \cup Length /\ (search' # "" => Category # {})
    BY <1>0, <2>1, ShowKeepsLength
  <2> QED BY <1>1, <1>2, <2>2 DEF openCategory
<1>3. CASE backToCategories
  <2>1. scroll' \in Length /\ gridOffset' \in {NoOffset} \cup Length /\ (search' # "" => Category # {})
    BY <1>0, <1>3, ShowKeepsLength DEF backToCategories
  <2> QED BY <1>1, <1>3, <2>1 DEF backToCategories
<1>4. ASSUME NEW text \in SearchText, onSearchChange(text) PROVE ScreenKept'
  <2>1. Category # {} /\ Show(selectedCategory, text, payload, gridOffset)
    BY <1>0, <1>4 DEF onSearchChange
  <2>2. scroll' \in Length /\ gridOffset' \in {NoOffset} \cup Length /\ (search' # "" => Category # {})
    BY <1>0, <2>1, ShowKeepsLength
  <2> QED BY <1>1, <1>4, <2>2 DEF onSearchChange
<1>5. ASSUME NEW p \in Product, openProduct(p) PROVE ScreenKept'
  <2>1. dragOffset' \in Distance /\ sheetSteps' \in 0..MaxSheetSteps
    <3>1. dragOffset' \in {0, dragOffset}
      BY <1>5 DEF openProduct, OpenSheet, SheetReset
    <3>2. sheetSteps' \in 0..MaxSheetSteps
      <4>1. SheetStep /\ sheetSteps \in 0..MaxSheetSteps
        BY <1>5 DEF openProduct, ScreenKept
      <4> QED BY <4>1, StepsBounded DEF SheetStep
    <3>3. dragOffset \in Distance
      BY DEF ScreenKept
    <3>4. 0 \in Distance
      BY DEF Distance
    <3> QED BY <3>1, <3>2, <3>3, <3>4
  <2>2. ~sheetStale'
    BY <1>5 DEF openProduct
  <2>3. UNCHANGED <<payload, search, scroll, gridOffset>>
    BY <1>5 DEF openProduct
  <2> QED BY <1>0, <2>1, <2>2, <2>3 DEF ScreenKept
<1>6. CASE Scroll
  <2>1. scroll' \in 0..Reach(selectedCategory, search, payload)
    BY <1>6 DEF Scroll
  <2>2. Reach(selectedCategory, search, payload) \in Length
    BY <1>0, ReachInLength
  <2>3. scroll' \in Length
    BY <2>1, <2>2, LengthOf DEF Length
  <2> QED BY <1>0, <1>1, <1>6, <2>3 DEF Scroll
<1>7. CASE PayloadArrives
  <2>1. PICK shown \in SUBSET Category :
          Show(IF selectedCategory \in shown THEN selectedCategory ELSE NoCategory, search, shown, gridOffset)
    BY <1>7 DEF PayloadArrives
  <2>2. scroll' \in Length /\ gridOffset' \in {NoOffset} \cup Length /\ (search' # "" => Category # {})
    BY <1>0, <2>1, ShowKeepsLength
  <2>3. sheetStale' = SheetOpen /\ UNCHANGED sheetVars
    BY <1>7 DEF PayloadArrives
  <2> QED BY <2>2, <2>3 DEF ScreenKept, sheetVars, SheetOpen
<1>8. CASE OnSheet
  <2>1. dragOffset' \in Distance /\ sheetSteps' \in 0..MaxSheetSteps
    BY <1>8, SheetDragged DEF OnSheet, ScreenInv, ScreenKept
  <2>2. sheetStale' => SheetOpen'
    BY <1>8 DEF OnSheet, SheetOpen
  <2>3. UNCHANGED <<payload, search, scroll, gridOffset>>
    BY <1>8 DEF OnSheet
  <2> QED BY <1>0, <2>1, <2>2, <2>3 DEF ScreenKept
<1> QED
  BY <1>2, <1>3, <1>4, <1>5, <1>6, <1>7, <1>8 DEF ScreenNext

LEMMA ScreenTyped == ASSUME ScreenInv, ScreenKept PROVE ScreenTypeOK
<1>1. SheetTypeOK
  <2>1. drag.pointer \in Pointer \cup {NoPointer}
    BY DEF ScreenInv, SheetInv, GestureOn, NoDrag
  <2>2. SheetOpen => total >= BasePrice[sheetProduct]
    BY TotalIsPrice DEF ScreenInv
  <2>3. sheetProduct \in Product \cup {NoProduct}
    BY DEF ScreenInv, SheetInv
  <2>4. dragOffset \in Distance /\ sheetSteps \in 0..MaxSheetSteps
    BY DEF ScreenKept
  <2> QED BY <2>1, <2>2, <2>3, <2>4 DEF SheetTypeOK
<1> QED BY <1>1 DEF ScreenTypeOK, ScreenInv, GridKept, ScreenKept, Length

(* The screen and the sheet over it keep their types: a sheet never costs    *)
(* less than its product, only an open sheet is stale, and the screen is     *)
(* never scrolled beyond its categories.                                    *)
THEOREM ScreenTyping == ScreenSpec => []ScreenTypeOK
<1>1. ScreenInit => ScreenInv /\ ScreenKept
  <2>1. ASSUME ScreenInit PROVE ScreenKept
    <3>1. 0 \in Distance /\ 0 \in 0..MaxSheetSteps
      BY StepsBounded DEF Distance
    <3> QED BY <2>1, <3>1, LengthOf DEF ScreenInit, SheetInit, ScreenKept
  <2> QED BY <2>1, ScreenStarts
<1>2. (ScreenInv /\ ScreenKept) /\ [ScreenNext]_screenVars => (ScreenInv /\ ScreenKept)'
  <2>1. ASSUME ScreenInv, ScreenKept, UNCHANGED screenVars PROVE ScreenKept'
    BY <2>1 DEF ScreenKept, screenVars, sheetVars, SheetOpen
  <2> QED BY <2>1, ScreenKeptStep, StepKeepsScreen
<1>3. ScreenInv /\ ScreenKept => ScreenTypeOK
  BY ScreenTyped
<1> QED BY <1>1, <1>2, <1>3, PTL DEF ScreenSpec

-----------------------------------------------------------------------------
(* The bulk price dialog: pricing.                                          *)

(* A percentage the dialog lets through leaves a price a price.             *)
LEMMA PercentageIsPrice ==
  ASSUME NEW price \in Nat, NEW percentage \in Int, percentage >= -90
  PROVE  ApplyPercentage(price, percentage) \in Nat
<1>1. 100 + percentage \in Nat
  OBVIOUS
<1>2. \A m, n \in Nat : m * n \in Nat
  OBVIOUS
<1> QED BY <1>1, <1>2 DEF ApplyPercentage

(* No rounding makes a price negative, a price ending in 95 or 99 included.  *)
LEMMA RoundedIsPrice ==
  ASSUME NEW x \in Nat, NEW mode \in Rounding
  PROVE  RoundPrice(x, mode) \in Nat
<1>1. Nearest(x, 100) \in Nat /\ Nearest(x, 5000) \in Nat /\ Nearest(x, 10000) \in Nat
      /\ Nearest(x, 50000) \in Nat /\ Nearest(x, 100000) \in Nat
  BY DEF Nearest
<1>2. \A n \in Nat : n \div 100 \in Nat
  OBVIOUS
<1>3. Base(x) \in Nat /\ Base(x) >= 100
  <2>1. CASE Nearest(x, 10000) < 10000
    BY <2>1 DEF Base
  <2>2. CASE ~(Nearest(x, 10000) < 10000)
    <3>1. \A n \in Nat : n >= 10000 => n \div 100 >= 100
      OBVIOUS
    <3> QED BY <1>1, <1>2, <2>2, <3>1 DEF Base
  <2> QED BY <2>1, <2>2
<1>4. Base(x) - 5 \in Nat /\ Base(x) - 1 \in Nat
  BY <1>3
<1> QED BY <1>1, <1>2, <1>4 DEF RoundPrice, Rounding

LEMMA PlanIsPlan ==
  ASSUME NEW prices \in [PricedProduct -> Nat], NEW body \in BulkBody, body.percentage >= -90
  PROVE  /\ PlanPriceChanges(prices, body) \in BulkPlan
         /\ DOMAIN PlanPriceChanges(prices, body) = InScope(body)
         /\ \A p \in InScope(body) : PlanPriceChanges(prices, body)[p] \in Nat
<1>1. InScope(body) \subseteq PricedProduct
  BY DEF InScope
<1>2. body.rounding \in Rounding /\ body.percentage \in Int
  BY BulkConstants DEF BulkBody
<1>3. \A p \in InScope(body) : RoundPrice(ApplyPercentage(prices[p], body.percentage), body.rounding) \in Nat
  BY <1>1, <1>2, PercentageIsPrice, RoundedIsPrice
<1>4. PlanPriceChanges(prices, body) \in [InScope(body) -> Nat]
  BY <1>3 DEF PlanPriceChanges
<1> QED BY <1>1, <1>4 DEF BulkPlan

(* What an apply writes stays within the column.                            *)
LEMMA PlannedWithinCeiling ==
  ASSUME NEW prices \in [PricedProduct -> 0..PriceCeiling], NEW body \in BulkBody, body.percentage >= -90,
         ~PriceLimitExceeded(PlanPriceChanges(prices, body))
  PROVE  WithPlan(prices, PlanPriceChanges(prices, body)) \in [PricedProduct -> 0..PriceCeiling]
<1> DEFINE plan == PlanPriceChanges(prices, body)
<1>1. prices \in [PricedProduct -> Nat]
  BY BulkConstants
<1>2. \A p \in DOMAIN plan : plan[p] \in Nat
  BY <1>1, PlanIsPlan
<1>3. \A p \in DOMAIN plan : plan[p] \in 0..PriceCeiling
  BY <1>2, BulkConstants DEF PriceLimitExceeded
<1> QED BY <1>3 DEF WithPlan

-----------------------------------------------------------------------------
(* The inductive invariant.                                                 *)

(* Only a percentage the dialog lets through is ever sent, and what comes    *)
(* back is a plan.                                                          *)
RequestIsValid ==
  bulkRequest # NoResult =>
    /\ bulkRequest.body.percentage >= -90
    /\ bulkRequest.phase = "done" => bulkRequest.rows \in BulkPlan

(* A preview nothing has disturbed was asked for with the settings on        *)
(* screen, and what it brings are the prices of the moment.                  *)
RequestIsCurrent ==
  bulkRequest # NoResult /\ bulkRequest.action = "preview" /\ ~bulkRequest.disturbed =>
    /\ validBulk(bulk) /\ bulkRequest.body = requestBody(bulk)
    /\ bulkRequest.phase = "done" => bulkRequest.rows = PlanPriceChanges(menuPrices, bulkRequest.body)

(* The table is right until an apply has been answered: only then may the    *)
(* prices have moved under it.                                              *)
ApplyAnswered == bulkRequest # NoResult /\ bulkRequest.action = "apply" /\ bulkRequest.phase # "sent"

TableIsCurrent ==
  bulk.open /\ bulk.preview # NoResult /\ ~bulk.preview.disturbed /\ ~ApplyAnswered =>
    validBulk(bulk) /\ bulk.preview.rows = PlanPriceChanges(menuPrices, requestBody(bulk))

BulkDialog ==
  [open : BOOLEAN, percentage : Percentage \cup {BlankPercentage}, rounding : Rounding,
   allProducts : BOOLEAN, selected : SUBSET Shelves,
   preview : [rows : BulkPlan, disturbed : BOOLEAN] \cup {NoResult},
   busy : {"no", "preview", "apply"}, error : BOOLEAN]

(* BulkTypeOK with the shape of every field.                                 *)
BulkShapes ==
  /\ menuPrices \in [PricedProduct -> 0..PriceCeiling]
  /\ bulk \in BulkDialog
  /\ bulkRequest \in BulkRequest \cup {NoResult}
  /\ bulk.busy = "no" <=> bulkRequest = NoResult
  /\ bulkRequest # NoResult => bulk.open

BulkInv == BulkShapes /\ RequestIsValid /\ RequestIsCurrent /\ TableIsCurrent

LEMMA BulkInvInit == BulkInit => BulkInv
<1> SUFFICES ASSUME BulkInit PROVE BulkInv
  OBVIOUS
<1>1. bulk = EmptyBulk /\ bulkRequest = NoResult /\ menuPrices = StartPrice
  BY DEF BulkInit
<1>2. bulk \in BulkDialog
  BY <1>1 DEF EmptyBulk, BulkDialog, Rounding
<1>3. BulkShapes
  BY <1>1, <1>2, BulkConstants DEF BulkShapes, BulkDialog, EmptyBulk
<1> QED BY <1>1, <1>3 DEF BulkInv, RequestIsValid, RequestIsCurrent, TableIsCurrent, EmptyBulk

LEMMA BodyTyped ==
  ASSUME NEW b \in BulkDialog, validBulk(b)
  PROVE  requestBody(b) \in BulkBody /\ requestBody(b).percentage >= -90
BY DEF BulkDialog, BulkBody, requestBody, validBulk, percentageValid

(* A setting changes: the table goes, and the request under way is one for   *)
(* other settings.                                                          *)
LEMMA SettingsChange ==
  ASSUME BulkInv, NEW b \in BulkDialog, b.open = bulk.open, b.busy = bulk.busy, ChangeBulk(b)
  PROVE  BulkInv'
<1>1. bulk' = [b EXCEPT !.preview = NoResult] /\ menuPrices' = menuPrices
  BY DEF ChangeBulk
<1>2. bulk' \in BulkDialog /\ bulk'.open = bulk.open /\ bulk'.busy = bulk.busy /\ bulk'.preview = NoResult
  BY <1>1 DEF BulkDialog
<1>3. CASE bulkRequest = NoResult
  <2>1. bulkRequest' = NoResult
    BY <1>3 DEF ChangeBulk
  <2> QED BY <1>1, <1>2, <1>3, <2>1 DEF BulkInv, BulkShapes, BulkDialog, RequestIsValid, RequestIsCurrent, TableIsCurrent
<1>4. CASE bulkRequest # NoResult
  <2>1. bulkRequest \in BulkRequest /\ bulkRequest' = [bulkRequest EXCEPT !.disturbed = TRUE]
    BY <1>4 DEF ChangeBulk, BulkInv, BulkShapes
  <2>2. bulkRequest' \in BulkRequest /\ bulkRequest'.disturbed /\ bulkRequest'.body = bulkRequest.body
        /\ bulkRequest'.phase = bulkRequest.phase /\ bulkRequest'.rows = bulkRequest.rows
    BY <2>1 DEF BulkRequest
  <2>3. bulkRequest' # NoResult
    BY <2>2, NoResultIsNone
  <2> QED BY <1>1, <1>2, <1>4, <2>2, <2>3
        DEF BulkInv, BulkShapes, BulkDialog, RequestIsValid, RequestIsCurrent, TableIsCurrent
<1> QED BY <1>3, <1>4

(* What is sent and whether it may be sent are read off four fields.        *)
LEMMA SameBody ==
  ASSUME NEW b, NEW c,
         b.percentage = c.percentage, b.rounding = c.rounding, b.allProducts = c.allProducts, b.selected = c.selected
  PROVE  requestBody(b) = requestBody(c) /\ validBulk(b) = validBulk(c)
  BY DEF requestBody, validBulk, percentageValid

-----------------------------------------------------------------------------
(* The steps.                                                               *)

LEMMA OpenKeeps == ASSUME BulkInv, OpenBulk PROVE BulkInv'
<1>1. bulkRequest = NoResult /\ bulkRequest' = NoResult /\ menuPrices' = menuPrices
  BY DEF OpenBulk, BulkInv, BulkShapes
<1>2. bulk' \in BulkDialog /\ bulk'.busy = "no" /\ bulk'.preview = NoResult
  BY DEF OpenBulk, EmptyBulk, BulkDialog, Rounding
<1> QED BY <1>1, <1>2 DEF BulkInv, BulkShapes, BulkDialog, RequestIsValid, RequestIsCurrent, TableIsCurrent

LEMMA CloseKeeps == ASSUME BulkInv, CloseBulk PROVE BulkInv'
<1>1. bulkRequest = NoResult /\ bulkRequest' = NoResult /\ menuPrices' = menuPrices
  BY DEF CloseBulk, BulkInv, BulkShapes
<1>2. bulk' \in BulkDialog /\ bulk'.busy = "no" /\ ~bulk'.open
  BY DEF CloseBulk, BulkInv, BulkShapes, BulkDialog
<1> QED BY <1>1, <1>2 DEF BulkInv, BulkShapes, BulkDialog, RequestIsValid, RequestIsCurrent, TableIsCurrent

(* The message about a percentage changes nothing that is sent.             *)
LEMMA RefuseKeeps == ASSUME BulkInv, RefuseBulk PROVE BulkInv'
<1>1. bulkRequest = NoResult /\ bulkRequest' = NoResult /\ menuPrices' = menuPrices
  BY DEF RefuseBulk, BulkInv, BulkShapes
<1>2. bulk \in BulkDialog /\ bulk' = [bulk EXCEPT !.error = TRUE]
  BY DEF RefuseBulk, BulkInv, BulkShapes, BulkDialog
<1>3. bulk' \in BulkDialog /\ bulk'.busy = bulk.busy /\ bulk'.open = bulk.open /\ bulk'.preview = bulk.preview
      /\ bulk'.percentage = bulk.percentage /\ bulk'.rounding = bulk.rounding
      /\ bulk'.allProducts = bulk.allProducts /\ bulk'.selected = bulk.selected
  BY <1>2 DEF BulkDialog
<1>4. requestBody(bulk') = requestBody(bulk) /\ validBulk(bulk') = validBulk(bulk)
  BY <1>3, SameBody
<1> QED BY <1>1, <1>3, <1>4 DEF BulkInv, BulkShapes, BulkDialog, RequestIsValid, RequestIsCurrent, TableIsCurrent, ApplyAnswered

LEMMA ChoicesKeep ==
  ASSUME BulkInv,
         \/ \E v \in Percentage \cup {BlankPercentage} : TypePercentage(v)
         \/ \E v \in Percentage : ShortcutPercentage(v)
         \/ \E mode \in Rounding : ChooseRounding(mode)
         \/ \E all \in BOOLEAN : ChooseScope(all)
         \/ \E c \in Shelves : toggleCategory(c)
  PROVE  BulkInv'
<1>0. bulk \in BulkDialog
  BY DEF BulkInv, BulkShapes, BulkDialog
<1>1. ASSUME NEW v \in Percentage \cup {BlankPercentage}, TypePercentage(v) PROVE BulkInv'
  <2>1. [bulk EXCEPT !.percentage = v, !.error = FALSE] \in BulkDialog
    BY <1>0 DEF BulkDialog
  <2> QED BY <1>0, <1>1, <2>1, SettingsChange DEF TypePercentage, BulkDialog
<1>2. ASSUME NEW v \in Percentage, ShortcutPercentage(v) PROVE BulkInv'
  BY <1>1, <1>2 DEF ShortcutPercentage
<1>3. ASSUME NEW mode \in Rounding, ChooseRounding(mode) PROVE BulkInv'
  <2>1. [bulk EXCEPT !.rounding = mode] \in BulkDialog
    BY <1>0 DEF BulkDialog
  <2> QED BY <1>0, <1>3, <2>1, SettingsChange DEF ChooseRounding, BulkDialog
<1>4. ASSUME NEW all \in BOOLEAN, ChooseScope(all) PROVE BulkInv'
  <2>1. [bulk EXCEPT !.allProducts = all] \in BulkDialog
    BY <1>0 DEF BulkDialog
  <2> QED BY <1>0, <1>4, <2>1, SettingsChange DEF ChooseScope, BulkDialog
<1>5. ASSUME NEW c \in Shelves, toggleCategory(c) PROVE BulkInv'
  <2> DEFINE toggled == [bulk EXCEPT !.selected = IF c \in @ THEN @ \ {c} ELSE @ \cup {c}]
  <2>1. toggled \in BulkDialog /\ toggled.open = bulk.open /\ toggled.busy = bulk.busy
    BY <1>0 DEF BulkDialog
  <2>2. ChangeBulk(toggled)
    BY <1>5 DEF toggleCategory
  <2> HIDE DEF toggled
  <2> QED BY <2>1, <2>2, SettingsChange
<1> QED BY <1>1, <1>2, <1>3, <1>4, <1>5

(* A request carries the settings on screen, which are valid.               *)
LEMMA RunKeeps ==
  ASSUME BulkInv, NEW action \in {"preview", "apply"}, RunBulk(action)
  PROVE  BulkInv'
<1>1. bulk \in BulkDialog /\ bulk.open /\ validBulk(bulk) /\ menuPrices' = menuPrices
  BY DEF RunBulk, BulkInv, BulkShapes, BulkDialog
<1>2. bulk' = [bulk EXCEPT !.busy = action, !.error = FALSE]
  BY DEF RunBulk
<1>3. bulk' \in BulkDialog /\ bulk'.busy = action /\ bulk'.open /\ bulk'.preview = bulk.preview
      /\ requestBody(bulk') = requestBody(bulk) /\ validBulk(bulk')
  <2>1. bulk' \in BulkDialog /\ bulk'.busy = action /\ bulk'.open /\ bulk'.preview = bulk.preview
        /\ bulk'.percentage = bulk.percentage /\ bulk'.rounding = bulk.rounding
        /\ bulk'.allProducts = bulk.allProducts /\ bulk'.selected = bulk.selected
    BY <1>1, <1>2 DEF BulkDialog
  <2>2. requestBody(bulk') = requestBody(bulk) /\ validBulk(bulk') = validBulk(bulk)
    BY <2>1, SameBody
  <2> QED BY <1>1, <2>1, <2>2
<1>4. requestBody(bulk) \in BulkBody /\ requestBody(bulk).percentage >= -90
  BY <1>1, BodyTyped
<1>5. bulkRequest' = [action |-> action, body |-> requestBody(bulk), phase |-> "sent", rows |-> NoResult,
                      disturbed |-> FALSE]
  BY DEF RunBulk
<1>6. bulkRequest' \in BulkRequest
  BY <1>4, <1>5 DEF BulkRequest
<1>7. bulkRequest = NoResult
  BY DEF RunBulk, BulkInv, BulkShapes
<1>8. BulkShapes'
  <2>1. bulkRequest' # NoResult
    BY <1>6, NoResultIsNone
  <2> QED BY <1>1, <1>3, <1>6, <2>1 DEF BulkInv, BulkShapes, BulkDialog
<1>9. RequestIsValid' /\ RequestIsCurrent'
  BY <1>3, <1>4, <1>5 DEF RequestIsValid, RequestIsCurrent
<1>10. TableIsCurrent'
  BY <1>1, <1>3, <1>7 DEF BulkInv, TableIsCurrent, ApplyAnswered
<1> QED BY <1>8, <1>9, <1>10 DEF BulkInv

LEMMA RefusalKeeps == ASSUME BulkInv, BulkRefused PROVE BulkInv'
<1>1. bulkRequest \in BulkRequest /\ bulkRequest' = [bulkRequest EXCEPT !.phase = "failed"]
      /\ bulkRequest # NoResult /\ bulkRequest.phase = "sent"
      /\ menuPrices' = menuPrices /\ bulk' = bulk
  BY DEF BulkRefused, BulkInv, BulkShapes
<1>2. bulkRequest' \in BulkRequest /\ bulkRequest'.phase = "failed" /\ bulkRequest'.action = bulkRequest.action
      /\ bulkRequest'.body = bulkRequest.body /\ bulkRequest'.disturbed = bulkRequest.disturbed
  BY <1>1 DEF BulkRequest
<1>3. bulkRequest' # NoResult
  BY <1>2, NoResultIsNone
<1>4. BulkShapes'
  BY <1>1, <1>2, <1>3 DEF BulkInv, BulkShapes
<1>5. RequestIsValid' /\ RequestIsCurrent'
  BY <1>1, <1>2 DEF BulkInv, RequestIsValid, RequestIsCurrent
<1>6. TableIsCurrent'
  BY <1>1, <1>2, <1>3 DEF BulkInv, TableIsCurrent, ApplyAnswered
<1> QED BY <1>4, <1>5, <1>6 DEF BulkInv

(* The server's plan: a preview brings the prices of the moment, an apply    *)
(* writes them, within the column.                                          *)
LEMMA PlanKeeps == ASSUME BulkInv, PlansBulk PROVE BulkInv'
<1> DEFINE plan == PlanPriceChanges(menuPrices, bulkRequest.body)
<1>1. bulkRequest \in BulkRequest /\ bulkRequest # NoResult /\ bulkRequest.phase = "sent" /\ bulk' = bulk
  BY DEF PlansBulk, BulkInv, BulkShapes
<1>2. bulkRequest.body \in BulkBody /\ bulkRequest.body.percentage >= -90
  BY <1>1 DEF BulkRequest, BulkInv, RequestIsValid
<1>3. menuPrices \in [PricedProduct -> 0..PriceCeiling] /\ menuPrices \in [PricedProduct -> Nat]
  BY BulkConstants DEF BulkInv, BulkShapes
<1>4. plan \in BulkPlan
  BY <1>2, <1>3, PlanIsPlan
<1>5. WithPlan(menuPrices, plan) \in [PricedProduct -> 0..PriceCeiling]
  BY <1>2, <1>3, PlannedWithinCeiling DEF PlansBulk
<1>6. menuPrices' = IF bulkRequest.action = "apply" THEN WithPlan(menuPrices, plan) ELSE menuPrices
  BY DEF PlansBulk
<1>7. PICK phase \in {"done", "failed"} : bulkRequest' = [bulkRequest EXCEPT !.phase = phase, !.rows = plan]
  BY DEF PlansBulk
<1> HIDE DEF plan
<1>8. bulkRequest' \in BulkRequest /\ bulkRequest'.phase = phase /\ bulkRequest'.rows = plan
      /\ bulkRequest'.action = bulkRequest.action
      /\ bulkRequest'.body = bulkRequest.body /\ bulkRequest'.disturbed = bulkRequest.disturbed
  BY <1>1, <1>4, <1>7 DEF BulkRequest
<1>9. bulkRequest' # NoResult
  BY <1>8, NoResultIsNone
<1>10. BulkShapes'
  BY <1>1, <1>3, <1>5, <1>6, <1>8, <1>9 DEF BulkInv, BulkShapes
<1>11. CASE bulkRequest.action = "apply"
  <2>1. ApplyAnswered'
    BY <1>8, <1>9, <1>11 DEF ApplyAnswered
  <2> QED BY <1>1, <1>2, <1>4, <1>8, <1>10, <1>11, <2>1 DEF BulkInv, RequestIsValid, RequestIsCurrent, TableIsCurrent
<1>12. CASE bulkRequest.action # "apply"
  <2>1. menuPrices' = menuPrices
    BY <1>6, <1>12
  <2>2. RequestIsValid' /\ RequestIsCurrent'
    BY <1>1, <1>4, <1>8, <2>1 DEF plan, BulkInv, RequestIsValid, RequestIsCurrent
  <2>3. TableIsCurrent'
    BY <1>1, <1>12, <2>1 DEF BulkInv, TableIsCurrent, ApplyAnswered
  <2> QED BY <1>10, <2>2, <2>3 DEF BulkInv
<1> QED BY <1>11, <1>12

(* Somebody else's price disturbs both the table and the answer on its way.  *)
LEMMA OthersKeep ==
  ASSUME BulkInv, NEW p \in PricedProduct, NEW price \in OtherPrice, OtherPricesChange(p, price)
  PROVE  BulkInv'
<1>1. menuPrices' \in [PricedProduct -> 0..PriceCeiling]
  BY BulkConstants DEF OtherPricesChange, BulkInv, BulkShapes
<1>2. bulk \in BulkDialog
  BY DEF BulkInv, BulkShapes, BulkDialog
<1>3. /\ bulk' \in BulkDialog /\ bulk'.open = bulk.open /\ bulk'.busy = bulk.busy
      /\ bulk'.preview # NoResult => bulk'.preview.disturbed
  <2>1. CASE bulk.preview = NoResult
    BY <1>2, <2>1 DEF OtherPricesChange
  <2>2. CASE bulk.preview # NoResult
    <3>1. bulk.preview \in [rows : BulkPlan, disturbed : BOOLEAN]
      BY <1>2, <2>2 DEF BulkDialog
    <3>2. bulk' = [bulk EXCEPT !.preview.disturbed = TRUE]
      BY <2>2 DEF OtherPricesChange
    <3> QED BY <1>2, <3>1, <3>2 DEF BulkDialog
  <2> QED BY <2>1, <2>2
<1>4. CASE bulkRequest = NoResult
  <2>1. bulkRequest' = NoResult
    BY <1>4 DEF OtherPricesChange
  <2> QED BY <1>1, <1>3, <1>4, <2>1 DEF BulkInv, BulkShapes, BulkDialog, RequestIsValid, RequestIsCurrent, TableIsCurrent
<1>5. CASE bulkRequest # NoResult
  <2>1. bulkRequest \in BulkRequest /\ bulkRequest' = [bulkRequest EXCEPT !.disturbed = TRUE]
    BY <1>5 DEF OtherPricesChange, BulkInv, BulkShapes
  <2>2. bulkRequest' \in BulkRequest /\ bulkRequest'.disturbed /\ bulkRequest'.body = bulkRequest.body
        /\ bulkRequest'.phase = bulkRequest.phase /\ bulkRequest'.rows = bulkRequest.rows
    BY <2>1 DEF BulkRequest
  <2>3. bulkRequest' # NoResult
    BY <2>2, NoResultIsNone
  <2> QED BY <1>1, <1>3, <1>5, <2>2, <2>3
        DEF BulkInv, BulkShapes, BulkDialog, RequestIsValid, RequestIsCurrent, TableIsCurrent
<1> QED BY <1>4, <1>5

(* The answer lands: an apply closes the dialog or marks its table, a        *)
(* preview becomes the table.                                               *)
LEMMA BulkLandingKeeps == ASSUME BulkInv, BulkLands PROVE BulkInv'
<1>1. bulkRequest \in BulkRequest /\ bulkRequest # NoResult /\ bulkRequest.phase \in {"done", "failed"}
      /\ bulkRequest' = NoResult /\ menuPrices' = menuPrices
  BY DEF BulkLands, BulkInv, BulkShapes
<1>2. bulk \in BulkDialog /\ bulk.open
  BY <1>1 DEF BulkInv, BulkShapes, BulkDialog
<1>3. bulkRequest.action \in {"preview", "apply"} /\ bulkRequest.disturbed \in BOOLEAN
  BY <1>1 DEF BulkRequest
<1>4. CASE bulkRequest.phase = "failed"
  <2>1. CASE bulkRequest.action = "apply"
    <3>1. /\ bulk' \in BulkDialog /\ bulk'.busy = "no"
          /\ bulk'.preview # NoResult => bulk'.preview.disturbed
      <4>1. CASE bulk.preview = NoResult
        <5>1. bulk' = [bulk EXCEPT !.busy = "no"]
          BY <1>2, <1>4, <2>1, <4>1 DEF BulkLands, BulkDialog
        <5> QED BY <1>2, <4>1, <5>1 DEF BulkDialog
      <4>2. CASE bulk.preview # NoResult
        <5>1. bulk.preview \in [rows : BulkPlan, disturbed : BOOLEAN]
          BY <1>2, <4>2 DEF BulkDialog
        <5>2. bulk' = [bulk EXCEPT !.busy = "no", !.preview = [bulk.preview EXCEPT !.disturbed = TRUE]]
          BY <1>2, <1>4, <2>1, <4>2 DEF BulkLands, BulkDialog
        <5> QED BY <1>2, <5>1, <5>2 DEF BulkDialog
      <4> QED BY <4>1, <4>2
    <3> QED BY <1>1, <3>1 DEF BulkInv, BulkShapes, BulkDialog, RequestIsValid, RequestIsCurrent, TableIsCurrent
  <2>2. CASE bulkRequest.action = "preview"
    <3>1. bulk' = [bulk EXCEPT !.busy = "no"]
      BY <1>2, <1>4, <2>2 DEF BulkLands, BulkDialog
    <3>2. bulk' \in BulkDialog /\ bulk'.busy = "no" /\ bulk'.open = bulk.open /\ bulk'.preview = bulk.preview
          /\ bulk'.percentage = bulk.percentage /\ bulk'.rounding = bulk.rounding
          /\ bulk'.allProducts = bulk.allProducts /\ bulk'.selected = bulk.selected
      BY <1>2, <3>1 DEF BulkDialog
    <3>3. ~ApplyAnswered
      BY <2>2 DEF ApplyAnswered
    <3>4. requestBody(bulk') = requestBody(bulk) /\ validBulk(bulk') = validBulk(bulk)
      BY <3>2, SameBody
    <3> QED BY <1>1, <3>2, <3>3, <3>4
            DEF BulkInv, BulkShapes, BulkDialog, RequestIsValid, RequestIsCurrent, TableIsCurrent
  <2> QED BY <1>3, <2>1, <2>2
<1>5. CASE bulkRequest.phase = "done" /\ bulkRequest.action = "apply"
  <2>1. bulk' = [bulk EXCEPT !.busy = "no", !.open = FALSE]
    BY <1>5 DEF BulkLands
  <2>2. bulk' \in BulkDialog /\ bulk'.busy = "no" /\ ~bulk'.open
    BY <1>2, <2>1 DEF BulkDialog
  <2> QED BY <1>1, <2>2 DEF BulkInv, BulkShapes, BulkDialog, RequestIsValid, RequestIsCurrent, TableIsCurrent
<1>6. CASE bulkRequest.phase = "done" /\ bulkRequest.action = "preview"
  <2>1. bulk' = [bulk EXCEPT !.busy = "no",
                   !.preview = [rows |-> bulkRequest.rows, disturbed |-> bulkRequest.disturbed]]
    BY <1>6 DEF BulkLands
  <2>2. bulkRequest.rows \in BulkPlan
    BY <1>1, <1>6 DEF BulkInv, RequestIsValid
  <2>3. bulk' \in BulkDialog /\ bulk'.busy = "no"
        /\ bulk'.preview.rows = bulkRequest.rows /\ bulk'.preview.disturbed = bulkRequest.disturbed
        /\ requestBody(bulk') = requestBody(bulk) /\ validBulk(bulk') = validBulk(bulk)
    <3> PICK table : table = [rows |-> bulkRequest.rows, disturbed |-> bulkRequest.disturbed]
      OBVIOUS
    <3>1. table \in [rows : BulkPlan, disturbed : BOOLEAN] /\ table.rows = bulkRequest.rows
          /\ table.disturbed = bulkRequest.disturbed
      BY <1>2, <1>3, <2>2
    <3>2. bulk' = [bulk EXCEPT !.busy = "no", !.preview = table]
      BY <2>1
    <3>3. bulk' \in BulkDialog
      BY <1>2, <3>1, <3>2 DEF BulkDialog
    <3>4. /\ bulk'.busy = "no" /\ bulk'.preview = table
          /\ bulk'.percentage = bulk.percentage /\ bulk'.rounding = bulk.rounding
          /\ bulk'.allProducts = bulk.allProducts /\ bulk'.selected = bulk.selected
      BY <1>2, <3>2 DEF BulkDialog
    <3>5. requestBody(bulk') = requestBody(bulk) /\ validBulk(bulk') = validBulk(bulk)
      BY <3>4, SameBody
    <3> QED BY <3>1, <3>3, <3>4, <3>5
  <2>4. TableIsCurrent'
    BY <1>1, <1>6, <2>3 DEF BulkInv, RequestIsCurrent, TableIsCurrent
  <2> QED BY <1>1, <2>3, <2>4 DEF BulkInv, BulkShapes, BulkDialog, RequestIsValid, RequestIsCurrent
<1> QED BY <1>1, <1>3, <1>4, <1>5, <1>6

LEMMA BulkInvStep == BulkInv /\ [BulkNext]_bulkVars => BulkInv'
<1> SUFFICES ASSUME BulkInv, [BulkNext]_bulkVars PROVE BulkInv'
  OBVIOUS
<1>1. CASE UNCHANGED bulkVars
  BY <1>1 DEF bulkVars, BulkInv, BulkShapes, RequestIsValid, RequestIsCurrent, TableIsCurrent, ApplyAnswered
<1>2. CASE BulkNext
  BY <1>2, OpenKeeps, CloseKeeps, RefuseKeeps, ChoicesKeep, RunKeeps, RefusalKeeps, PlanKeeps, BulkLandingKeeps,
     OthersKeep DEF BulkNext
<1> QED BY <1>1, <1>2

-----------------------------------------------------------------------------
(* The theorems.                                                            *)

LEMMA BulkInvAlways == BulkSpec => []BulkInv
  BY BulkInvInit, BulkInvStep, PTL DEF BulkSpec

(* The dialog, its request and the stored prices stay in shape: whatever the *)
(* percentage and the rounding, no price leaves 0..PriceCeiling             *)
(* (utils/pricing.go, and the check of ApplyPrices).                        *)
THEOREM BulkTyped == BulkSpec => []BulkTypeOK
<1>1. BulkInv => BulkTypeOK
  <2> SUFFICES ASSUME BulkInv PROVE BulkTypeOK
    OBVIOUS
  <2>1. bulkRequest # NoResult => bulk.open /\ bulkRequest.body \in BulkBody
    BY DEF BulkInv, BulkShapes, BulkRequest
  <2> QED BY <2>1 DEF BulkInv, BulkShapes, BulkDialog, BulkTypeOK
<1> QED BY <1>1, BulkInvAlways, PTL

(* "Uygula" writes the rows of the table: for any percentages, any shelves   *)
(* and any other writers, an undisturbed table holds exactly what an apply   *)
(* of the settings on screen would write.                                   *)
THEOREM BulkApplyIsPreview == BulkSpec => []PreviewIsWhatApplyDoes
<1>1. BulkInv => PreviewIsWhatApplyDoes
  BY DEF BulkInv, TableIsCurrent, ApplyAnswered, PreviewIsWhatApplyDoes
<1> QED BY <1>1, BulkInvAlways, PTL

-----------------------------------------------------------------------------
(* The settings page.                                                       *)

Halves == {"display", "footer"}

MenusOK(R) == R = [m \in SettingsMenu |-> R[m]] /\ \A m \in SettingsMenu : IsRecord(R[m])

(* What was not edited is what the draft was built with; what was edited is  *)
(* what its control lets through.                                           *)
DraftOK ==
  /\ draft = [f \in Field |-> draft[f]]
  /\ \A f \in Text : IsText(draft[f])
  /\ draft.display # "footer"
  /\ \A f \in Field \ settingsEdited : fieldEqual(f, draft[f], base[f])
  /\ "headline" \in settingsEdited => draft.headline.units <= MaxNote
  /\ "languages" \in settingsEdited => draft.languages # {}

SaveFields == {"menu", "visit", "body", "edited", "placement", "before", "overtaken", "phase", "answer"}

(* A save that carries one half of a placement is of a menu whose other half  *)
(* was in the page as it is stored, which no write makes a legacy one again. *)
SaveOK(s, R, v) ==
  /\ SaveFields \subseteq DOMAIN s
  /\ s.menu \in SettingsMenu /\ s.visit \in 0..v
  /\ s.body = [f \in DOMAIN s.body |-> s.body[f]]
  /\ \A f \in DOMAIN s.body : f \in Field /\ (f \in Text => IsText(s.body[f]))
  /\ s.placement = [display |-> s.placement.display, footer |-> s.placement.footer]
  /\ s.placement.display # "footer"
  /\ \A h \in Halves : h \in DOMAIN s.body => s.body[h] = s.placement[h]
  /\ \A h \in Halves : h \notin DOMAIN s.body /\ Halves \cap DOMAIN s.body # {} =>
       s.placement[h] = s.before[h] /\ R[s.menu].display # "footer"
  /\ IsRecord(s.answer)
  /\ R[s.menu].display = "footer" => s.answer.display = "footer"

OwnSave(i) == settingsSaves[i].visit = settingsVisit

SavesOK ==
  /\ settingsSaves \in Seq(ToSet(settingsSaves))
  /\ \A i \in DOMAIN settingsSaves : SaveOK(settingsSaves[i], menuRecords, settingsVisit)
  /\ \A i \in DOMAIN settingsSaves : OwnSave(i) => saving
  /\ \A i, j \in DOMAIN settingsSaves : OwnSave(i) /\ OwnSave(j) => i = j

PageOK ==
  /\ MenusOK(menuRecords) /\ MenusOK(shownRecords)
  /\ settingsMenu \in SettingsMenu /\ settingsSteps \in Nat /\ settingsVisit \in Nat
  /\ imageUploads \subseteq Nat \X Image
  /\ base = buildDraft(shownRecords[settingsMenu])
  /\ \A m \in SettingsMenu : menuRecords[m].display = "footer" => shownRecords[m].display = "footer"

SettingsInv == PageOK /\ DraftOK /\ SavesOK /\ SavedAsEdited

-----------------------------------------------------------------------------
(* Sequences of saves.                                                      *)

LEMMA OwnElements == ASSUME NEW S, NEW t \in Seq(S) PROVE t \in Seq(ToSet(t))
  BY DEF ToSet

LEMMA AppendedTo ==
  ASSUME NEW S, NEW s \in Seq(S), NEW e
  PROVE  /\ Append(s, e) \in Seq(ToSet(Append(s, e)))
         /\ DOMAIN Append(s, e) = DOMAIN s \cup {Len(s) + 1}
         /\ Append(s, e)[Len(s) + 1] = e
         /\ \A i \in DOMAIN s : Append(s, e)[i] = s[i] /\ i # Len(s) + 1
<1>1. Append(s, e) \in Seq(S \cup {e})
  OBVIOUS
<1>2. Append(s, e) \in Seq(ToSet(Append(s, e)))
  BY <1>1, OwnElements
<1>3. DOMAIN Append(s, e) = 1..(Len(s) + 1) /\ DOMAIN s = 1..Len(s) /\ Len(s) \in Nat
  OBVIOUS
<1>4. Append(s, e)[Len(s) + 1] = e /\ \A i \in DOMAIN s : Append(s, e)[i] = s[i]
  OBVIOUS
<1> QED
  BY <1>2, <1>3, <1>4

LEMMA RemovedFrom ==
  ASSUME NEW S, NEW s \in Seq(S), NEW i \in DOMAIN s
  PROVE  /\ RemoveAt(s, i) \in Seq(ToSet(RemoveAt(s, i)))
         /\ \A j \in DOMAIN RemoveAt(s, i) :
              LET k == IF j < i THEN j ELSE j + 1
              IN k \in DOMAIN s \ {i} /\ RemoveAt(s, i)[j] = s[k]
<1> DEFINE a == SubSeq(s, 1, i - 1)
           b == SubSeq(s, i + 1, Len(s))
<1>a. a \in Seq(S) /\ Len(a) = i - 1 /\ \A j \in 1..(i - 1) : a[j] = s[j]
  BY SubSeqProperties
<1>b. b \in Seq(S) /\ Len(b) = Len(s) - i /\ \A j \in 1..(Len(s) - i) : b[j] = s[i + j]
  BY SubSeqProperties
<1>c. RemoveAt(s, i) = a \o b
  BY DEF RemoveAt
<1> HIDE DEF a, b
<1>1. RemoveAt(s, i) \in Seq(S)
  BY <1>a, <1>b, <1>c
<1>2. Len(RemoveAt(s, i)) = Len(s) - 1
  BY <1>a, <1>b, <1>c
<1>3. ASSUME NEW j \in 1..(Len(s) - 1)
      PROVE  RemoveAt(s, i)[j] = IF j < i THEN s[j] ELSE s[j + 1]
  BY <1>a, <1>b, <1>c
<1>4. RemoveAt(s, i) \in Seq(ToSet(RemoveAt(s, i)))
  BY <1>1, OwnElements
<1> QED
  BY <1>1, <1>2, <1>3, <1>4

LEMMA ReplacedIn ==
  ASSUME NEW S, NEW s \in Seq(S), NEW i \in DOMAIN s, NEW e, NEW t, t = [s EXCEPT ![i] = e]
  PROVE  /\ t \in Seq(ToSet(t)) /\ DOMAIN t = DOMAIN s
         /\ t[i] = e /\ \A j \in DOMAIN s : j # i => t[j] = s[j]
<1>1. t \in Seq(S \cup {e}) /\ Len(t) = Len(s)
  OBVIOUS
<1>2. t \in Seq(ToSet(t))
  BY <1>1, OwnElements
<1> QED
  BY <1>1, <1>2

-----------------------------------------------------------------------------
(* From a menu to a draft.                                                   *)

(* A draft depends on nothing but the fields.                                *)
LEMMA DraftOfFields ==
  ASSUME NEW r, NEW q, \A f \in Field : r[f] = q[f]
  PROVE  buildDraft(r) = buildDraft(q)
<1>1. Halves \cup {"slug", "links", "primary", "languages"} \subseteq Field
  BY DEF Field, Halves
<1>2. contactPlacement(r) = contactPlacement(q)
  BY <1>1 DEF contactPlacement, Halves
<1>3. /\ r.slug = q.slug /\ r.links = q.links /\ r.primary = q.primary /\ r.languages = q.languages
  BY <1>1
<1>4. ASSUME NEW f \in Field PROVE buildDraft(r)[f] = buildDraft(q)[f]
  BY <1>2, <1>3 DEF buildDraft
<1> QED
  BY <1>2, <1>3 DEF buildDraft

LEMMA SameKey ==
  ASSUME NEW r, NEW q, IsRecord(r), IsRecord(q), storedKey(r) = storedKey(q), NEW f \in Field
  PROVE  r[f] = q[f]
<1>1. f \notin {"priceDate", "count"}
  BY DEF Field, Image, Text, Colour, Choice
<1>2. storedKey(r)[f] = r[f] /\ storedKey(q)[f] = q[f]
  BY <1>1 DEF storedKey, IsRecord
<1> QED
  BY <1>2

LEMMA OtherKey ==
  ASSUME NEW r, NEW q, IsRecord(r), IsRecord(q), storedKey(r) # storedKey(q)
  PROVE  \E f \in Field : r[f] # q[f]
<1> SUFFICES ASSUME \A f \in Field : r[f] = q[f] PROVE FALSE
  OBVIOUS
<1>1. storedKey(r) = storedKey(q)
  BY DEF storedKey, IsRecord
<1> QED
  BY <1>1

LEMMA FieldEqualItself == ASSUME NEW f, NEW a PROVE fieldEqual(f, a, a)
  BY DEF fieldEqual, linksEqual

(* A draft that was just built.                                             *)
LEMMA BuiltDraft ==
  ASSUME NEW r, IsRecord(r), draft' = buildDraft(r), base' = buildDraft(r), settingsEdited' = {}
  PROVE  DraftOK'
<1>1. draft' = [f \in Field |-> draft'[f]]
  BY DEF buildDraft
<1>2. ASSUME NEW f \in Text PROVE IsText(draft'[f])
  <2>1. f \in Field /\ f \notin {"slug", "links", "display", "footer", "primary"} /\ IsText(r[f])
    BY DEF Text, Field, IsRecord
  <2>2. draft'[f] = r[f]
    BY <2>1 DEF buildDraft
  <2> QED
    BY <2>1, <2>2
<1>3. draft'.display # "footer"
  <2>1. draft'.display = contactPlacement(r).display
    BY DEF buildDraft, Field
  <2> QED
    BY <2>1 DEF contactPlacement
<1>4. \A f \in Field : fieldEqual(f, draft'[f], base'[f])
  BY FieldEqualItself
<1> QED
  BY <1>1, <1>2, <1>3, <1>4 DEF DraftOK

(* The saves of a page that stays as it is.                                  *)
LEMMA SavesStay ==
  ASSUME SavesOK, UNCHANGED <<menuRecords, saving, settingsVisit, settingsSaves>>
  PROVE  SavesOK'
  BY DEF SavesOK, OwnSave

LEMMA SavedStay ==
  ASSUME SavedAsEdited, UNCHANGED settingsSaves PROVE SavedAsEdited'
  BY DEF SavedAsEdited, SavesWhatWasEdited, PlacementSavedAsShown

(* A render of new values: the draft stays, or is built again.               *)
LEMMA ShowsKeeps ==
  ASSUME PageOK, DraftOK, NEW m \in SettingsMenu, NEW r, IsRecord(r), NEW saved \in BOOLEAN,
         Shows(m, r, saved), UNCHANGED <<menuRecords, settingsMenu, settingsVisit, imageUploads>>,
         settingsSteps' \in Nat, menuRecords[m].display = "footer" => r.display = "footer"
  PROVE  PageOK' /\ DraftOK'
<1>1. /\ shownRecords' = [shownRecords EXCEPT ![m] = r]
      /\ \A n \in SettingsMenu : shownRecords'[n] = IF n = m THEN r ELSE shownRecords[n]
  BY DEF Shows, PageOK, MenusOK
<1>2. MenusOK(shownRecords)'
  BY <1>1 DEF PageOK, MenusOK
<1>3. IsRecord(shownRecords'[settingsMenu])
  BY <1>2 DEF PageOK, MenusOK
<1>4. base' = buildDraft(shownRecords'[settingsMenu]) /\ DraftOK'
  <2>1. CASE DraftOf(shownRecords'[settingsMenu])
    BY <1>3, <2>1, BuiltDraft DEF DraftOf
  <2>2. CASE UNCHANGED settingsForm /\ ~(m = settingsMenu /\ storedKey(r) # storedKey(shownRecords[m]))
    <3>1. \A f \in Field : shownRecords'[settingsMenu][f] = shownRecords[settingsMenu][f]
      BY <1>1, <2>2, SameKey DEF PageOK, MenusOK
    <3>2. buildDraft(shownRecords'[settingsMenu]) = buildDraft(shownRecords[settingsMenu])
      BY <3>1, DraftOfFields
    <3> QED
      BY <2>2, <3>2 DEF settingsForm, PageOK, DraftOK
  <2> QED
    BY <2>1, <2>2 DEF Shows
<1>5. \A n \in SettingsMenu : menuRecords[n].display = "footer" => shownRecords'[n].display = "footer"
  BY <1>1 DEF PageOK
<1> QED
  BY <1>2, <1>4, <1>5 DEF PageOK, MenusOK

(* The draft of a page that was just opened.                                *)
LEMMA BuiltDraftNow ==
  ASSUME NEW r, IsRecord(r), draft = buildDraft(r), base = buildDraft(r), settingsEdited = {}
  PROVE  DraftOK
<1>1. draft = [f \in Field |-> draft[f]]
  BY DEF buildDraft
<1>2. ASSUME NEW f \in Text PROVE IsText(draft[f])
  <2>1. f \in Field /\ f \notin {"slug", "links", "display", "footer", "primary"} /\ IsText(r[f])
    BY DEF Text, Field, IsRecord
  <2>2. draft[f] = r[f]
    BY <2>1 DEF buildDraft
  <2> QED
    BY <2>1, <2>2
<1>3. draft.display # "footer"
  <2>1. draft.display = contactPlacement(r).display
    BY DEF buildDraft, Field
  <2> QED
    BY <2>1 DEF contactPlacement
<1>4. \A f \in Field : fieldEqual(f, draft[f], base[f])
  BY FieldEqualItself
<1> QED
  BY <1>1, <1>2, <1>3, <1>4 DEF DraftOK

-----------------------------------------------------------------------------
(* The owner's edits.                                                        *)

LEMMA EditedKeeps ==
  ASSUME SettingsInv, NEW fields \in SUBSET Field, NEW d, NEW error, Edited(fields, d, error),
         d = [f \in Field |-> d[f]],
         \A f \in Field \ fields : d[f] = draft[f],
         \A f \in fields \cap Text : IsText(d[f]),
         "display" \in fields => d.display # "footer",
         "headline" \in fields => d.headline.units <= MaxNote,
         "languages" \in fields => d.languages # {}
  PROVE  SettingsInv'
<1>1. /\ draft' = d /\ settingsEdited' = settingsEdited \cup fields /\ settingsSteps' = settingsSteps + 1
      /\ UNCHANGED <<menuRecords, shownRecords, settingsMenu, base, saving, settingsVisit, settingsSaves, imageUploads>>
  BY DEF Edited, SettingsStep
<1>2. PageOK'
  BY <1>1 DEF SettingsInv, PageOK, MenusOK
<1>3. SavesOK' /\ SavedAsEdited'
  BY <1>1, SavesStay, SavedStay DEF SettingsInv
<1>4. Text \cup {"display", "headline", "languages"} \subseteq Field
  BY DEF Text, Field
<1>5. \A f \in Text : IsText(draft'[f])
  BY <1>1, <1>4 DEF SettingsInv, DraftOK
<1>6. \A f \in Field \ settingsEdited' : fieldEqual(f, draft'[f], base'[f])
  BY <1>1 DEF SettingsInv, DraftOK
<1>7. draft'.display # "footer"
  BY <1>1, <1>4 DEF SettingsInv, DraftOK
<1>8. /\ "headline" \in settingsEdited' => draft'.headline.units <= MaxNote
      /\ "languages" \in settingsEdited' => draft'.languages # {}
  BY <1>1, <1>4 DEF SettingsInv, DraftOK
<1>9. DraftOK'
  BY <1>1, <1>5, <1>6, <1>7, <1>8 DEF DraftOK
<1> QED
  BY <1>2, <1>3, <1>9 DEF SettingsInv

LEMMA UpdateKeeps ==
  ASSUME SettingsInv, NEW f \in Field, NEW v, update(f, v), f # "languages",
         f \in Text => IsText(v), f = "display" => v # "footer", f = "headline" => v.units <= MaxNote
  PROVE  SettingsInv'
<1> DEFINE d == [draft EXCEPT ![f] = v]
<1>1. draft = [g \in Field |-> draft[g]]
  BY DEF SettingsInv, DraftOK
<1>2. d = [g \in Field |-> d[g]] /\ d[f] = v /\ \A g \in Field \ {f} : d[g] = draft[g]
  BY <1>1
<1>3. Edited({f}, d, slugError)
  BY DEF update
<1> HIDE DEF d
<1> QED
  BY <1>2, <1>3, EditedKeeps

(* The controls without a text.                                              *)
LEMMA SwitchKeeps ==
  ASSUME SettingsInv,
         \/ EditHeader \/ EditPlacement \/ EditFooter \/ EditShowDate \/ EditShowVat \/ EditProduction
         \/ EditCurrency \/ EditTheme \/ EditFont \/ EditBackgroundType \/ EditOverlay
         \/ SwitchSplash \/ EditSplashDisplay \/ EditDuration \/ EditEntrance \/ EditExitAnimation
         \/ EditSlideStyle \/ EditEasing \/ EditExitDuration \/ EditStatus
  PROVE  SettingsInv'
<1>1. PICK f \in Choice \cup {"duration", "display", "footer"} : \E v : update(f, v) /\ (f = "display" => v # "footer")
  BY DEF EditHeader, EditPlacement, EditFooter, EditShowDate, EditShowVat, EditProduction,
         EditCurrency, EditTheme, EditFont, EditBackgroundType, EditOverlay,
         SwitchSplash, EditSplashDisplay, EditDuration, EditEntrance, EditExitAnimation,
         EditSlideStyle, EditEasing, EditExitDuration, EditStatus, Choice
<1>2. f \in Field /\ f \notin Text /\ f \notin {"languages", "headline"}
  BY DEF Field, Choice, Text
<1> QED
  BY <1>1, <1>2, UpdateKeeps

(* The texts, colours and images.                                            *)
LEMMA WriteKeeps ==
  ASSUME SettingsInv,
         \/ \E t \in NameTyped : EditName(t)
         \/ \E t \in NoteTyped : EditSlogan(t) \/ EditDescription(t) \/ EditVatNote(t) \/ EditHeadline(t)
         \/ \E t \in PhoneTyped : EditPhone(t) \/ EditInstagram(t) \/ EditWifi(t)
  PROVE  SettingsInv'
<1>1. PICK t \in NameTyped \cup NoteTyped \cup PhoneTyped :
        \E f \in Text : update(f, t) /\ (f = "headline" => t.units <= MaxNote)
  BY DEF EditName, EditSlogan, EditDescription, EditVatNote, EditHeadline, EditPhone, EditInstagram, EditWifi, Text
<1>2. PICK f \in Text : update(f, t) /\ (f = "headline" => t.units <= MaxNote)
  BY <1>1
<1>3. f \in Field /\ f \notin {"languages", "display"}
  BY DEF Field, Text
<1>4. IsText(t)
  BY SettingsTexts
<1> QED
  BY <1>2, <1>3, <1>4, UpdateKeeps

LEMMA PaintKeeps ==
  ASSUME SettingsInv,
         \/ \E c \in {"none", "other", "invalid"} : EditAccent(c) \/ EditInk(c) \/ EditBackground(c) \/ EditSplashColour(c)
         \/ \E f \in Image : ClearImage(f)
         \/ \E l \in OfferedLanguage : ChooseDefaultLanguage(l)
  PROVE  SettingsInv'
<1>1. PICK f \in Colour \cup Image \cup {"primary"} : \E v : update(f, v)
  BY DEF EditAccent, EditInk, EditBackground, EditSplashColour, ClearImage, ChooseDefaultLanguage, Colour
<1>2. f \in Field /\ f \notin Text /\ f \notin {"languages", "headline", "display"}
  BY DEF Field, Text, Colour, Image
<1> QED
  BY <1>1, <1>2, UpdateKeeps

LEMMA LinksKeep == ASSUME SettingsInv, EditLinks PROVE SettingsInv'
<1>1. PICK v : update("links", v)
  BY DEF EditLinks, addLink, updateLinkLabel, updateLinkUrl, moveLink, removeLink
<1>2. "links" \in Field /\ "links" \notin Text
  BY DEF Field, Text
<1> QED
  BY <1>1, <1>2, UpdateKeeps

LEMMA AddressKeeps == ASSUME SettingsInv, NEW s, EditSlug(s) PROVE SettingsInv'
<1> DEFINE d == [draft EXCEPT !.slug = s]
<1>1. draft = [g \in Field |-> draft[g]] /\ "slug" \in Field /\ "slug" \notin Text
  BY DEF SettingsInv, DraftOK, Field, Text
<1>2. d = [g \in Field |-> d[g]] /\ \A g \in Field \ {"slug"} : d[g] = draft[g]
  BY <1>1
<1>3. Edited({"slug"}, d, FALSE)
  BY DEF EditSlug
<1> HIDE DEF d
<1> QED
  BY <1>1, <1>2, <1>3, EditedKeeps

LEMMA LanguageKeeps == ASSUME SettingsInv, NEW l, toggleLanguage(l) PROVE SettingsInv'
<1>1. PICK next, k :
        next # {} /\ Edited({"languages", "primary"}, [draft EXCEPT !.languages = next, !.primary = k], slugError)
  BY DEF toggleLanguage
<1> DEFINE d == [draft EXCEPT !.languages = next, !.primary = k]
<1>2. draft = [g \in Field |-> draft[g]] /\ {"languages", "primary"} \subseteq Field \ Text
  BY DEF SettingsInv, DraftOK, Field, Text
<1>3. d = [g \in Field |-> d[g]] /\ \A g \in Field \ {"languages", "primary"} : d[g] = draft[g]
  BY <1>2
<1>4. d.languages = next
  BY <1>2
<1>5. Edited({"languages", "primary"}, d, slugError)
  BY <1>1
<1> HIDE DEF d
<1> QED
  BY <1>1, <1>2, <1>3, <1>4, <1>5, EditedKeeps

(* Uploads.                                                                 *)

LEMMA StartUploadKeeps == ASSUME SettingsInv, NEW f \in Image, StartUpload(f) PROVE SettingsInv'
<1>1. /\ imageUploads' = imageUploads \cup {<<settingsVisit, f>>} /\ settingsSteps' = settingsSteps + 1
      /\ UNCHANGED <<menuRecords, shownRecords, settingsMenu, settingsForm, saving, settingsVisit, settingsSaves>>
  BY DEF StartUpload, SettingsStep
<1>2. PageOK'
  BY <1>1 DEF SettingsInv, PageOK, MenusOK, settingsForm
<1>3. DraftOK'
  BY <1>1 DEF SettingsInv, DraftOK, settingsForm
<1> QED
  BY <1>1, <1>2, <1>3, SavesStay, SavedStay DEF SettingsInv

LEMMA UploadEndKeeps == ASSUME SettingsInv, NEW u \in imageUploads, UploadEnds(u[1], u[2]) PROVE SettingsInv'
<1> DEFINE f == u[2]
<1>1. /\ f \in Field /\ f \notin Text /\ f \notin {"display", "headline", "languages"}
      /\ {"display", "headline", "languages"} \cup Text \subseteq Field
  BY DEF SettingsInv, PageOK, Image, Field, Text
<1>2. /\ \A w \in imageUploads' : w \in imageUploads
      /\ UNCHANGED <<menuRecords, shownRecords, settingsMenu, base, saving, settingsVisit, settingsSaves, settingsSteps>>
  BY DEF UploadEnds, settingsForm
<1>3. PageOK'
  BY <1>2 DEF SettingsInv, PageOK, MenusOK
<1>4. DraftOK'
  <2>1. CASE UNCHANGED settingsForm
    BY <2>1 DEF SettingsInv, DraftOK, settingsForm
  <2>2. CASE draft' = [draft EXCEPT ![f] = ~@] /\ settingsEdited' = settingsEdited \cup {f}
    <3>1. draft' = [g \in Field |-> draft'[g]] /\ \A g \in Field \ {f} : draft'[g] = draft[g]
      BY <2>2, <1>1 DEF SettingsInv, DraftOK
    <3> QED
      BY <3>1, <2>2, <1>1, <1>2 DEF SettingsInv, DraftOK
  <2> QED
    BY <2>1, <2>2 DEF UploadEnds
<1> QED
  BY <1>2, <1>3, <1>4, SavesStay, SavedStay DEF SettingsInv

-----------------------------------------------------------------------------
(* The page and the other tabs.                                              *)

LEMMA SwitchSettingsKeeps ==
  ASSUME SettingsInv, NEW m \in SettingsMenu, SwitchSettings(m) PROVE SettingsInv'
<1>1. /\ settingsMenu' = m /\ settingsSteps' = settingsSteps + 1 /\ DraftOf(shownRecords[m])
      /\ UNCHANGED <<menuRecords, shownRecords, saving, settingsVisit, settingsSaves, imageUploads>>
  BY DEF SwitchSettings, SettingsStep
<1>2. PageOK'
  BY <1>1 DEF SettingsInv, PageOK, MenusOK, DraftOf
<1>3. IsRecord(shownRecords[m])
  BY DEF SettingsInv, PageOK, MenusOK
<1>4. DraftOK'
  BY <1>1, <1>3, BuiltDraft DEF DraftOf
<1> QED
  BY <1>1, <1>2, <1>4, SavesStay, SavedStay DEF SettingsInv

LEMMA VisitSettingsKeeps == ASSUME SettingsInv, VisitSettings PROVE SettingsInv'
<1>1. /\ settingsVisit' = settingsVisit + 1 /\ settingsSteps' = settingsSteps + 1
      /\ DraftOf(shownRecords[settingsMenu])
      /\ UNCHANGED <<menuRecords, shownRecords, settingsMenu, settingsSaves, imageUploads>>
  BY DEF VisitSettings, SettingsStep
<1>2. PageOK'
  BY <1>1 DEF SettingsInv, PageOK, MenusOK, DraftOf
<1>3. IsRecord(shownRecords[settingsMenu])
  BY DEF SettingsInv, PageOK, MenusOK
<1>4. DraftOK'
  BY <1>1, <1>3, BuiltDraft DEF DraftOf
<1>5. SavesOK'
  <2>1. settingsVisit \in Nat /\ settingsVisit' = settingsVisit + 1
    BY <1>1 DEF SettingsInv, PageOK
  <2>2. \A i \in DOMAIN settingsSaves : settingsSaves[i].visit \in 0..settingsVisit
    BY DEF SettingsInv, SavesOK, SaveOK
  <2>3. \A i \in DOMAIN settingsSaves : settingsSaves[i].visit # settingsVisit' /\ settingsSaves[i].visit \in 0..settingsVisit'
    BY <2>1, <2>2
  <2>4. \A i \in DOMAIN settingsSaves : SaveOK(settingsSaves[i], menuRecords', settingsVisit')
    BY <1>1, <2>3 DEF SettingsInv, SavesOK, SaveOK
  <2> QED
    BY <1>1, <2>3, <2>4 DEF SettingsInv, SavesOK, OwnSave
<1> QED
  BY <1>1, <1>2, <1>4, <1>5, SavedStay DEF SettingsInv

LEMMA CountedRecord ==
  ASSUME NEW r, IsRecord(r), NEW n PROVE IsRecord([r EXCEPT !.count = n])
<1>1. ASSUME NEW f \in Text PROVE [r EXCEPT !.count = n][f] = r[f]
  BY DEF IsRecord, Text, Field
<1> QED
  BY <1>1 DEF IsRecord

LEMMA RefreshSettingsKeeps ==
  ASSUME SettingsInv, NEW m \in SettingsMenu, RefreshSettings(m) \/ CountChanges(m) PROVE SettingsInv'
<1>1. PICK q \in {menuRecords[m], shownRecords[m]} : \E n : Shows(m, [q EXCEPT !.count = n], FALSE)
  BY DEF RefreshSettings, CountChanges
<1>n. PICK n : Shows(m, [q EXCEPT !.count = n], FALSE)
  BY <1>1
<1> DEFINE r == [q EXCEPT !.count = n]
<1>2. /\ UNCHANGED <<menuRecords, settingsMenu, saving, settingsVisit, settingsSaves, imageUploads>>
      /\ settingsSteps' \in Nat
  <2>1. settingsSteps \in Nat
    BY DEF SettingsInv, PageOK
  <2>2. CASE RefreshSettings(m)
    BY <2>1, <2>2 DEF RefreshSettings
  <2>3. CASE CountChanges(m)
    BY <2>1, <2>3 DEF CountChanges, SettingsStep
  <2> QED
    BY <2>2, <2>3
<1>3. IsRecord(q) /\ (menuRecords[m].display = "footer" => q.display = "footer")
  BY DEF SettingsInv, PageOK, MenusOK
<1>4. IsRecord(r)
  BY <1>3, CountedRecord
<1>5. r.display = q.display
  BY <1>3 DEF IsRecord, Field
<1>6. Shows(m, r, FALSE)
  BY <1>n
<1> HIDE DEF r
<1>7. PageOK' /\ DraftOK'
  BY <1>2, <1>3, <1>4, <1>5, <1>6, ShowsKeeps DEF SettingsInv
<1> QED
  BY <1>2, <1>7, SavesStay, SavedStay DEF SettingsInv

(* A write to the stored menus that makes none a legacy one.                  *)
LEMMA StoredWrite ==
  ASSUME SettingsInv, NEW m \in SettingsMenu, NEW r, IsRecord(r), menuRecords' = [menuRecords EXCEPT ![m] = r],
         r.display = "footer" => menuRecords[m].display = "footer"
  PROVE  /\ MenusOK(menuRecords)'
         /\ \A n \in SettingsMenu : menuRecords'[n].display = "footer" => menuRecords[n].display = "footer"
<1>1. \A n \in SettingsMenu : menuRecords'[n] = IF n = m THEN r ELSE menuRecords[n]
  BY DEF SettingsInv, PageOK, MenusOK
<1> QED
  BY <1>1 DEF SettingsInv, PageOK, MenusOK

LEMMA SaveOKAfterWrite ==
  ASSUME NEW s, NEW R, NEW Q, NEW v, SaveOK(s, R, v),
         \A n \in SettingsMenu : Q[n].display = "footer" => R[n].display = "footer"
  PROVE  SaveOK(s, Q, v)
  BY DEF SaveOK

LEMMA OtherTabKeeps == ASSUME SettingsInv, NEW m \in SettingsMenu, OtherTabWrites(m) PROVE SettingsInv'
<1>1. PICK r : menuRecords' = [menuRecords EXCEPT ![m] = r] /\ IsRecord(r) /\ r.display = menuRecords[m].display
  <2> DEFINE old == menuRecords[m]
  <2>1. IsRecord(old) /\ menuRecords = [n \in SettingsMenu |-> menuRecords[n]]
    BY DEF SettingsInv, PageOK, MenusOK
  <2>2. CASE menuRecords' = [menuRecords EXCEPT ![m].priceDate = 1 - @]
    <3> DEFINE r == [old EXCEPT !.priceDate = 1 - @]
    <3>1. menuRecords' = [menuRecords EXCEPT ![m] = r]
      BY <2>2
    <3>2. \A f \in Text : r[f] = old[f]
      BY <2>1 DEF IsRecord, Field, Text
    <3>3. IsRecord(r) /\ r.display = old.display
      BY <2>1, <3>2 DEF IsRecord, Field
    <3> QED
      BY <3>1, <3>3
  <2>3. ASSUME NEW t \in PhoneTyped, menuRecords' = [menuRecords EXCEPT ![m].phone = t]
        PROVE  \E r : menuRecords' = [menuRecords EXCEPT ![m] = r] /\ IsRecord(r) /\ r.display = old.display
    <3> DEFINE r == [old EXCEPT !.phone = t]
    <3>1. menuRecords' = [menuRecords EXCEPT ![m] = r]
      BY <2>3
    <3>2. \A f \in Text : r[f] = IF f = "phone" THEN t ELSE old[f]
      BY <2>1 DEF IsRecord, Field, Text
    <3>3. IsRecord(r) /\ r.display = old.display
      BY <2>1, <3>2, SettingsTexts DEF IsRecord, Field
    <3> QED
      BY <3>1, <3>3
  <2> QED
    BY <2>2, <2>3 DEF OtherTabWrites
<1>2. /\ UNCHANGED <<shownRecords, settingsMenu, settingsForm, saving, settingsVisit, settingsSaves, imageUploads>>
      /\ settingsSteps' = settingsSteps + 1
  BY DEF OtherTabWrites, SettingsStep
<1>3. /\ MenusOK(menuRecords)'
      /\ \A n \in SettingsMenu : menuRecords'[n].display = "footer" => menuRecords[n].display = "footer"
  BY <1>1, StoredWrite
<1>4. PageOK'
  BY <1>2, <1>3 DEF SettingsInv, PageOK, MenusOK, settingsForm
<1>5. DraftOK'
  BY <1>2 DEF SettingsInv, DraftOK, settingsForm
<1>6. \A i \in DOMAIN settingsSaves : SaveOK(settingsSaves[i], menuRecords', settingsVisit')
  BY <1>2, <1>3, SaveOKAfterWrite DEF SettingsInv, SavesOK
<1>7. SavesOK'
  BY <1>2, <1>6 DEF SettingsInv, SavesOK, OwnSave
<1> QED
  BY <1>2, <1>4, <1>5, <1>7, SavedStay DEF SettingsInv

-----------------------------------------------------------------------------
(* Sending.                                                                  *)

LEMMA RefuseSettingsKeeps == ASSUME SettingsInv, RefuseSettings PROVE SettingsInv'
<1>1. UNCHANGED <<menuRecords, shownRecords, settingsMenu, base, draft, saving, settingsVisit,
                  settingsSaves, imageUploads, settingsEdited, settingsSteps>>
  BY DEF RefuseSettings
<1>2. PageOK' /\ DraftOK'
  BY <1>1 DEF SettingsInv, PageOK, MenusOK, DraftOK
<1> QED
  BY <1>1, <1>2, SavesStay, SavedStay DEF SettingsInv

LEMMA ChangedIsEdited == ASSUME SettingsInv PROVE changedFields \subseteq settingsEdited \cap Field
  BY DEF changedFields, SettingsInv, DraftOK

(* When nothing is left to send, the address alone was edited.               *)
LEMMA NothingLeftKeeps == ASSUME SettingsInv, NothingLeftToSend PROVE SettingsInv'
<1>1. /\ draft' = [draft EXCEPT !.slug.dash = FALSE]
      /\ UNCHANGED <<menuRecords, shownRecords, settingsMenu, base, saving, settingsVisit,
                     settingsSaves, imageUploads, settingsEdited, settingsSteps>>
  BY DEF NothingLeftToSend
<1>2. "slug" \in settingsEdited
  <2>1. changedFields # {} /\ FieldsSent = {}
    BY DEF NothingLeftToSend, CanSave, hasChanges
  <2> DEFINE gone == IF Address(draft.slug) = base.slug.text THEN {"slug"} ELSE {}
  <2>0. changedFields \ gone \subseteq FieldsSent /\ gone \subseteq {"slug"}
    BY DEF FieldsSent
  <2> HIDE DEF gone
  <2>2. \A f \in changedFields : f # "slug" => f \in FieldsSent
    BY <2>0
  <2> QED
    BY <2>1, <2>2, ChangedIsEdited
<1>3. draft' = [f \in Field |-> draft'[f]] /\ \A f \in Field \ {"slug"} : draft'[f] = draft[f]
  BY <1>1 DEF SettingsInv, DraftOK
<1>4. Text \cup {"display", "headline", "languages"} \subseteq Field \ {"slug"}
  BY DEF Text, Field
<1>5. DraftOK'
  BY <1>1, <1>2, <1>3, <1>4 DEF SettingsInv, DraftOK
<1>6. PageOK'
  BY <1>1 DEF SettingsInv, PageOK, MenusOK
<1> QED
  BY <1>1, <1>5, <1>6, SavesStay, SavedStay DEF SettingsInv

(* What a save sends of a draft without problems.                             *)
LEMMA BodySent ==
  ASSUME SettingsInv, NEW body, body = [f \in FieldsSent |-> ValueSent(f, draft)]
  PROVE  /\ DOMAIN body = FieldsSent /\ FieldsSent \subseteq Field
         /\ \A f \in DOMAIN body : f \in Text => IsText(body[f]) /\ body[f].units = draft[f].units /\ body[f].runes = draft[f].runes
         /\ \A h \in Halves : h \in DOMAIN body => body[h] = draft[h]
         /\ FieldsSent \subseteq settingsEdited
              \cup (IF settingsEdited \cap {"display", "footer"} # {} THEN {"display", "footer"} ELSE {})
<1>1. FieldsSent \subseteq changedFields \cup (IF changedFields \cap Halves # {} THEN Halves ELSE {})
  BY DEF FieldsSent, Halves
<1>2. Halves \subseteq Field /\ Halves \cap Text = {}
  BY DEF Halves, Field, Text
<1>3. FieldsSent \subseteq Field
  BY <1>1, <1>2, ChangedIsEdited
<1>4. ASSUME NEW f \in FieldsSent, f \in Text
      PROVE  IsText(body[f]) /\ body[f].units = draft[f].units /\ body[f].runes = draft[f].runes
  <2>1. body[f] = [draft[f] EXCEPT !.padded = FALSE]
    BY <1>4 DEF ValueSent, Trimmed, Text
  <2>2. IsText(draft[f])
    BY <1>4 DEF SettingsInv, DraftOK
  <2> QED
    BY <2>1, <2>2 DEF IsText
<1>5. ASSUME NEW h \in Halves, h \in DOMAIN body PROVE body[h] = draft[h]
  BY <1>5, <1>2 DEF ValueSent, Halves
<1>6. FieldsSent \subseteq settingsEdited
        \cup (IF settingsEdited \cap {"display", "footer"} # {} THEN {"display", "footer"} ELSE {})
  BY <1>1, ChangedIsEdited DEF Halves
<1> QED
  BY <1>3, <1>4, <1>5, <1>6

(* What the page lets through.                                               *)
LEMMA PagePasses ==
  ASSUME SettingsProblems(draft, changedFields) = {}
  PROVE  /\ ~(draft.name.units < 2) /\ ~(draft.name.units > MaxSettingsName)
         /\ ~(draft.description.units > MaxNote) /\ ~(draft.vatNote.units > MaxNote)
         /\ ~(draft.slogan.units > MaxSlogan)
         /\ ~(Address(draft.slug) < MinAddress)
         /\ "links" \in changedFields => ~LinksRefused(savableLinks(draft.links))
         /\ \A f \in Colour : ~(draft[f] = "invalid" \/ (draft[f] = "none" /\ f # "background"))
<1> DEFINE wrong(f) ==
    CASE f = "name" -> draft.name.units < 2 \/ draft.name.units > MaxSettingsName
      [] f \in {"description", "vatNote"} -> draft[f].units > MaxNote
      [] f = "slogan" -> draft.slogan.units > MaxSlogan
      [] f = "slug" -> Address(draft.slug) < MinAddress
      [] f = "links" -> "links" \in changedFields /\ LinksRefused(savableLinks(draft.links))
      [] f \in Colour -> draft[f] = "invalid" \/ (draft[f] = "none" /\ f # "background")
      [] OTHER -> FALSE
<1>1. \A f \in Field : ~wrong(f)
  BY DEF SettingsProblems
<1>2. {"name", "description", "vatNote", "slogan", "slug", "links"} \cup Colour \subseteq Field
  BY DEF Field, Text
<1>3. ~wrong("name") /\ ~wrong("description") /\ ~wrong("vatNote") /\ ~wrong("slogan") /\ ~wrong("slug") /\ ~wrong("links")
  BY <1>1, <1>2
<1>4. \A f \in Colour : ~wrong(f)
  BY <1>1, <1>2
<1>5. /\ ~(draft.name.units < 2) /\ ~(draft.name.units > MaxSettingsName)
      /\ ~(draft.description.units > MaxNote) /\ ~(draft.vatNote.units > MaxNote)
  BY <1>3 DEF Colour
<1>6. ~(draft.slogan.units > MaxSlogan) /\ ~(Address(draft.slug) < MinAddress)
  BY <1>3 DEF Colour
<1>7. "links" \in changedFields => ~LinksRefused(savableLinks(draft.links))
  BY <1>3 DEF Colour
<1>8. \A f \in Colour : ~(draft[f] = "invalid" \/ (draft[f] = "none" /\ f # "background"))
  BY <1>4 DEF Colour
<1> HIDE DEF wrong
<1> QED
  BY <1>5, <1>6, <1>7, <1>8

(* The server's rules after the page's.                                      *)
LEMMA SentIsTaken ==
  ASSUME SettingsInv, SettingsProblems(draft, changedFields) = {},
         NEW body, body = [f \in FieldsSent |-> ValueSent(f, draft)],
         NEW f \in SettingsRefusedFor(body)
  PROVE  f = "name" /\ body.name.runes < body.name.units
<1> USE SettingsConstants
<1>1. f \in FieldsSent /\ f \in Field /\ DOMAIN body = FieldsSent
  BY BodySent DEF SettingsRefusedFor
<1>2. f \in Text => /\ IsText(body[f]) /\ body[f].units = draft[f].units /\ body[f].runes = draft[f].runes
                    /\ body[f].runes \in Nat /\ body[f].units \in Nat /\ body[f].runes <= body[f].units
  BY <1>1, BodySent DEF IsText
<1>3. \/ f = "name" /\ (body.name.runes < 2 \/ body.name.runes > MaxSettingsName)
      \/ f \in {"description", "vatNote", "headline"} /\ body[f].runes > MaxNote
      \/ f = "slogan" /\ body.slogan.runes > MaxSlogan
      \/ f = "slug" /\ body.slug < MinAddress
      \/ f = "links" /\ LinksRefused(body.links)
      \/ f \in Colour /\ (body[f] = "invalid" \/ (body[f] = "none" /\ f # "background"))
      \/ f = "languages" /\ body.languages = {}
  BY DEF SettingsRefusedFor
<1>4. CASE f = "name" /\ (body.name.runes < 2 \/ body.name.runes > MaxSettingsName)
  <2>1. body.name.units = draft.name.units
    BY <1>2, <1>4 DEF Text
  <2> QED
    BY <1>2, <1>4, <2>1, PagePasses DEF Text
<1>5. CASE f \in {"description", "vatNote", "headline"} /\ body[f].runes > MaxNote
  <2>1. draft[f].units > MaxNote
    BY <1>2, <1>5 DEF Text
  <2>2. f = "headline"
    BY <1>5, <2>1, PagePasses
  <2>3. draft.headline.units <= MaxNote
    BY <1>1, <2>2, BodySent DEF SettingsInv, DraftOK
  <2>4. draft.headline.units \in Nat
    BY DEF SettingsInv, DraftOK, IsText, Text
  <2> QED
    BY <2>1, <2>2, <2>3, <2>4
<1>6. CASE f = "slogan" /\ body.slogan.runes > MaxSlogan
  BY <1>2, <1>6, PagePasses DEF Text
<1>7. CASE f = "slug" /\ body.slug < MinAddress
  <2>1. body.slug = Address(draft.slug)
    BY <1>1, <1>7 DEF ValueSent, Text
  <2> QED
    BY <1>7, <2>1, PagePasses
<1>8. CASE f = "links" /\ LinksRefused(body.links)
  <2>1. body.links = savableLinks(draft.links)
    BY <1>1, <1>8 DEF ValueSent, Text
  <2>2. "links" \in changedFields
    BY <1>1, <1>8 DEF FieldsSent
  <2> QED
    BY <1>8, <2>1, <2>2, PagePasses
<1>9. CASE f \in Colour /\ (body[f] = "invalid" \/ (body[f] = "none" /\ f # "background"))
  <2>1. body[f] = draft[f]
    BY <1>1, <1>9 DEF ValueSent, Text, Colour
  <2> QED
    BY <1>9, <2>1, PagePasses
<1>10. CASE f = "languages" /\ body.languages = {}
  <2>1. body.languages = draft.languages
    BY <1>1, <1>10 DEF ValueSent, Text
  <2>2. draft.languages # {}
    BY <1>1, <1>10, BodySent DEF SettingsInv, DraftOK
  <2> QED
    BY <1>10, <2>1, <2>2
<1> QED
  BY <1>3, <1>4, <1>5, <1>6, <1>7, <1>8, <1>9, <1>10

LEMMA SaveSettingsKeeps == ASSUME SettingsInv, SaveSettings PROVE SettingsInv'
<1> DEFINE body == [f \in FieldsSent |-> ValueSent(f, draft)]
           shown == shownRecords[settingsMenu]
           s == [menu |-> settingsMenu, visit |-> settingsVisit, body |-> body,
                 edited |-> settingsEdited, placement |-> contactPlacement(draft),
                 before |-> contactPlacement(shown), overtaken |-> FALSE,
                 phase |-> "sent", answer |-> menuRecords[settingsMenu]]
           n == Len(settingsSaves) + 1
<1>1. /\ ~saving /\ SettingsProblems(draft, changedFields) = {}
      /\ saving' = TRUE /\ settingsSaves' = Append(settingsSaves, s)
      /\ UNCHANGED <<menuRecords, shownRecords, settingsMenu, base, draft, settingsVisit,
                     imageUploads, settingsEdited, settingsSteps>>
  BY DEF SaveSettings, CanSave
<1>2. PageOK' /\ DraftOK'
  BY <1>1 DEF SettingsInv, PageOK, MenusOK, DraftOK
<1>3. /\ s.menu = settingsMenu /\ s.visit = settingsVisit /\ s.body = body /\ s.edited = settingsEdited
      /\ s.placement = [display |-> draft.display, footer |-> draft.footer]
      /\ s.before = contactPlacement(shown) /\ s.phase = "sent" /\ s.answer = menuRecords[settingsMenu]
      /\ SaveFields \subseteq DOMAIN s
  <2>1. contactPlacement(draft) = [display |-> draft.display, footer |-> draft.footer]
    BY DEF contactPlacement, SettingsInv, DraftOK
  <2> QED
    BY <2>1 DEF SaveFields
<1>4. ASSUME NEW h \in Halves, h \notin FieldsSent, Halves \cap FieldsSent # {}
      PROVE  s.placement[h] = s.before[h] /\ menuRecords[settingsMenu].display # "footer"
  <2>1. shown.display # "footer" \/ changedFields \cap Halves = {}
    BY <1>4 DEF FieldsSent, Halves
  <2>2. changedFields \cap Halves # {} /\ h \notin changedFields
    BY <1>4 DEF FieldsSent, Halves
  <2>3. menuRecords[settingsMenu].display # "footer"
    BY <2>1, <2>2 DEF SettingsInv, PageOK
  <2>4. draft[h] = base[h]
    BY <2>2 DEF changedFields, fieldEqual, Halves, Field, Text
  <2>5. base[h] = contactPlacement(shown)[h]
    BY DEF SettingsInv, PageOK, buildDraft, Halves, Field
  <2>6. s.placement[h] = draft[h]
    BY <1>3 DEF Halves
  <2> QED
    BY <1>3, <2>3, <2>4, <2>5, <2>6
<1>5. SaveOK(s, menuRecords, settingsVisit)
  <2>1. /\ settingsMenu \in SettingsMenu /\ settingsVisit \in 0..settingsVisit /\ IsRecord(menuRecords[settingsMenu])
        /\ draft.display # "footer"
    BY DEF SettingsInv, PageOK, MenusOK, DraftOK
  <2>2. /\ DOMAIN body = FieldsSent /\ FieldsSent \subseteq Field
        /\ \A f \in DOMAIN body : f \in Text => IsText(body[f])
        /\ \A h \in Halves : h \in DOMAIN body => body[h] = draft[h]
        /\ body = [f \in DOMAIN body |-> body[f]]
    BY BodySent
  <2> HIDE DEF body, s
  <2>3. \A h \in Halves : h \in DOMAIN body => body[h] = s.placement[h]
    BY <1>3, <2>2 DEF Halves
  <2> QED
    BY <1>3, <1>4, <2>1, <2>2, <2>3 DEF SaveOK
<1>6. /\ settingsSaves \in Seq(ToSet(settingsSaves)) /\ n \notin DOMAIN settingsSaves
      /\ settingsSaves' \in Seq(ToSet(settingsSaves')) /\ DOMAIN settingsSaves' = DOMAIN settingsSaves \cup {n}
      /\ settingsSaves'[n] = s /\ \A i \in DOMAIN settingsSaves : settingsSaves'[i] = settingsSaves[i]
  <2>1. settingsSaves \in Seq(ToSet(settingsSaves))
    BY DEF SettingsInv, SavesOK
  <2> HIDE DEF s
  <2> QED
    BY <1>1, <2>1, AppendedTo
<1>7. \A f \in SettingsRefusedFor(body) : f = "name" /\ body.name.runes < body.name.units
  BY <1>1, SentIsTaken
<1>8. FieldsSent \subseteq settingsEdited
        \cup (IF settingsEdited \cap {"display", "footer"} # {} THEN {"display", "footer"} ELSE {})
  BY BodySent
<1>9. DOMAIN body = FieldsSent
  OBVIOUS
<1> HIDE DEF s, body, n
<1>10. SavesOK'
  <2>1. \A i \in DOMAIN settingsSaves :
          SaveOK(settingsSaves[i], menuRecords, settingsVisit) /\ settingsSaves[i].visit # settingsVisit
    BY <1>1 DEF SettingsInv, SavesOK, OwnSave
  <2>2. \A i \in DOMAIN settingsSaves' : SaveOK(settingsSaves'[i], menuRecords', settingsVisit')
    BY <1>1, <1>5, <1>6, <2>1
  <2>3. \A i \in DOMAIN settingsSaves' : OwnSave(i)' => i = n
    BY <1>1, <1>6, <2>1 DEF OwnSave
  <2> QED
    BY <1>1, <1>6, <2>2, <2>3 DEF SavesOK
<1>11. SavedAsEdited'
  <2>1. SavesWhatWasEdited'
    BY <1>3, <1>6, <1>7, <1>8, <1>9 DEF SettingsInv, SavedAsEdited, SavesWhatWasEdited
  <2>2. PlacementSavedAsShown'
    BY <1>3, <1>6 DEF SettingsInv, SavedAsEdited, PlacementSavedAsShown
  <2> QED
    BY <2>1, <2>2 DEF SavedAsEdited
<1> QED
  BY <1>2, <1>10, <1>11 DEF SettingsInv

-----------------------------------------------------------------------------
(* The server.                                                               *)

LEMMA EndedSave ==
  ASSUME SavesOK, NEW i \in DOMAIN settingsSaves, NEW phase, NEW answer, SaveEnds(i, phase, answer)
  PROVE  LET s == settingsSaves[i]
             t == settingsSaves'[i]
         IN /\ settingsSaves' \in Seq(ToSet(settingsSaves')) /\ DOMAIN settingsSaves' = DOMAIN settingsSaves
            /\ \A j \in DOMAIN settingsSaves : j # i => settingsSaves'[j] = settingsSaves[j]
            /\ SaveFields \subseteq DOMAIN t
            /\ t.menu = s.menu /\ t.visit = s.visit /\ t.body = s.body /\ t.edited = s.edited
            /\ t.placement = s.placement /\ t.before = s.before
            /\ t.phase = phase /\ t.answer = answer
            /\ t.overtaken = (contactPlacement(menuRecords[s.menu]) # s.before)
<1> DEFINE s == settingsSaves[i]
           t == [s EXCEPT !.phase = phase, !.answer = answer,
                          !.overtaken = contactPlacement(menuRecords[s.menu]) # s.before]
<1>1. settingsSaves' = [settingsSaves EXCEPT ![i] = t]
  BY DEF SaveEnds
<1>2. SaveFields \subseteq DOMAIN s /\ settingsSaves \in Seq(ToSet(settingsSaves))
  BY DEF SavesOK, SaveOK
<1>3. /\ SaveFields \subseteq DOMAIN t
      /\ t.menu = s.menu /\ t.visit = s.visit /\ t.body = s.body /\ t.edited = s.edited
      /\ t.placement = s.placement /\ t.before = s.before
      /\ t.phase = phase /\ t.answer = answer
      /\ t.overtaken = (contactPlacement(menuRecords[s.menu]) # s.before)
  BY <1>2 DEF SaveFields
<1> HIDE DEF t
<1>4. /\ settingsSaves' \in Seq(ToSet(settingsSaves')) /\ DOMAIN settingsSaves' = DOMAIN settingsSaves
      /\ settingsSaves'[i] = t /\ \A j \in DOMAIN settingsSaves : j # i => settingsSaves'[j] = settingsSaves[j]
  BY <1>1, <1>2, ReplacedIn
<1> QED
  BY <1>3, <1>4

(* A save that has ended, well or not.                                       *)
LEMMA EndedKeeps ==
  ASSUME SettingsInv, NEW i \in DOMAIN settingsSaves, NEW phase, NEW answer, SaveEnds(i, phase, answer),
         UNCHANGED <<saving, settingsVisit>>, IsRecord(answer),
         \A n \in SettingsMenu : menuRecords'[n].display = "footer" => menuRecords[n].display = "footer",
         menuRecords'[settingsSaves[i].menu].display = "footer" => answer.display = "footer",
         /\ phase = "done"
         /\ contactPlacement(menuRecords[settingsSaves[i].menu]) = settingsSaves[i].before
         /\ DOMAIN settingsSaves[i].body \cap Halves # {}
         => contactPlacement(answer) = settingsSaves[i].placement
  PROVE  SavesOK' /\ SavedAsEdited'
<1> DEFINE s == settingsSaves[i]
           t == settingsSaves'[i]
<1>1. /\ settingsSaves' \in Seq(ToSet(settingsSaves')) /\ DOMAIN settingsSaves' = DOMAIN settingsSaves
      /\ \A j \in DOMAIN settingsSaves : j # i => settingsSaves'[j] = settingsSaves[j]
      /\ SaveFields \subseteq DOMAIN t
      /\ t.menu = s.menu /\ t.visit = s.visit /\ t.body = s.body /\ t.edited = s.edited
      /\ t.placement = s.placement /\ t.before = s.before
      /\ t.phase = phase /\ t.answer = answer
      /\ t.overtaken = (contactPlacement(menuRecords[s.menu]) # s.before)
  BY EndedSave DEF SettingsInv
<1>2. \A j \in DOMAIN settingsSaves : SaveOK(settingsSaves[j], menuRecords', settingsVisit')
  BY SaveOKAfterWrite DEF SettingsInv, SavesOK
<1>3. SaveOK(s, menuRecords', settingsVisit')
  BY <1>2
<1> HIDE DEF s, t
<1>4. SaveOK(t, menuRecords', settingsVisit')
  <2>1. menuRecords'[s.menu].display = "footer" => answer.display = "footer"
    BY DEF s
  <2> QED
    BY <1>1, <1>3, <2>1 DEF SaveOK
<1>5. \A j \in DOMAIN settingsSaves' : SaveOK(settingsSaves'[j], menuRecords', settingsVisit')
  BY <1>1, <1>2, <1>4 DEF t
<1>6. \A j \in DOMAIN settingsSaves : settingsSaves'[j].visit = settingsSaves[j].visit
  BY <1>1 DEF s, t
<1>7. SavesOK'
  BY <1>1, <1>5, <1>6 DEF SettingsInv, SavesOK, OwnSave
<1>8. SavesWhatWasEdited'
  <2>1. \A j \in DOMAIN settingsSaves :
          settingsSaves'[j].body = settingsSaves[j].body /\ settingsSaves'[j].edited = settingsSaves[j].edited
    BY <1>1 DEF s, t
  <2> QED
    BY <1>1, <2>1 DEF SettingsInv, SavedAsEdited, SavesWhatWasEdited
<1>9. PlacementSavedAsShown'
  <2>1. t.phase = "done" /\ ~t.overtaken /\ DOMAIN t.body \cap {"display", "footer"} # {} =>
          contactPlacement(t.answer) = t.placement
    BY <1>1 DEF s, Halves
  <2> QED
    BY <1>1, <2>1 DEF t, SettingsInv, SavedAsEdited, PlacementSavedAsShown
<1> QED
  BY <1>7, <1>8, <1>9 DEF SavedAsEdited

LEMMA WrittenRecord ==
  ASSUME SettingsInv, NEW s, SaveOK(s, menuRecords, settingsVisit)
  PROVE  /\ IsRecord(Written(s.menu, s.body))
         /\ \A h \in Halves : Written(s.menu, s.body)[h] = IF h \in DOMAIN s.body THEN s.body[h] ELSE menuRecords[s.menu][h]
<1> DEFINE old == menuRecords[s.menu]
           new == Written(s.menu, s.body)
<1>1. IsRecord(old)
  BY DEF SettingsInv, PageOK, MenusOK, SaveOK
<1>2. DOMAIN old = Field \cup {"priceDate", "count"}
  BY <1>1 DEF IsRecord
<1>3. new = [f \in Field \cup {"priceDate", "count"} |-> new[f]]
  BY <1>2 DEF Written
<1>4. ASSUME NEW f \in Field, f # "slug" PROVE new[f] = IF f \in DOMAIN s.body THEN s.body[f] ELSE old[f]
  BY <1>2, <1>4 DEF Written
<1>5. Text \cup Halves \subseteq Field \ {"slug"}
  BY DEF Text, Halves, Field
<1>6. ASSUME NEW f \in Text PROVE IsText(new[f])
  BY <1>1, <1>4, <1>5 DEF IsRecord, SaveOK
<1> HIDE DEF new
<1>7. IsRecord(new)
  BY <1>3, <1>6 DEF IsRecord
<1>8. \A h \in Halves : new[h] = IF h \in DOMAIN s.body THEN s.body[h] ELSE old[h]
  BY <1>4, <1>5
<1> QED
  BY <1>7, <1>8 DEF new

(* A save that was not overtaken stores the placement it showed.              *)
LEMMA PlacementWritten ==
  ASSUME SettingsInv, NEW s, SaveOK(s, menuRecords, settingsVisit),
         contactPlacement(menuRecords[s.menu]) = s.before, DOMAIN s.body \cap Halves # {}
  PROVE  contactPlacement(Written(s.menu, s.body)) = s.placement
<1> DEFINE old == menuRecords[s.menu]
           new == Written(s.menu, s.body)
<1>1. \A h \in Halves : new[h] = IF h \in DOMAIN s.body THEN s.body[h] ELSE old[h]
  BY WrittenRecord
<1>2. \A h \in Halves : h \in DOMAIN s.body => new[h] = s.placement[h]
  BY <1>1 DEF SaveOK
<1>3. ASSUME NEW h \in Halves, h \notin DOMAIN s.body PROVE new[h] = s.placement[h]
  <2>1. s.placement[h] = s.before[h] /\ old.display # "footer"
    BY <1>3 DEF SaveOK
  <2>2. contactPlacement(old)[h] = old[h]
    BY <2>1 DEF contactPlacement, Halves
  <2> QED
    BY <1>1, <1>3, <2>1, <2>2
<1>4. new.display = s.placement.display /\ new.footer = s.placement.footer
  BY <1>2, <1>3 DEF Halves
<1> HIDE DEF new
<1>5. contactPlacement(new) = s.placement
  BY <1>4 DEF contactPlacement, SaveOK
<1> QED
  BY <1>5 DEF new

LEMMA ExecuteKeeps == ASSUME SettingsInv, NEW i \in DOMAIN settingsSaves, SettingsExecute(i) PROVE SettingsInv'
<1> DEFINE s == settingsSaves[i]
           new == Written(s.menu, s.body)
<1>1. /\ menuRecords' = [menuRecords EXCEPT ![s.menu] = new]
      /\ UNCHANGED <<shownRecords, settingsMenu, settingsForm, saving, settingsVisit, imageUploads, settingsSteps>>
  BY DEF SettingsExecute
<1>2. PICK phase \in {"done", "failed"} : SaveEnds(i, phase, new)
  BY DEF SettingsExecute
<1>3. SaveOK(s, menuRecords, settingsVisit) /\ s.menu \in SettingsMenu
  BY DEF SettingsInv, SavesOK, SaveOK
<1>4. IsRecord(new)
  BY <1>3, WrittenRecord
<1>5. new.display = "footer" => menuRecords[s.menu].display = "footer"
  <2>1. "display" \in DOMAIN s.body => s.body.display # "footer"
    BY <1>3 DEF SaveOK, Halves
  <2> QED
    BY <1>3, <2>1, WrittenRecord DEF Halves
<1>6. contactPlacement(menuRecords[s.menu]) = s.before /\ DOMAIN s.body \cap Halves # {} => contactPlacement(new) = s.placement
  BY <1>3, PlacementWritten
<1> HIDE DEF new
<1>7. /\ MenusOK(menuRecords)'
      /\ \A n \in SettingsMenu : menuRecords'[n].display = "footer" => menuRecords[n].display = "footer"
  BY <1>1, <1>3, <1>4, <1>5, StoredWrite
<1>8. menuRecords'[s.menu] = new
  BY <1>1, <1>3 DEF SettingsInv, PageOK, MenusOK
<1>9. SavesOK' /\ SavedAsEdited'
  BY <1>1, <1>2, <1>4, <1>6, <1>7, <1>8, EndedKeeps
<1>10. PageOK'
  BY <1>1, <1>7 DEF SettingsInv, PageOK, MenusOK, settingsForm
<1>11. DraftOK'
  BY <1>1 DEF SettingsInv, DraftOK, settingsForm
<1> QED
  BY <1>9, <1>10, <1>11 DEF SettingsInv

LEMMA RefusedKeeps == ASSUME SettingsInv, NEW i \in DOMAIN settingsSaves, SettingsRefuse(i) PROVE SettingsInv'
<1> DEFINE s == settingsSaves[i]
<1>1. UNCHANGED <<menuRecords, shownRecords, settingsMenu, settingsForm, saving, settingsVisit, imageUploads, settingsSteps>>
  BY DEF SettingsRefuse
<1>2. PICK phase \in {"conflict", "failed"} : SaveEnds(i, phase, s.answer)
  BY DEF SettingsRefuse
<1>3. IsRecord(s.answer) /\ (menuRecords[s.menu].display = "footer" => s.answer.display = "footer")
  BY DEF SettingsInv, SavesOK, SaveOK
<1>4. SavesOK' /\ SavedAsEdited'
  BY <1>1, <1>2, <1>3, EndedKeeps
<1>5. PageOK' /\ DraftOK'
  BY <1>1 DEF SettingsInv, PageOK, MenusOK, DraftOK, settingsForm
<1> QED
  BY <1>4, <1>5 DEF SettingsInv

(* An answer leaves the saves, and the page no longer waits for it.           *)
LEMMA LandKeeps == ASSUME SettingsInv, NEW i \in DOMAIN settingsSaves, SettingsLand(i) PROVE SettingsInv'
<1> DEFINE s == settingsSaves[i]
           mine == s.visit = settingsVisit
<1>1. /\ settingsSaves' = RemoveAt(settingsSaves, i) /\ saving' = (saving /\ ~mine)
      /\ UNCHANGED <<menuRecords, settingsMenu, settingsVisit, imageUploads, settingsSteps>>
  BY DEF SettingsLand
<1>2. SaveOK(s, menuRecords, settingsVisit)
  BY DEF SettingsInv, SavesOK
<1>3. PageOK' /\ DraftOK'
  <2>1. CASE s.phase = "done"
    <3> DEFINE r == [s.answer EXCEPT !.count = shownRecords[s.menu].count]
    <3>1. Shows(s.menu, r, mine)
      BY <2>1 DEF SettingsLand
    <3>2. IsRecord(r) /\ r.display = s.answer.display
      <4>1. IsRecord(s.answer)
        BY <1>2 DEF SaveOK
      <4>2. DOMAIN s.answer = Field \cup {"priceDate", "count"}
        BY <4>1 DEF IsRecord
      <4>3. r.display = s.answer.display
        BY <4>2 DEF Field
      <4>4. IsRecord(r)
        BY <4>1, CountedRecord
      <4> QED
        BY <4>3, <4>4
    <3>3. s.menu \in SettingsMenu /\ (menuRecords[s.menu].display = "footer" => r.display = "footer")
      BY <1>2, <3>2 DEF SaveOK
    <3> HIDE DEF r
    <3> QED
      BY <1>1, <3>1, <3>2, <3>3, ShowsKeeps DEF SettingsInv, PageOK
  <2>2. CASE s.phase # "done"
    <3>1. UNCHANGED <<shownRecords, base, draft, settingsEdited>>
      BY <2>2 DEF SettingsLand
    <3> QED
      BY <1>1, <3>1 DEF SettingsInv, PageOK, MenusOK, DraftOK
  <2> QED
    BY <2>1, <2>2
<1>4. /\ settingsSaves' \in Seq(ToSet(settingsSaves'))
      /\ \A j \in DOMAIN settingsSaves' :
           LET k == IF j < i THEN j ELSE j + 1
           IN k \in DOMAIN settingsSaves \ {i} /\ settingsSaves'[j] = settingsSaves[k]
  BY <1>1, RemovedFrom DEF SettingsInv, SavesOK
<1>5. \A j \in DOMAIN settingsSaves' : \E k \in DOMAIN settingsSaves \ {i} : settingsSaves'[j] = settingsSaves[k]
  BY <1>4
<1>6. SavesOK'
  <2>1. \A j \in DOMAIN settingsSaves' : SaveOK(settingsSaves'[j], menuRecords', settingsVisit')
    BY <1>1, <1>5 DEF SettingsInv, SavesOK
  <2>2. \A k \in DOMAIN settingsSaves \ {i} : settingsSaves[k].visit = settingsVisit => saving /\ ~mine
    BY DEF SettingsInv, SavesOK, OwnSave
  <2>3. \A j \in DOMAIN settingsSaves' : settingsSaves'[j].visit = settingsVisit' => saving'
    BY <1>1, <1>5, <2>2
  <2>4. ASSUME NEW j \in DOMAIN settingsSaves', NEW l \in DOMAIN settingsSaves',
               settingsSaves'[j].visit = settingsVisit', settingsSaves'[l].visit = settingsVisit'
        PROVE  j = l
    <3> DEFINE at(x) == IF x < i THEN x ELSE x + 1
    <3>1. /\ at(j) \in DOMAIN settingsSaves /\ at(l) \in DOMAIN settingsSaves
          /\ settingsSaves[at(j)].visit = settingsVisit /\ settingsSaves[at(l)].visit = settingsVisit
      BY <1>1, <1>4, <2>4
    <3> HIDE DEF at
    <3>2. at(j) = at(l)
      BY <3>1 DEF SettingsInv, SavesOK, OwnSave
    <3>3. j \in Nat /\ l \in Nat /\ i \in Nat
      BY <1>4 DEF SettingsInv, SavesOK
    <3> QED
      BY <3>2, <3>3 DEF at
  <2> QED
    BY <1>4, <2>1, <2>3, <2>4 DEF SavesOK, OwnSave
<1>7. SavedAsEdited'
  <2>1. SavesWhatWasEdited'
    BY <1>5 DEF SettingsInv, SavedAsEdited, SavesWhatWasEdited
  <2>2. PlacementSavedAsShown'
    BY <1>5 DEF SettingsInv, SavedAsEdited, PlacementSavedAsShown
  <2> QED
    BY <2>1, <2>2 DEF SavedAsEdited
<1> QED
  BY <1>3, <1>6, <1>7 DEF SettingsInv

-----------------------------------------------------------------------------
(* The invariant, and what was typed.                                        *)

LEMMA SettingsStarts == SettingsInit => SettingsInv
<1> SUFFICES ASSUME SettingsInit PROVE SettingsInv
  OBVIOUS
<1>1. PageOK
  BY SettingsConstants, SettingsTexts DEF SettingsInit, PageOK, MenusOK
<1>2. DraftOK
  <2> DEFINE r == RecordAtStart[FirstSettings]
  <2>1. IsRecord(r) /\ draft = buildDraft(r) /\ base = draft /\ settingsEdited = {}
    BY SettingsConstants, SettingsTexts DEF SettingsInit
  <2> QED
    BY <2>1, BuiltDraftNow
<1>3. settingsSaves = <<>>
  BY DEF SettingsInit
<1>4. SavesOK
  BY <1>3 DEF SavesOK
<1>5. SavedAsEdited
  BY <1>3 DEF SavedAsEdited, SavesWhatWasEdited, PlacementSavedAsShown
<1> QED
  BY <1>1, <1>2, <1>4, <1>5 DEF SettingsInv

LEMMA SettingsSteps == SettingsInv /\ [SettingsNext]_settingsVars => SettingsInv'
<1> SUFFICES ASSUME SettingsInv, [SettingsNext]_settingsVars PROVE SettingsInv'
  OBVIOUS
<1>1. CASE EditSettings
  <2>1. ASSUME NEW f \in Image, StartUpload(f) PROVE SettingsInv'
    BY <2>1, StartUploadKeeps
  <2>2. ASSUME NEW l \in OfferedLanguage, toggleLanguage(l) PROVE SettingsInv'
    BY <2>2, LanguageKeeps
  <2>3. ASSUME NEW s \in SlugTyped, EditSlug(s) PROVE SettingsInv'
    BY <2>3, AddressKeeps
  <2> QED
    BY <1>1, <2>1, <2>2, <2>3, SwitchKeeps, WriteKeeps, PaintKeeps, LinksKeep DEF EditSettings
<1>2. CASE VisitSettings
  BY <1>2, VisitSettingsKeeps
<1>3. ASSUME NEW m \in SettingsMenu, SwitchSettings(m) \/ RefreshSettings(m) \/ CountChanges(m) \/ OtherTabWrites(m)
      PROVE  SettingsInv'
  BY <1>3, SwitchSettingsKeeps, RefreshSettingsKeeps, OtherTabKeeps
<1>4. ASSUME NEW u \in imageUploads, UploadEnds(u[1], u[2]) PROVE SettingsInv'
  BY <1>4, UploadEndKeeps
<1>5. CASE RefuseSettings \/ NothingLeftToSend \/ SaveSettings
  BY <1>5, RefuseSettingsKeeps, NothingLeftKeeps, SaveSettingsKeeps
<1>6. ASSUME NEW i \in DOMAIN settingsSaves, SettingsExecute(i) \/ SettingsRefuse(i) \/ SettingsLand(i)
      PROVE  SettingsInv'
  BY <1>6, ExecuteKeeps, RefusedKeeps, LandKeeps
<1>7. CASE UNCHANGED settingsVars
  <2>1. PageOK' /\ DraftOK'
    BY <1>7 DEF settingsVars, SettingsInv, PageOK, MenusOK, DraftOK
  <2> QED
    BY <1>7, <2>1, SavesStay, SavedStay DEF settingsVars, SettingsInv
<1> QED
  BY <1>1, <1>2, <1>3, <1>4, <1>5, <1>6, <1>7 DEF SettingsNext

(* The invariant of the settings page.                                       *)
THEOREM SettingsKeepInv == SettingsSpec => []SettingsInv
<1> QED
  BY SettingsStarts, SettingsSteps, PTL DEF SettingsSpec

(* A save carries what the owner edited and nothing the server refuses, and   *)
(* leaves the contact details where the page showed them, for any menus, texts *)
(* and limits, and however saves, refreshes and other tabs interleave        *)
(* (MenuSettings.jsx:885, 979).                                             *)
THEOREM SavedIsEdited == SettingsSpec => []SavedAsEdited
<1>1. SettingsInv => SavedAsEdited
  BY DEF SettingsInv
<1> QED
  BY <1>1, SettingsKeepInv, PTL

LEMMA EditIsStep ==
  ASSUME SettingsInv, EditSettings, draft' # draft PROVE settingsSteps' # settingsSteps
<1>1. settingsSteps \in Nat
  BY DEF SettingsInv, PageOK
<1>2. ASSUME NEW fields, NEW d, NEW error, Edited(fields, d, error) PROVE settingsSteps' # settingsSteps
  BY <1>1, <1>2 DEF Edited, SettingsStep
<1>3. ASSUME NEW f, NEW v, update(f, v) PROVE settingsSteps' # settingsSteps
  BY <1>2, <1>3 DEF update
<1>4. ASSUME NEW f, StartUpload(f) PROVE FALSE
  BY <1>4 DEF StartUpload, settingsForm
<1>5. CASE EditLinks
  BY <1>3, <1>5 DEF EditLinks, addLink, updateLinkLabel, updateLinkUrl, moveLink, removeLink
<1>6. ASSUME NEW s, EditSlug(s) PROVE settingsSteps' # settingsSteps
  BY <1>2, <1>6 DEF EditSlug
<1>7. ASSUME NEW l, toggleLanguage(l) PROVE settingsSteps' # settingsSteps
  BY <1>2, <1>7 DEF toggleLanguage
<1>8. CASE \/ \E t \in NameTyped : EditName(t)
           \/ \E t \in NoteTyped : EditSlogan(t) \/ EditDescription(t) \/ EditVatNote(t) \/ EditHeadline(t)
           \/ \E t \in PhoneTyped : EditPhone(t) \/ EditInstagram(t) \/ EditWifi(t)
  BY <1>3, <1>8
  DEF EditName, EditSlogan, EditDescription, EditVatNote, EditHeadline, EditPhone, EditInstagram, EditWifi
<1>9. CASE \/ \E c \in {"none", "other", "invalid"} : EditAccent(c) \/ EditInk(c) \/ EditBackground(c) \/ EditSplashColour(c)
           \/ \E f \in Image : ClearImage(f)
           \/ \E l \in OfferedLanguage : ChooseDefaultLanguage(l)
  BY <1>3, <1>9 DEF EditAccent, EditInk, EditBackground, EditSplashColour, ClearImage, ChooseDefaultLanguage
<1>10. CASE \/ EditHeader \/ EditPlacement \/ EditFooter \/ EditShowDate \/ EditShowVat \/ EditProduction
            \/ EditCurrency \/ EditTheme \/ EditFont \/ EditBackgroundType \/ EditOverlay
            \/ SwitchSplash \/ EditSplashDisplay \/ EditDuration \/ EditEntrance \/ EditExitAnimation
            \/ EditSlideStyle \/ EditEasing \/ EditExitDuration \/ EditStatus
  BY <1>3, <1>10
  DEF EditHeader, EditPlacement, EditFooter, EditShowDate, EditShowVat, EditProduction,
      EditCurrency, EditTheme, EditFont, EditBackgroundType, EditOverlay,
      SwitchSplash, EditSplashDisplay, EditDuration, EditEntrance, EditExitAnimation,
      EditSlideStyle, EditEasing, EditExitDuration, EditStatus
<1> QED
  BY <1>4, <1>5, <1>6, <1>7, <1>8, <1>9, <1>10 DEF EditSettings

(* A render that brings the active menu no new value leaves the draft alone.  *)
LEMMA NewValueShown ==
  ASSUME SettingsInv, NEW m \in SettingsMenu, NEW r, IsRecord(r), Shows(m, r, FALSE), draft' # draft
  PROVE  \E f \in DOMAIN shownRecords[settingsMenu] \ {"priceDate", "count"} :
           shownRecords'[settingsMenu][f] # shownRecords[settingsMenu][f]
<1>1. m = settingsMenu /\ storedKey(r) # storedKey(shownRecords[m]) /\ shownRecords' = [shownRecords EXCEPT ![m] = r]
  BY DEF Shows, settingsForm
<1>2. IsRecord(shownRecords[m]) /\ shownRecords'[m] = r
  BY <1>1 DEF SettingsInv, PageOK, MenusOK
<1>3. PICK f \in Field : r[f] # shownRecords[m][f]
  BY <1>1, <1>2, OtherKey
<1>4. f \in DOMAIN shownRecords[m] \ {"priceDate", "count"}
  BY <1>2 DEF IsRecord, Field, Image, Text, Colour, Choice
<1> QED
  BY <1>1, <1>2, <1>3, <1>4

LEMMA DraftSurvives ==
  ASSUME SettingsInv, SettingsNext, draft' # draft
  PROVE  \/ settingsSteps' # settingsSteps \/ imageUploads' # imageUploads \/ (saving /\ ~saving')
         \/ settingsMenu' # settingsMenu
         \/ \E f \in DOMAIN shownRecords[settingsMenu] \ {"priceDate", "count"} :
              shownRecords'[settingsMenu][f] # shownRecords[settingsMenu][f]
         \/ draft' = [draft EXCEPT !.slug.dash = FALSE]
<1>1. CASE SettingsStep
  BY <1>1 DEF SettingsStep, SettingsInv, PageOK
<1>2. CASE EditSettings
  BY <1>2, EditIsStep
<1>3. ASSUME NEW m \in SettingsMenu, RefreshSettings(m)
      PROVE  \E f \in DOMAIN shownRecords[settingsMenu] \ {"priceDate", "count"} :
               shownRecords'[settingsMenu][f] # shownRecords[settingsMenu][f]
  <2> DEFINE r == [menuRecords[m] EXCEPT !.count = shownRecords[m].count]
  <2>1. Shows(m, r, FALSE)
    BY <1>3 DEF RefreshSettings
  <2>2. IsRecord(r)
    BY CountedRecord DEF SettingsInv, PageOK, MenusOK
  <2> HIDE DEF r
  <2> QED
    BY <2>1, <2>2, NewValueShown
<1>4. ASSUME NEW u \in imageUploads, UploadEnds(u[1], u[2]) PROVE imageUploads' # imageUploads
  <2>1. u = <<u[1], u[2]>>
    BY DEF SettingsInv, PageOK
  <2>2. imageUploads' = imageUploads \ {<<u[1], u[2]>>}
    BY <1>4 DEF UploadEnds
  <2> QED
    BY <2>1, <2>2
<1>5. ASSUME NEW i \in DOMAIN settingsSaves, SettingsLand(i)
      PROVE  \/ saving /\ ~saving'
             \/ \E f \in DOMAIN shownRecords[settingsMenu] \ {"priceDate", "count"} :
                  shownRecords'[settingsMenu][f] # shownRecords[settingsMenu][f]
  <2> DEFINE s == settingsSaves[i]
             mine == s.visit = settingsVisit
             r == [s.answer EXCEPT !.count = shownRecords[s.menu].count]
  <2>1. saving' = (saving /\ ~mine) /\ (s.phase = "done" => Shows(s.menu, r, mine)) /\ s.phase = "done"
    BY <1>5 DEF SettingsLand
  <2>2. CASE mine
    BY <2>1, <2>2 DEF SettingsInv, SavesOK, OwnSave
  <2>3. CASE ~mine
    <3>1. IsRecord(r) /\ s.menu \in SettingsMenu
      BY CountedRecord DEF SettingsInv, SavesOK, SaveOK
    <3>2. Shows(s.menu, r, FALSE)
      BY <2>1, <2>3
    <3> HIDE DEF r, s
    <3> QED
      BY <3>1, <3>2, NewValueShown
  <2> QED
    BY <2>2, <2>3
<1>6. CASE NothingLeftToSend
  BY <1>6 DEF NothingLeftToSend
<1>7. ASSUME RefuseSettings \/ SaveSettings \/ \E i \in DOMAIN settingsSaves : SettingsExecute(i) \/ SettingsRefuse(i)
      PROVE  FALSE
  BY <1>7 DEF RefuseSettings, SaveSettings, SettingsExecute, SettingsRefuse, settingsForm
<1>8. ASSUME VisitSettings \/ \E m \in SettingsMenu : SwitchSettings(m) \/ CountChanges(m) \/ OtherTabWrites(m)
      PROVE  SettingsStep
  BY <1>8 DEF VisitSettings, SwitchSettings, CountChanges, OtherTabWrites
<1> QED
  BY <1>1, <1>2, <1>3, <1>4, <1>5, <1>6, <1>7, <1>8 DEF SettingsNext

(* What was typed stays while prices, counts and other menus change around    *)
(* it, for any menus and texts (MenuSettings.jsx:651).                       *)
THEOREM DraftStays == SettingsSpec => DraftSurvivesRefresh
<1>1. SettingsInv /\ [SettingsNext]_settingsVars =>
        [draft' # draft =>
           \/ settingsSteps' # settingsSteps \/ imageUploads' # imageUploads \/ (saving /\ ~saving')
           \/ settingsMenu' # settingsMenu
           \/ \E f \in DOMAIN shownRecords[settingsMenu] \ {"priceDate", "count"} :
                shownRecords'[settingsMenu][f] # shownRecords[settingsMenu][f]
           \/ draft' = [draft EXCEPT !.slug.dash = FALSE]]_settingsVars
  BY DraftSurvives
<1> QED
  BY <1>1, SettingsKeepInv, PTL DEF SettingsSpec, DraftSurvivesRefresh

-----------------------------------------------------------------------------
(* The dialogs of the editor.                                               *)

DraftItem == [names : SUBSET MenuLanguage, price : TypedText]
DraftGroup == [names : SUBSET MenuLanguage, items : Seq(DraftItem)]

FormField ==
  {"kind", "new", "settings", "opening", "names", "plain", "shelf", "image", "price", "compare",
   "calories", "badges", "groups", "activeLanguage", "errors", "saving", "source", "typed",
   "typedPrice", "refilled"}

FormShape(f) ==
  /\ f = [x \in FormField |-> f[x]]
  /\ f.kind \in FormKind /\ f.settings \in LanguageSettings
  /\ f.new \in BOOLEAN /\ f.saving \in BOOLEAN /\ f.typed \in BOOLEAN /\ f.refilled \in BOOLEAN
  /\ f.names \subseteq MenuLanguage /\ f.names \subseteq ToSet(f.settings.list)
  /\ f.errors \subseteq FieldName
  /\ f.activeLanguage \in ToSet(f.settings.list)
  /\ f.price \in TypedText /\ f.compare \in TypedText /\ f.calories \in Nat \cup {None}
  /\ f.badges \in Seq(BOOLEAN) /\ Len(f.badges) <= MaxBadges
  /\ f.groups \in Seq(DraftGroup) /\ Len(f.groups) <= MaxOptionGroups
  /\ \A g \in ToSet(f.groups) : Len(g.items) <= MaxOptionItems
  /\ f.kind = "category" => f.groups = <<>> /\ f.shelf # "none" /\ ~CaloriesRefused(f.calories)
  /\ IsStored(f.kind, f.source)

(* The fields of a form that nobody typed into are those of its row.         *)
AsFilled(f) ==
  LET r == f.source IN
  /\ f.names = r.names \cap ToSet(f.settings.list)
  /\ f.plain = r.plain /\ f.shelf = r.shelf /\ f.image = r.image /\ f.calories = r.calories
  /\ f.price = priceToInput(r.price)
  /\ f.compare = IF r.compare = None THEN Blank ELSE priceToInput(r.compare)
  /\ f.badges = [b \in 1..r.badges |-> TRUE]
  /\ f.groups = OptionRows(r.groups, f.settings)

FormOK(f) == FormShape(f) /\ (~f.new /\ ~f.typed => AsFilled(f))

SaveShape(s) ==
  /\ s = [form |-> s.form, payload |-> s.payload, phase |-> s.phase]
  /\ FormOK(s.form) /\ s.form.opening \in 0..opening
  /\ s.payload = FormPayload(s.form) /\ Problems(s.form) = {}

RowsOK ==
  /\ formRows = [kind \in FormKind |-> formRows[kind]]
  /\ \A kind \in FormKind : IsStored(kind, formRows[kind])

(* A form that was not filled over a save is the one all saves are of; and   *)
(* one of two saves of an opening was, so the form that sent it was too.    *)
SavesFollowForm ==
  form # None =>
    /\ \A i \in DOMAIN formSaves :
         formSaves[i].form.refilled /\ formSaves[i].form.opening = form.opening => form.refilled
    /\ ~form.refilled => \A i \in DOMAIN formSaves : formSaves[i].form.opening = form.opening

FormInv ==
  /\ RowsOK /\ menuLanguages \in LanguageSettings /\ knownLanguages \in LanguageSettings
  /\ opening \in Nat
  /\ form # None => FormOK(form) /\ form.opening = opening
  /\ formSaves \in Seq(ToSet(formSaves)) /\ \A i \in DOMAIN formSaves : SaveShape(formSaves[i])
  /\ SavesFollowForm /\ OneSaveAtATime

-----------------------------------------------------------------------------
(* Prices and languages.                                                    *)

(* What the field shows of a price is read as that price.                   *)
LEMMA PriceReadBack ==
  ASSUME NEW amount \in Nat
  PROVE  /\ priceToInput(amount) \in TypedText /\ priceToInput(amount) # Blank
         /\ parsePrice(priceToInput(amount)) = amount
<1>1. amount \div 100 \in Nat /\ amount % 100 \in 0..99 /\ 100 * (amount \div 100) + (amount % 100) = amount
  OBVIOUS
<1> QED
  BY <1>1 DEF priceToInput, parsePrice, Number, Typed, TypedText, Blank

LEMMA PriceIsRead ==
  ASSUME NEW t \in TypedText
  PROVE  parsePrice(t) \in Nat /\ AfterBlur(t) \in TypedText
<1>1. t.whole \in Nat /\ t.cents \in Nat /\ t.mark \in {"none", "comma", "dot"}
  BY DEF TypedText
<1>2. 100 * t.whole \in Nat /\ 100 * t.whole + t.cents \in Nat /\ 100 * (100 * t.whole + t.cents) \in Nat
  BY <1>1
<1>3. parsePrice(t) \in Nat
  <2>1. CASE t.kind # "number"
    BY <2>1 DEF parsePrice
  <2>2. CASE t.kind = "number"
    BY <1>1, <1>2, <2>2 DEF parsePrice
  <2> QED BY <2>1, <2>2
<1> QED
  BY <1>3, PriceReadBack DEF AfterBlur

LEMMA BlankIsText == Blank \in TypedText
  BY DEF Blank, Typed, TypedText

LEMMA PrimaryIsListed ==
  ASSUME NEW s \in LanguageSettings
  PROVE  /\ primaryLanguage(s) \in ToSet(s.list) /\ ToSet(s.list) \subseteq MenuLanguage
         /\ \A entry : optionNamesOf(entry, s) \subseteq MenuLanguage /\ optionNamesOf(entry, s) # {}
<1>1. s.list \in Seq(MenuLanguage) /\ Len(s.list) > 0
  BY FormConstants
<1>2. s.list[1] \in ToSet(s.list) /\ ToSet(s.list) \subseteq MenuLanguage
  BY <1>1 DEF ToSet
<1> QED
  BY <1>2 DEF primaryLanguage, optionNamesOf

-----------------------------------------------------------------------------
(* Option groups.                                                           *)

LEMMA NamedRows ==
  ASSUME NEW X, NEW rows \in Seq(X)
  PROVE  /\ Named(rows) \in Seq(X) /\ Len(Named(rows)) <= Len(rows)
         /\ ToSet(Named(rows)) \subseteq ToSet(rows)
         /\ (\A r \in ToSet(rows) : r.names # {}) => Named(rows) = rows
<1> DEFINE wanted == {r \in ToSet(rows) : hasAnyOptionName(r)}
<1>1. Named(rows) = Filtered(rows, wanted)
  BY DEF Named
<1>2. (\A r \in ToSet(rows) : r.names # {}) => ToSet(rows) \subseteq wanted
  BY DEF hasAnyOptionName
<1> HIDE DEF wanted
<1> QED
  BY <1>1, <1>2, FilterKeeps

SentItem == [name : BOOLEAN, translations : SUBSET MenuLanguage, price : Nat]
SentGroup == [name : BOOLEAN, translations : SUBSET MenuLanguage, items : Seq(SentItem) \ {<<>>}]

LEMMA TranslationsListed ==
  ASSUME NEW names \in SUBSET MenuLanguage, NEW s
  PROVE  Translations(names, s) \in SUBSET MenuLanguage /\ HasName(names, s) \in BOOLEAN
  BY DEF Translations, HasName

LEMMA ItemsRead ==
  ASSUME NEW items \in Seq(DraftItem), NEW s
  PROVE  /\ ItemsPayload(items, s) \in Seq(SentItem) /\ Len(ItemsPayload(items, s)) <= Len(items)
         /\ \A i \in ToSet(ItemsPayload(items, s)) : \E j \in ToSet(Named(items)) : i.name = HasName(j.names, s)
<1> DEFINE sent(i) == [name |-> HasName(Named(items)[i].names, s), translations |-> Translations(Named(items)[i].names, s),
                       price |-> parsePrice(Named(items)[i].price)]
<1>1. /\ Named(items) \in Seq(DraftItem) /\ Len(Named(items)) \in Nat /\ Len(Named(items)) <= Len(items)
      /\ DOMAIN Named(items) = 1..Len(Named(items))
  BY NamedRows
<1>2. ASSUME NEW i \in DOMAIN Named(items) PROVE sent(i) \in SentItem
  <2>1. Named(items)[i] \in DraftItem
    BY <1>1
  <2>2. Named(items)[i].names \in SUBSET MenuLanguage /\ Named(items)[i].price \in TypedText
    BY <2>1 DEF DraftItem
  <2>3. parsePrice(Named(items)[i].price) \in Nat
    BY <2>2, PriceIsRead
  <2> QED BY <2>2, <2>3, TranslationsListed DEF SentItem
<1>3. ItemsPayload(items, s) = [i \in DOMAIN Named(items) |-> sent(i)]
  BY DEF ItemsPayload
<1>4. \A i \in DOMAIN Named(items) : sent(i).name = HasName(Named(items)[i].names, s)
  BY Zenon
<1> HIDE DEF sent
<1>5. ItemsPayload(items, s) \in Seq(SentItem) /\ Len(ItemsPayload(items, s)) = Len(Named(items))
  BY <1>1, <1>2, <1>3
<1>6. \A i \in ToSet(ItemsPayload(items, s)) : \E j \in ToSet(Named(items)) : i.name = HasName(j.names, s)
  <2> SUFFICES ASSUME NEW k \in DOMAIN Named(items)
               PROVE  \E j \in ToSet(Named(items)) : sent(k).name = HasName(j.names, s)
    <3>1. ToSet(ItemsPayload(items, s)) = {sent(k) : k \in DOMAIN Named(items)}
      BY <1>3, Zenon DEF ToSet
    <3> QED BY <3>1, Zenon
  <2>1. Named(items)[k] \in ToSet(Named(items))
    BY DEF ToSet
  <2> QED BY <1>4, <2>1, Zenon
<1> QED
  BY <1>1, <1>5, <1>6

(* What is sent are rows of the form, every group with an item.             *)
LEMMA GroupsSent ==
  ASSUME NEW groups \in Seq(DraftGroup), NEW s
  PROVE  /\ OptionsPayload(groups, s) \in Seq(SentGroup)
         /\ Len(OptionsPayload(groups, s)) <= Len(groups)
         /\ \A g \in ToSet(OptionsPayload(groups, s)) : \E h \in ToSet(Named(groups)) :
              /\ h \in ToSet(groups) /\ h \in DraftGroup
              /\ g.name = HasName(h.names, s) /\ g.items = ItemsPayload(h.items, s)
<1> DEFINE sent(g) == [name |-> HasName(Named(groups)[g].names, s), translations |-> Translations(Named(groups)[g].names, s),
                       items |-> ItemsPayload(Named(groups)[g].items, s)]
           all == [g \in DOMAIN Named(groups) |-> sent(g)]
           wanted == {g \in ToSet(all) : g.items # <<>>}
           R == [name : BOOLEAN, translations : SUBSET MenuLanguage, items : Seq(SentItem)]
<1>1. OptionsPayload(groups, s) = Filtered(all, wanted)
  BY DEF OptionsPayload
<1>2. /\ Named(groups) \in Seq(DraftGroup) /\ Len(Named(groups)) \in Nat
      /\ Len(Named(groups)) <= Len(groups) /\ ToSet(Named(groups)) \subseteq ToSet(groups)
  BY NamedRows
<1>3. \A g \in DOMAIN Named(groups) : sent(g) \in R
  <2> TAKE g \in DOMAIN Named(groups)
  <2>1. Named(groups)[g] \in DraftGroup
    BY <1>2
  <2>2. Named(groups)[g].names \in SUBSET MenuLanguage /\ Named(groups)[g].items \in Seq(DraftItem)
    BY <2>1 DEF DraftGroup
  <2>3. ItemsPayload(Named(groups)[g].items, s) \in Seq(SentItem)
    BY <2>2, ItemsRead
  <2> QED BY <2>2, <2>3, TranslationsListed
<1>4. \A g \in DOMAIN Named(groups) :
        sent(g).name = HasName(Named(groups)[g].names, s) /\ sent(g).items = ItemsPayload(Named(groups)[g].items, s)
  BY Zenon
<1> HIDE DEF sent
<1>5. all \in Seq(R) /\ Len(all) = Len(Named(groups))
  <2> HIDE DEF R
  <2>1. DOMAIN all = 1..Len(Named(groups)) /\ \A g \in 1..Len(Named(groups)) : all[g] \in R
    BY <1>2, <1>3
  <2>2. all = [g \in 1..Len(Named(groups)) |-> all[g]]
    BY <2>1
  <2> HIDE DEF all
  <2> QED BY <1>2, <2>1, <2>2
<1>6. \A g \in ToSet(all) : \E h \in ToSet(Named(groups)) :
        g.name = HasName(h.names, s) /\ g.items = ItemsPayload(h.items, s)
  BY <1>4, Zenon DEF ToSet
<1>7. \A h \in ToSet(Named(groups)) : h \in DraftGroup
  BY <1>2 DEF ToSet
<1>8. ToSet(all) \subseteq R
  <2> HIDE DEF all, R
  <2>1. \A g \in DOMAIN all : all[g] \in R
    BY <1>5
  <2> QED BY <2>1 DEF ToSet
<1> HIDE DEF all
<1>9. wanted \subseteq SentGroup
  BY <1>8 DEF SentGroup
<1> HIDE DEF wanted
<1>10. /\ Filtered(all, wanted) \in Seq(R) /\ Len(Filtered(all, wanted)) <= Len(all)
       /\ ToSet(Filtered(all, wanted)) = ToSet(all) \cap wanted
  <2> HIDE DEF R
  <2> QED BY <1>5, FilterKeeps
<1>11. Filtered(all, wanted) \in Seq(SentGroup)
  <2>1. \A i \in DOMAIN Filtered(all, wanted) : Filtered(all, wanted)[i] \in SentGroup
    BY <1>9, <1>10 DEF ToSet
  <2> HIDE DEF R
  <2> QED BY <1>10, <2>1
<1>12. Len(Filtered(all, wanted)) <= Len(groups)
  <2>1. Len(Filtered(all, wanted)) \in Nat /\ Len(groups) \in Nat
    BY <1>10
  <2> QED BY <1>2, <1>5, <1>10, <2>1
<1>13. \A g \in ToSet(Filtered(all, wanted)) : g \in ToSet(all)
  BY <1>10
<1> QED
  BY <1>1, <1>2, <1>6, <1>7, <1>11, <1>12, <1>13

(* What is stored of it.                                                    *)
LEMMA GroupsStored ==
  ASSUME NEW groups \in Seq(SentGroup), NEW s \in LanguageSettings
  PROVE  /\ SanitizeOptions(groups, s) \in Seq(StoredGroup) /\ Len(SanitizeOptions(groups, s)) = Len(groups)
         /\ \A g \in ToSet(SanitizeOptions(groups, s)) : \E h \in ToSet(groups) : Len(g.items) = Len(h.items)
<1> DEFINE KeptRow(items) == [i \in DOMAIN items |->
                            [translations |-> WithCopy(items[i].translations, s), price |-> items[i].price]]
           Row(g) == [translations |-> WithCopy(g.translations, s), items |-> KeptRow(g.items)]
<1>0. \A T \in SUBSET MenuLanguage : WithCopy(T, s) \in SUBSET MenuLanguage
  BY FormConstants DEF WithCopy
<1>1. ASSUME NEW items \in Seq(SentItem)
      PROVE  KeptRow(items) \in Seq(StoredItem) /\ Len(KeptRow(items)) = Len(items)
  <2>1. ASSUME NEW i \in DOMAIN items
        PROVE  [translations |-> WithCopy(items[i].translations, s), price |-> items[i].price] \in StoredItem
    <3>1. items[i] \in SentItem
      OBVIOUS
    <3> QED BY <1>0, <3>1 DEF SentItem, StoredItem
  <2>2. DOMAIN items = 1..Len(items) /\ Len(items) \in Nat
    OBVIOUS
  <2> QED BY <2>1, <2>2
<1>2. SanitizeOptions(groups, s) = [g \in DOMAIN groups |-> Row(groups[g])]
  BY DEF SanitizeOptions
<1> HIDE DEF KeptRow
<1>3. ASSUME NEW g \in DOMAIN groups
      PROVE  Row(groups[g]) \in StoredGroup /\ Len(Row(groups[g]).items) = Len(groups[g].items)
  <2>1. groups[g] \in SentGroup
    OBVIOUS
  <2>2. groups[g].items \in Seq(SentItem) /\ groups[g].items # <<>> /\ groups[g].translations \in SUBSET MenuLanguage
    BY <2>1 DEF SentGroup
  <2>3. KeptRow(groups[g].items) \in Seq(StoredItem) /\ Len(KeptRow(groups[g].items)) = Len(groups[g].items)
    BY <1>1, <2>2
  <2>4. KeptRow(groups[g].items) # <<>>
    BY <2>2, <2>3
  <2> QED BY <1>0, <2>2, <2>3, <2>4 DEF StoredGroup
<1> HIDE DEF Row
<1>4. DOMAIN groups = 1..Len(groups) /\ Len(groups) \in Nat
  OBVIOUS
<1>5. SanitizeOptions(groups, s) \in Seq(StoredGroup) /\ Len(SanitizeOptions(groups, s)) = Len(groups)
  BY <1>2, <1>3, <1>4
<1>6. \A g \in ToSet(SanitizeOptions(groups, s)) : \E h \in ToSet(groups) : Len(g.items) = Len(h.items)
  BY <1>2, <1>3 DEF ToSet
<1> QED BY <1>5, <1>6

-----------------------------------------------------------------------------
(* Filling a form.                                                          *)

LEMMA EmptyIsStored == ASSUME NEW kind \in FormKind PROVE IsStored(kind, EmptyRow)
<1>1. ToSet(EmptyRow.groups) = {} /\ EmptyRow.groups \in Seq(StoredGroup) /\ Len(EmptyRow.groups) = 0
  BY DEF EmptyRow, ToSet
<1>2. 0 \in 0..MaxBadges /\ 0 <= MaxOptionGroups
  BY FormConstants
<1>3. EmptyRow = [f \in DOMAIN EmptyRow |-> EmptyRow[f]]
  BY DEF EmptyRow
<1>4. /\ EmptyRow.names = {} /\ EmptyRow.shelf = "own" /\ EmptyRow.price = 0 /\ EmptyRow.compare = None
      /\ EmptyRow.calories = None /\ EmptyRow.badges = 0 /\ EmptyRow.groups = <<>>
  BY DEF EmptyRow
<1> HIDE DEF EmptyRow
<1> QED
  BY <1>1, <1>2, <1>3, <1>4 DEF IsStored, CaloriesRefused

LEMMA FilledGroups ==
  ASSUME NEW groups \in Seq(StoredGroup), NEW s \in LanguageSettings
  PROVE  /\ OptionRows(groups, s) \in Seq(DraftGroup)
         /\ Len(OptionRows(groups, s)) = Len(groups)
         /\ \A g \in DOMAIN groups : Len(OptionRows(groups, s)[g].items) = Len(groups[g].items)
<1> DEFINE Rows(items) == [i \in DOMAIN items |->
                             [names |-> optionNamesOf(items[i], s), price |-> priceToInput(items[i].price)]]
<1>1. ASSUME NEW items \in Seq(StoredItem)
      PROVE  Rows(items) \in Seq(DraftItem) /\ Len(Rows(items)) = Len(items)
  <2>1. ASSUME NEW i \in DOMAIN items
        PROVE  [names |-> optionNamesOf(items[i], s), price |-> priceToInput(items[i].price)] \in DraftItem
    <3>1. items[i] \in StoredItem
      OBVIOUS
    <3>2. items[i].price \in Nat
      BY <3>1 DEF StoredItem
    <3>3. priceToInput(items[i].price) \in TypedText /\ optionNamesOf(items[i], s) \in SUBSET MenuLanguage
      BY <3>2, PriceReadBack, PrimaryIsListed
    <3> QED BY <3>3 DEF DraftItem
  <2>2. DOMAIN items = 1..Len(items) /\ Len(items) \in Nat
    OBVIOUS
  <2> QED BY <2>1, <2>2
<1>2. OptionRows(groups, s) = [g \in DOMAIN groups |->
        [names |-> optionNamesOf(groups[g], s), items |-> Rows(groups[g].items)]]
  BY DEF OptionRows
<1> HIDE DEF Rows
<1>3. ASSUME NEW g \in DOMAIN groups
      PROVE  /\ [names |-> optionNamesOf(groups[g], s), items |-> Rows(groups[g].items)] \in DraftGroup
             /\ Len(Rows(groups[g].items)) = Len(groups[g].items)
  <2>0. groups[g] \in StoredGroup
    OBVIOUS
  <2>1. groups[g].items \in Seq(StoredItem)
    BY <2>0 DEF StoredGroup
  <2>2. optionNamesOf(groups[g], s) \in SUBSET MenuLanguage
    BY PrimaryIsListed
  <2> QED BY <1>1, <2>1, <2>2 DEF DraftGroup
<1>4. DOMAIN groups = 1..Len(groups) /\ Len(groups) \in Nat
  OBVIOUS
<1> QED BY <1>2, <1>3, <1>4

FilledForm(kind, r, new, s, number, refilled) ==
  [FormFilled(kind, r, new, s, number) EXCEPT !.refilled = refilled]

LEMMA FilledOK ==
  ASSUME NEW kind \in FormKind, NEW r, IsStored(kind, r), NEW new \in BOOLEAN, NEW s \in LanguageSettings,
         NEW number, NEW refilled \in BOOLEAN,
         NEW f, f = FilledForm(kind, r, new, s, number, refilled)
  PROVE  FormOK(f) /\ f.opening = number /\ f.refilled = refilled
<1>1. /\ f = [FormFilled(kind, r, new, s, number) EXCEPT !.refilled = refilled]
      /\ f = [x \in FormField |-> f[x]]
  BY DEF FilledForm, FormFilled, FormField
<1>2. /\ f.kind = kind /\ f.new = new /\ f.settings = s /\ f.opening = number /\ f.refilled = refilled
      /\ f.names = r.names \cap ToSet(s.list) /\ f.plain = r.plain /\ f.shelf = r.shelf /\ f.image = r.image
      /\ f.price = (IF new THEN Blank ELSE priceToInput(r.price))
      /\ f.compare = (IF r.compare = None THEN Blank ELSE priceToInput(r.compare))
      /\ f.calories = r.calories /\ f.badges = [b \in 1..r.badges |-> TRUE] /\ f.groups = OptionRows(r.groups, s)
      /\ f.activeLanguage = primaryLanguage(s) /\ f.errors = {} /\ f.saving = FALSE
      /\ f.source = r /\ f.typed = FALSE
  BY DEF FilledForm, FormFilled
<1> HIDE DEF FormFilled
<1>3. f.price \in TypedText /\ f.compare \in TypedText
  BY <1>2, BlankIsText, PriceReadBack DEF IsStored
<1>4. f.badges \in Seq(BOOLEAN) /\ Len(f.badges) <= MaxBadges
  <2>1. r.badges \in Nat /\ r.badges <= MaxBadges
    BY FormConstants DEF IsStored
  <2> DEFINE all == [b \in 1..r.badges |-> TRUE]
  <2>a. all \in [1..r.badges -> BOOLEAN] /\ f.badges = all
    BY <1>2, Zenon
  <2> HIDE DEF all
  <2>2. all \in Seq(BOOLEAN) /\ Len(all) = r.badges
    BY <2>1, <2>a
  <2> QED BY <2>1, <2>a, <2>2
<1>5. /\ f.groups \in Seq(DraftGroup) /\ Len(f.groups) = Len(r.groups)
      /\ \A g \in DOMAIN f.groups : Len(f.groups[g].items) = Len(r.groups[g].items)
      /\ DOMAIN f.groups = DOMAIN r.groups
  <2>1. r.groups \in Seq(StoredGroup)
    BY DEF IsStored
  <2> QED BY <1>2, <2>1, FilledGroups
<1>6. Len(f.groups) <= MaxOptionGroups /\ \A g \in ToSet(f.groups) : Len(g.items) <= MaxOptionItems
  BY <1>5 DEF IsStored, ToSet
<1>7. f.activeLanguage \in ToSet(f.settings.list) /\ f.names \subseteq MenuLanguage
      /\ f.names \subseteq ToSet(f.settings.list)
  BY <1>2, PrimaryIsListed DEF IsStored
<1>8. kind = "category" => f.groups = <<>> /\ f.shelf # "none" /\ ~CaloriesRefused(f.calories)
  BY <1>2, <1>5 DEF IsStored
<1>9. f.calories \in Nat \cup {None} /\ f.errors \subseteq FieldName
  BY <1>2 DEF IsStored
<1>10. FormShape(f)
  BY <1>1, <1>2, <1>3, <1>4, <1>5, <1>6, <1>7, <1>8, <1>9 DEF FormShape
<1>11. ~f.new => AsFilled(f)
  BY <1>2 DEF AsFilled
<1> QED BY <1>2, <1>10, <1>11 DEF FormOK

-----------------------------------------------------------------------------
(* Steps of the open dialog.                                                *)

(* What keeps the opening, the flag of a save and the history of the form    *)
(* keeps what relates it to the saves.                                      *)
LEMMA FormReplaced ==
  ASSUME FormInv, form # None, FormOK(form'), form'.opening = form.opening,
         form'.refilled = form.refilled, form.saving => form'.saving,
         UNCHANGED <<formRows, languagesOf, opening, formSaves>>
  PROVE  FormInv'
<1>1. /\ RowsOK' /\ menuLanguages' \in LanguageSettings /\ knownLanguages' \in LanguageSettings /\ opening' \in Nat
      /\ form'.opening = opening'
      /\ formSaves' \in Seq(ToSet(formSaves')) /\ \A i \in DOMAIN formSaves' : SaveShape(formSaves[i])'
  BY DEF FormInv, RowsOK, SaveShape, languagesOf
<1>2. SavesFollowForm'
  BY DEF FormInv, SavesFollowForm
<1>3. OneSaveAtATime'
  BY DEF FormInv, OneSaveAtATime
<1> QED BY <1>1, <1>2, <1>3 DEF FormInv

LEMMA EditKeeps ==
  ASSUME FormInv, form # None, NEW g, FormShape(g), g.opening = form.opening, g.saving = form.saving,
         g.refilled = form.refilled, Edit(g)
  PROVE  FormInv'
<1>1. form' = [g EXCEPT !.typed = TRUE] /\ UNCHANGED <<formRows, languagesOf, opening, formSaves>>
  BY DEF Edit
<1>2. FormShape(form') /\ form'.typed /\ form'.opening = g.opening /\ form'.refilled = g.refilled /\ form'.saving = g.saving
  BY <1>1 DEF FormShape, FormField
<1>3. FormOK(form')
  BY <1>2 DEF FormOK
<1> QED BY <1>1, <1>2, <1>3, FormReplaced

(* A text, a switch or a choice that nobody checks.                         *)
LEMMA ChangeKeeps == ASSUME FormInv, form # None, NEW field, Change(field) PROVE FormInv'
<1> DEFINE g == [form EXCEPT !.plain = @ \cup {field}]
<1>1. FormShape(form)
  BY DEF FormInv, FormOK
<1>2. FormShape(g) /\ g.opening = form.opening /\ g.saving = form.saving /\ g.refilled = form.refilled
  BY <1>1 DEF FormShape, FormField
<1>3. Edit(g)
  BY DEF Change
<1> HIDE DEF g
<1> QED BY <1>2, <1>3, EditKeeps

LEMMA NameKeeps == ASSUME FormInv, form # None, updateField PROVE FormInv'
<1> DEFINE names == Toggled(form.names)
           errors == IF form.activeLanguage = primaryLanguage(form.settings) /\ primaryLanguage(form.settings) \in names
                     THEN form.errors \ {"name"} ELSE form.errors
           g == [form EXCEPT !.names = names, !.errors = errors]
<1>1. FormShape(form)
  BY DEF FormInv, FormOK
<1>2. names \subseteq MenuLanguage /\ names \subseteq ToSet(form.settings.list)
      /\ errors \subseteq FieldName
  BY <1>1, PrimaryIsListed DEF FormShape, Toggled
<1>3. Edit(g)
  BY DEF updateField
<1> HIDE DEF names, errors
<1>4. FormShape(g) /\ g.opening = form.opening /\ g.saving = form.saving /\ g.refilled = form.refilled
  BY <1>1, <1>2 DEF FormShape, FormField
<1> HIDE DEF g
<1> QED BY <1>3, <1>4, EditKeeps

LEMMA ShelfKeeps ==
  ASSUME FormInv, form # None, form.kind = "product", NEW shelf, ChooseShelf(shelf)
  PROVE  FormInv'
<1> DEFINE g == [form EXCEPT !.shelf = shelf, !.errors = @ \ {"category"}]
<1>1. FormShape(form)
  BY DEF FormInv, FormOK
<1>2. FormShape(g) /\ g.opening = form.opening /\ g.saving = form.saving /\ g.refilled = form.refilled
  BY <1>1 DEF FormShape, FormField
<1>3. Edit(g)
  BY DEF ChooseShelf
<1> HIDE DEF g
<1> QED BY <1>2, <1>3, EditKeeps

LEMMA PriceKeeps ==
  ASSUME FormInv, form # None, form.kind = "product", NEW t \in PriceText, TypePrice(t) \/ TypeComparePrice(t)
  PROVE  FormInv'
<1>1. FormShape(form)
  BY DEF FormInv, FormOK
<1>2. AfterBlur(t) \in TypedText
  BY FormConstants, PriceIsRead
<1>3. CASE TypePrice(t)
  <2> DEFINE g == [form EXCEPT !.price = AfterBlur(t), !.errors = @ \ {"price"}, !.typedPrice = t]
  <2>1. FormShape(g) /\ g.opening = form.opening /\ g.saving = form.saving /\ g.refilled = form.refilled
    BY <1>1, <1>2 DEF FormShape, FormField
  <2>2. Edit(g)
    BY <1>3 DEF TypePrice
  <2> HIDE DEF g
  <2> QED BY <2>1, <2>2, EditKeeps
<1>4. CASE TypeComparePrice(t)
  <2> DEFINE g == [form EXCEPT !.compare = AfterBlur(t), !.errors = @ \ {"comparePrice"}]
  <2>1. FormShape(g) /\ g.opening = form.opening /\ g.saving = form.saving /\ g.refilled = form.refilled
    BY <1>1, <1>2 DEF FormShape, FormField
  <2>2. Edit(g)
    BY <1>4 DEF TypeComparePrice
  <2> HIDE DEF g
  <2> QED BY <2>1, <2>2, EditKeeps
<1> QED BY <1>3, <1>4

LEMMA CaloriesKeep ==
  ASSUME FormInv, form # None, form.kind = "product", NEW c \in CalorieText, TypeCalories(c)
  PROVE  FormInv'
<1> DEFINE g == [form EXCEPT !.calories = c, !.errors = @ \ {"calories"}]
<1>1. FormShape(form)
  BY DEF FormInv, FormOK
<1>2. FormShape(g) /\ g.opening = form.opening /\ g.saving = form.saving /\ g.refilled = form.refilled
  BY <1>1, FormConstants DEF FormShape, FormField
<1>3. Edit(g)
  BY DEF TypeCalories
<1> HIDE DEF g
<1> QED BY <1>2, <1>3, EditKeeps

LEMMA ImageKeeps == ASSUME FormInv, form # None, RemoveImage PROVE FormInv'
<1> DEFINE g == [form EXCEPT !.image = None]
<1>1. FormShape(form)
  BY DEF FormInv, FormOK
<1>2. FormShape(g) /\ g.opening = form.opening /\ g.saving = form.saving /\ g.refilled = form.refilled
  BY <1>1 DEF FormShape, FormField
<1>3. Edit(g)
  BY DEF RemoveImage
<1> HIDE DEF g
<1> QED BY <1>2, <1>3, EditKeeps

(* Rows put at the end of a list, changed in place or taken out.            *)
LEMMA RowsKept ==
  ASSUME NEW X, NEW rows \in Seq(X), NEW x \in X
  PROVE  /\ Append(rows, x) \in Seq(X) /\ Len(Append(rows, x)) = Len(rows) + 1
         /\ ToSet(Append(rows, x)) = ToSet(rows) \cup {x}
         /\ \A i \in DOMAIN rows :
              /\ RemoveAt(rows, i) \in Seq(X) /\ Len(RemoveAt(rows, i)) < Len(rows)
              /\ ToSet(RemoveAt(rows, i)) \subseteq ToSet(rows)
              /\ [rows EXCEPT ![i] = x] \in Seq(X) /\ Len([rows EXCEPT ![i] = x]) = Len(rows)
              /\ ToSet([rows EXCEPT ![i] = x]) \subseteq ToSet(rows) \cup {x}
<1>1. /\ Append(rows, x) \in Seq(X) /\ Len(Append(rows, x)) = Len(rows) + 1 /\ Len(rows) \in Nat
      /\ \A i \in 1..Len(rows) : Append(rows, x)[i] = rows[i]
      /\ Append(rows, x)[Len(rows) + 1] = x
  BY AppendProperties
<1>2. ToSet(Append(rows, x)) = ToSet(rows) \cup {x}
  <2>1. DOMAIN Append(rows, x) = 1..(Len(rows) + 1) /\ DOMAIN rows = 1..Len(rows)
    BY <1>1
  <2> QED BY <1>1, <2>1 DEF ToSet
<1>3. ASSUME NEW i \in DOMAIN rows
      PROVE  /\ RemoveAt(rows, i) \in Seq(X) /\ Len(RemoveAt(rows, i)) < Len(rows)
             /\ ToSet(RemoveAt(rows, i)) \subseteq ToSet(rows)
  <2> DEFINE a == SubSeq(rows, 1, i - 1)
             b == SubSeq(rows, i + 1, Len(rows))
  <2>1. a \in Seq(X) /\ Len(a) = i - 1
    BY SubSeqProperties
  <2>2. b \in Seq(X) /\ Len(b) = Len(rows) - i
    BY SubSeqProperties
  <2>3. RemoveAt(rows, i) = a \o b
    BY DEF RemoveAt
  <2> HIDE DEF a, b
  <2>4. RemoveAt(rows, i) \in Seq(X) /\ Len(RemoveAt(rows, i)) = Len(rows) - 1
    BY <2>1, <2>2, <2>3
  <2>5. \A j \in DOMAIN RemoveAt(rows, i) : \E k \in DOMAIN rows : RemoveAt(rows, i)[j] = rows[k]
    BY RemovedFrom
  <2> QED BY <2>4, <2>5 DEF ToSet
<1>4. ASSUME NEW i \in DOMAIN rows
      PROVE  /\ [rows EXCEPT ![i] = x] \in Seq(X) /\ Len([rows EXCEPT ![i] = x]) = Len(rows)
             /\ ToSet([rows EXCEPT ![i] = x]) \subseteq ToSet(rows) \cup {x}
  <2>1. [rows EXCEPT ![i] = x] \in Seq(X) /\ Len([rows EXCEPT ![i] = x]) = Len(rows)
    OBVIOUS
  <2> QED BY <2>1 DEF ToSet
<1> QED BY <1>1, <1>2, <1>3, <1>4

LEMMA BadgesKeep ==
  ASSUME FormInv, form # None, form.kind = "product",
         addBadge \/ \E b \in DOMAIN form.badges : updateBadge(b) \/ removeBadge(b)
  PROVE  FormInv'
<1>1. FormShape(form) /\ form.badges \in Seq(BOOLEAN) /\ Len(form.badges) \in Nat
  BY DEF FormInv, FormOK, FormShape
<1>2. ASSUME NEW badges \in Seq(BOOLEAN), Len(badges) <= MaxBadges, Edit([form EXCEPT !.badges = badges])
      PROVE  FormInv'
  <2> DEFINE g == [form EXCEPT !.badges = badges]
  <2>1. FormShape(g) /\ g.opening = form.opening /\ g.saving = form.saving /\ g.refilled = form.refilled
    BY <1>1, <1>2 DEF FormShape, FormField
  <2> HIDE DEF g
  <2>2. Edit(g)
    BY <1>2 DEF g
  <2> QED BY <2>1, <2>2, EditKeeps
<1>3. CASE addBadge
  <2>1. Append(form.badges, FALSE) \in Seq(BOOLEAN) /\ Len(Append(form.badges, FALSE)) <= MaxBadges
    BY <1>1, <1>3, RowsKept, FormConstants DEF addBadge
  <2> QED BY <1>2, <1>3, <2>1 DEF addBadge
<1>4. ASSUME NEW b \in DOMAIN form.badges, removeBadge(b) PROVE FormInv'
  <2>1. RemoveAt(form.badges, b) \in Seq(BOOLEAN) /\ Len(RemoveAt(form.badges, b)) < Len(form.badges)
    BY <1>1, RowsKept
  <2>2. Len(RemoveAt(form.badges, b)) <= MaxBadges
    BY <1>1, <2>1, FormConstants DEF FormShape
  <2> QED BY <1>2, <1>4, <2>1, <2>2 DEF removeBadge
<1>5. ASSUME NEW b \in DOMAIN form.badges, updateBadge(b) PROVE FormInv'
  <2> DEFINE other == [form.badges EXCEPT ![b] = ~@]
  <2>1. other \in Seq(BOOLEAN) /\ Len(other) = Len(form.badges)
    <3>1. (~form.badges[b]) \in BOOLEAN
      OBVIOUS
    <3> QED BY <1>1, <3>1, RowsKept
  <2>2. Edit([form EXCEPT !.badges = other])
    BY <1>5, Zenon DEF updateBadge
  <2> HIDE DEF other
  <2> QED BY <1>1, <1>2, <2>1, <2>2 DEF FormShape
<1> QED BY <1>3, <1>4, <1>5

LEMMA LimitsAreNumbers == MaxBadges \in Nat /\ MaxOptionGroups \in Nat /\ MaxOptionItems \in Nat \ {0}
  BY FormConstants

GroupsOK(groups) ==
  /\ groups \in Seq(DraftGroup) /\ Len(groups) <= MaxOptionGroups
  /\ \A g \in ToSet(groups) : Len(g.items) <= MaxOptionItems

LEMMA GroupsEdited ==
  ASSUME FormInv, form # None, form.kind = "product", NEW groups, GroupsOK(groups),
         NEW errors \in SUBSET form.errors, Edit([form EXCEPT !.groups = groups, !.errors = errors])
  PROVE  FormInv'
<1> DEFINE g == [form EXCEPT !.groups = groups, !.errors = errors]
<1>1. FormShape(form)
  BY DEF FormInv, FormOK
<1>2. FormShape(g) /\ g.opening = form.opening /\ g.saving = form.saving /\ g.refilled = form.refilled
  BY <1>1 DEF FormShape, FormField, GroupsOK
<1>3. Edit(g)
  OBVIOUS
<1> HIDE DEF g
<1> QED BY <1>2, <1>3, EditKeeps

(* One group changed into another within the limits.                        *)
LEMMA GroupReplaced ==
  ASSUME NEW groups, GroupsOK(groups), NEW g \in DOMAIN groups, NEW new \in DraftGroup, Len(new.items) <= MaxOptionItems
  PROVE  GroupsOK([groups EXCEPT ![g] = new])
<1>1. groups \in Seq(DraftGroup)
  BY DEF GroupsOK
<1>2. /\ [groups EXCEPT ![g] = new] \in Seq(DraftGroup) /\ Len([groups EXCEPT ![g] = new]) = Len(groups)
      /\ ToSet([groups EXCEPT ![g] = new]) \subseteq ToSet(groups) \cup {new}
  BY <1>1, RowsKept
<1> QED BY <1>2 DEF GroupsOK

LEMMA GroupListKeeps ==
  ASSUME FormInv, form # None, form.kind = "product",
         addOptionGroup \/ \E g \in DOMAIN form.groups : removeOptionGroup(g)
  PROVE  FormInv'
<1>1. FormShape(form) /\ GroupsOK(form.groups) /\ form.groups \in Seq(DraftGroup) /\ Len(form.groups) \in Nat
  BY DEF FormInv, FormOK, FormShape, GroupsOK
<1>2. newOptionGroup \in DraftGroup /\ Len(newOptionGroup.items) = 1
  BY BlankIsText DEF newOptionGroup, newOptionItem, DraftGroup, DraftItem
<1>3. CASE addOptionGroup
  <2> DEFINE groups == Append(form.groups, newOptionGroup)
  <2>1. groups \in Seq(DraftGroup) /\ Len(groups) = Len(form.groups) + 1 /\ ToSet(groups) = ToSet(form.groups) \cup {newOptionGroup}
    BY <1>1, <1>2, RowsKept
  <2>2. Edit([form EXCEPT !.groups = groups, !.errors = form.errors])
    BY <1>1, <1>3 DEF addOptionGroup, FormShape, FormField
  <2>3. Len(form.groups) < MaxOptionGroups
    BY <1>3 DEF addOptionGroup
  <2> HIDE DEF groups
  <2>4. GroupsOK(groups)
    <3>1. Len(newOptionGroup.items) <= MaxOptionItems /\ Len(groups) <= MaxOptionGroups
      BY <1>1, <1>2, <2>1, <2>3, LimitsAreNumbers
    <3> QED BY <1>1, <2>1, <3>1 DEF GroupsOK
  <2> QED BY <2>2, <2>4, GroupsEdited
<1>4. ASSUME NEW g \in DOMAIN form.groups, removeOptionGroup(g) PROVE FormInv'
  <2> DEFINE groups == RemoveAt(form.groups, g)
  <2>1. groups \in Seq(DraftGroup) /\ Len(groups) < Len(form.groups) /\ ToSet(groups) \subseteq ToSet(form.groups)
    BY <1>1, <1>2, RowsKept
  <2>2. Edit([form EXCEPT !.groups = groups, !.errors = form.errors])
    BY <1>1, <1>4 DEF removeOptionGroup, FormShape, FormField
  <2> HIDE DEF groups
  <2>3. GroupsOK(groups)
    BY <1>1, <2>1, FormConstants DEF GroupsOK
  <2> QED BY <2>2, <2>3, GroupsEdited
<1> QED BY <1>3, <1>4

(* A change inside one group.                                               *)
LEMMA GroupKeeps ==
  ASSUME FormInv, form # None, form.kind = "product", NEW g \in DOMAIN form.groups,
         \/ updateOptionGroupName(g) \/ addOptionItem(g)
         \/ \E i \in DOMAIN form.groups[g].items :
              \/ removeOptionItem(g, i) \/ updateOptionItemName(g, i)
              \/ \E t \in PriceText : updateOptionItem(g, i, t)
  PROVE  FormInv'
<1> DEFINE old == form.groups[g]
<1>1. /\ FormShape(form) /\ GroupsOK(form.groups) /\ old \in DraftGroup
      /\ old.items \in Seq(DraftItem) /\ Len(old.items) <= MaxOptionItems /\ old.names \subseteq MenuLanguage
  <2>1. FormShape(form) /\ GroupsOK(form.groups)
    BY DEF FormInv, FormOK, FormShape, GroupsOK
  <2>2. old \in DraftGroup /\ old \in ToSet(form.groups)
    BY <2>1 DEF GroupsOK, ToSet
  <2> QED BY <2>1, <2>2 DEF GroupsOK, DraftGroup
<1>2. \A names \in SUBSET MenuLanguage : Toggled(names) \subseteq MenuLanguage
  BY <1>1, PrimaryIsListed DEF FormShape, Toggled
<1>3. ASSUME NEW new \in DraftGroup, Len(new.items) <= MaxOptionItems, NEW errors \in SUBSET form.errors,
             Edit([form EXCEPT !.groups = [form.groups EXCEPT ![g] = new], !.errors = errors])
      PROVE  FormInv'
  BY <1>1, <1>3, GroupReplaced, GroupsEdited
<1>4. form.groups = [h \in DOMAIN form.groups |-> form.groups[h]] /\ form = [x \in FormField |-> form[x]]
  <2>1. form.groups \in Seq(DraftGroup)
    BY <1>1 DEF GroupsOK
  <2>2. form.groups = [h \in DOMAIN form.groups |-> form.groups[h]]
    BY <2>1
  <2> QED BY <1>1, <2>2 DEF FormShape
<1>5. ASSUME NEW items \in Seq(DraftItem), Len(items) <= MaxOptionItems, NEW errors \in SUBSET form.errors,
             Edit([form EXCEPT !.groups[g].items = items, !.errors = errors])
      PROVE  FormInv'
  <2> DEFINE new == [old EXCEPT !.items = items]
  <2>1. new \in DraftGroup /\ new.items = items
    BY <1>1 DEF DraftGroup
  <2>2. [form EXCEPT !.groups[g].items = items, !.errors = errors]
          = [form EXCEPT !.groups = [form.groups EXCEPT ![g] = new], !.errors = errors]
    BY <1>4 DEF FormField
  <2> HIDE DEF new
  <2> QED BY <1>3, <1>5, <2>1, <2>2
<1>6. CASE updateOptionGroupName(g)
  <2> DEFINE new == [old EXCEPT !.names = Toggled(@)]
  <2>1. new \in DraftGroup /\ new.items = old.items
    BY <1>1, <1>2 DEF DraftGroup
  <2>2. PICK errors \in {form.errors, form.errors \ {"options"}} :
          Edit([[form EXCEPT !.groups[g].names = Toggled(@)] EXCEPT !.errors = errors])
    BY <1>4, <1>6 DEF updateOptionGroupName, EditOptionName, FormField
  <2>3. [[form EXCEPT !.groups[g].names = Toggled(@)] EXCEPT !.errors = errors]
          = [form EXCEPT !.groups = [form.groups EXCEPT ![g] = new], !.errors = errors]
    BY <1>4 DEF FormField
  <2> HIDE DEF new, old
  <2> QED BY <1>1, <1>3, <2>1, <2>2, <2>3
<1>7. CASE addOptionItem(g)
  <2> DEFINE items == Append(old.items, newOptionItem)
  <2>1. newOptionItem \in DraftItem
    BY BlankIsText DEF newOptionItem, DraftItem
  <2>2. items \in Seq(DraftItem) /\ Len(items) = Len(old.items) + 1
    BY <1>1, <2>1, RowsKept
  <2>3. Len(old.items) < MaxOptionItems /\ Len(old.items) \in Nat
    BY <1>1, <1>7 DEF addOptionItem
  <2>4. Edit([form EXCEPT !.groups[g].items = items, !.errors = form.errors])
    BY <1>4, <1>7 DEF addOptionItem, FormField
  <2>5. Len(items) <= MaxOptionItems
    BY <2>2, <2>3, LimitsAreNumbers
  <2> HIDE DEF items
  <2> QED BY <1>5, <2>2, <2>4, <2>5
<1>8. ASSUME NEW i \in DOMAIN old.items, removeOptionItem(g, i) PROVE FormInv'
  <2> DEFINE items == RemoveAt(old.items, i)
  <2>1. newOptionItem \in DraftItem
    BY BlankIsText DEF newOptionItem, DraftItem
  <2>2. items \in Seq(DraftItem) /\ Len(items) < Len(old.items) /\ Len(old.items) \in Nat
    BY <1>1, <2>1, RowsKept
  <2>3. Edit([form EXCEPT !.groups[g].items = items, !.errors = form.errors])
    BY <1>4, <1>8 DEF removeOptionItem, FormField
  <2>4. Len(items) <= MaxOptionItems
    BY <1>1, <2>2, LimitsAreNumbers
  <2> HIDE DEF items
  <2> QED BY <1>5, <2>2, <2>3, <2>4
<1>9. ASSUME NEW i \in DOMAIN old.items, NEW item \in DraftItem, NEW errors \in SUBSET form.errors,
             Edit([form EXCEPT !.groups[g].items[i] = item, !.errors = errors])
      PROVE  FormInv'
  <2> DEFINE items == [old.items EXCEPT ![i] = item]
  <2>1. items \in Seq(DraftItem) /\ Len(items) = Len(old.items)
    BY <1>1, RowsKept
  <2>2. [form EXCEPT !.groups[g].items[i] = item, !.errors = errors] = [form EXCEPT !.groups[g].items = items, !.errors = errors]
    BY <1>4 DEF FormField
  <2> HIDE DEF items
  <2> QED BY <1>1, <1>5, <1>9, <2>1, <2>2
<1>10. ASSUME NEW i \in DOMAIN old.items, updateOptionItemName(g, i) PROVE FormInv'
  <2> DEFINE item == [old.items[i] EXCEPT !.names = Toggled(@)]
  <2>1. item \in DraftItem
    <3>1. old.items[i] \in DraftItem
      BY <1>1
    <3> HIDE DEF old
    <3> QED BY <1>2, <3>1 DEF DraftItem
  <2>2. PICK errors \in {form.errors, form.errors \ {"options"}} :
          Edit([[form EXCEPT !.groups[g].items[i].names = Toggled(@)] EXCEPT !.errors = errors])
    BY <1>4, <1>10 DEF updateOptionItemName, EditOptionName, FormField
  <2>3. [[form EXCEPT !.groups[g].items[i].names = Toggled(@)] EXCEPT !.errors = errors]
          = [form EXCEPT !.groups[g].items[i] = item, !.errors = errors]
    BY <1>4 DEF FormField
  <2> HIDE DEF item
  <2> QED BY <1>9, <2>1, <2>2, <2>3
<1>11. ASSUME NEW i \in DOMAIN old.items, NEW t \in PriceText, updateOptionItem(g, i, t) PROVE FormInv'
  <2> DEFINE item == [old.items[i] EXCEPT !.price = AfterBlur(t)]
  <2>1. AfterBlur(t) \in TypedText
    BY FormConstants, PriceIsRead
  <2>2. item \in DraftItem
    <3>1. old.items[i] \in DraftItem
      BY <1>1
    <3> HIDE DEF old
    <3> QED BY <2>1, <3>1 DEF DraftItem
  <2>3. Edit([form EXCEPT !.groups[g].items[i] = item, !.errors = form.errors])
    BY <1>4, <1>11 DEF updateOptionItem, FormField
  <2> HIDE DEF item
  <2> QED BY <1>9, <2>2, <2>3
<1> QED BY <1>6, <1>7, <1>8, <1>10, <1>11

LEMMA ProductKeeps == ASSUME FormInv, form # None, form.kind = "product", EditProduct PROVE FormInv'
<1>1. ASSUME EditOptions PROVE FormInv'
  BY <1>1, GroupListKeeps, GroupKeeps, ChangeKeeps DEF EditOptions, updateOptionGroup
<1>2. CASE toggleAllergen \/ SwitchFeatured \/ ChooseBadgeIcon \/ ChooseBadgeColours
  BY <1>2, ChangeKeeps DEF toggleAllergen, SwitchFeatured, ChooseBadgeIcon, ChooseBadgeColours
<1> QED
  BY <1>1, <1>2, PriceKeeps, CaloriesKeep, ShelfKeeps, BadgesKeep DEF EditProduct

LEMMA LanguageShown == ASSUME FormInv, form # None, NEW l, SwitchLanguage(l) PROVE FormInv'
<1>1. FormOK(form) /\ form' = [form EXCEPT !.activeLanguage = l] /\ l \in ToSet(form.settings.list)
      /\ UNCHANGED <<formRows, languagesOf, opening, formSaves>>
  BY DEF FormInv, SwitchLanguage
<1>2. FormShape(form') /\ form'.opening = form.opening /\ form'.refilled = form.refilled /\ form'.saving = form.saving
  BY <1>1 DEF FormOK, FormShape, FormField
<1>3. ~form'.new /\ ~form'.typed => AsFilled(form')
  BY <1>1 DEF FormOK, FormShape, FormField, AsFilled
<1> QED BY <1>1, <1>2, <1>3, FormReplaced DEF FormOK

LEMMA RefusalShown == ASSUME FormInv, form # None, FormRefused PROVE FormInv'
<1> DEFINE l == IF Problems(form) \cap {"name", "options"} # {} THEN primaryLanguage(form.settings) ELSE form.activeLanguage
<1>1. FormOK(form) /\ form' = [form EXCEPT !.errors = Problems(form), !.activeLanguage = l]
      /\ UNCHANGED <<formRows, languagesOf, opening, formSaves>>
  BY DEF FormInv, FormRefused
<1>2. Problems(form) \subseteq FieldName /\ l \in ToSet(form.settings.list)
  BY <1>1, PrimaryIsListed DEF Problems, FormOK, FormShape
<1> HIDE DEF l
<1>3. FormShape(form') /\ form'.opening = form.opening /\ form'.refilled = form.refilled /\ form'.saving = form.saving
  BY <1>1, <1>2 DEF FormOK, FormShape, FormField
<1>4. ~form'.new /\ ~form'.typed => AsFilled(form')
  BY <1>1 DEF FormOK, FormShape, FormField, AsFilled
<1> QED BY <1>1, <1>3, <1>4, FormReplaced DEF FormOK

(* An upload of another opening included.                                   *)
LEMMA UploadKeeps == ASSUME FormInv, NEW u, UploadLands(u) \/ UploadFails(u) PROVE FormInv'
<1>1. CASE UNCHANGED <<formRows, languagesOf, form, opening, formSaves>>
  BY <1>1 DEF FormInv, RowsOK, SavesFollowForm, OneSaveAtATime, SaveShape, languagesOf
<1>2. CASE form # None /\ form' = [form EXCEPT !.image = "uploaded", !.typed = TRUE]
           /\ UNCHANGED <<formRows, languagesOf, opening, formSaves>>
  <2>1. FormShape(form)
    BY <1>2 DEF FormInv, FormOK
  <2>2. FormShape(form') /\ form'.typed /\ form'.opening = form.opening /\ form'.refilled = form.refilled /\ form'.saving = form.saving
    BY <1>2, <2>1 DEF FormShape, FormField
  <2> QED BY <1>2, <2>2, FormReplaced DEF FormOK
<1> QED BY <1>1, <1>2 DEF UploadLands, UploadFails

LEMMA CloseKeepsForms == ASSUME FormInv, form # None, CloseForm PROVE FormInv'
<1>1. form' = None /\ UNCHANGED <<formRows, menuLanguages, knownLanguages, opening, formSaves>>
  BY DEF CloseForm, languagesOf
<1> QED BY <1>1 DEF FormInv, RowsOK, SavesFollowForm, OneSaveAtATime, SaveShape

LEMMA LanguagesKeep == ASSUME FormInv, NEW s \in LanguageSettings, LanguagesChange(s) PROVE FormInv'
  BY DEF LanguagesChange, FormInv, RowsOK, SavesFollowForm, OneSaveAtATime, SaveShape

(* The next opening has no save yet.                                        *)
LEMMA OpenKeepsForms == ASSUME FormInv, NEW kind \in FormKind, NEW new \in BOOLEAN, OpenForm(kind, new) PROVE FormInv'
<1> DEFINE r == IF new THEN EmptyRow ELSE formRows[kind]
<1>1. /\ form = None /\ opening' = opening + 1
      /\ form' = [FormFilled(kind, r, new, knownLanguages, opening + 1) EXCEPT !.refilled = formSaves # <<>>]
      /\ UNCHANGED <<formRows, menuLanguages, knownLanguages, formSaves>>
  BY DEF OpenForm, languagesOf
<1>2. IsStored(kind, r)
  BY EmptyIsStored DEF FormInv, RowsOK
<1> HIDE DEF r
<1>3. knownLanguages \in LanguageSettings /\ (formSaves # <<>>) \in BOOLEAN
  BY DEF FormInv
<1>4. FormOK(form') /\ form'.opening = opening + 1 /\ form'.refilled = (formSaves # <<>>)
  <2> DEFINE over == formSaves # <<>>
  <2>1. over \in BOOLEAN /\ form' = FilledForm(kind, r, new, knownLanguages, opening + 1, over)
    BY <1>1, <1>3 DEF FilledForm
  <2> HIDE DEF over
  <2>2. FormOK(form') /\ form'.opening = opening + 1 /\ form'.refilled = over
    BY <1>2, <1>3, <2>1, FilledOK
  <2> QED BY <2>2 DEF over
<1>5. /\ RowsOK' /\ opening' \in Nat /\ menuLanguages' \in LanguageSettings /\ knownLanguages' \in LanguageSettings
      /\ formSaves' \in Seq(ToSet(formSaves')) /\ \A i \in DOMAIN formSaves' : SaveShape(formSaves[i])'
  <2>1. opening \in Nat /\ opening' \in Nat /\ 0..opening \subseteq 0..opening'
    BY <1>1 DEF FormInv
  <2> QED BY <1>1, <2>1 DEF FormInv, RowsOK, SaveShape
<1>6. \A i \in DOMAIN formSaves : formSaves[i].form.opening # opening + 1
  BY DEF FormInv, SaveShape
<1>7. formSaves = <<>> => DOMAIN formSaves = {}
  OBVIOUS
<1>8. SavesFollowForm'
  BY <1>1, <1>4, <1>6, <1>7 DEF SavesFollowForm
<1>9. OneSaveAtATime'
  BY <1>1, <1>4, <1>6 DEF FormInv, OneSaveAtATime
<1> QED BY <1>1, <1>4, <1>5, <1>8, <1>9 DEF FormInv

LEMMA RefreshKeepsForms == ASSUME FormInv, refreshMenu PROVE FormInv'
<1>1. UNCHANGED <<formRows, menuLanguages, opening, formSaves>> /\ knownLanguages' = menuLanguages
  BY DEF refreshMenu
<1>2. /\ RowsOK' /\ opening' \in Nat /\ menuLanguages' \in LanguageSettings /\ knownLanguages' \in LanguageSettings
      /\ formSaves' \in Seq(ToSet(formSaves')) /\ \A i \in DOMAIN formSaves' : SaveShape(formSaves[i])'
  BY <1>1 DEF FormInv, RowsOK, SaveShape
<1>3. CASE form = None
  <2>1. form' = None
    BY <1>3 DEF refreshMenu
  <2> QED BY <1>1, <1>2, <2>1 DEF FormInv, SavesFollowForm, OneSaveAtATime
<1>4. CASE form # None
  <2>1. /\ form' = [FormFilled(form.kind, form.source, form.new, menuLanguages, form.opening) EXCEPT !.refilled = formSaves # <<>>]
        /\ FormShape(form) /\ form.opening = opening
    BY <1>4 DEF refreshMenu, FormInv, FormOK
  <2>2. /\ form.kind \in FormKind /\ form.new \in BOOLEAN /\ IsStored(form.kind, form.source)
        /\ menuLanguages \in LanguageSettings /\ (formSaves # <<>>) \in BOOLEAN
    BY <2>1 DEF FormInv, FormShape
  <2>3. FormOK(form') /\ form'.opening = opening /\ form'.refilled = (formSaves # <<>>)
    <3> DEFINE over == formSaves # <<>>
    <3>1. /\ over \in BOOLEAN
          /\ form' = FilledForm(form.kind, form.source, form.new, menuLanguages, form.opening, over)
      BY <2>1, <2>2 DEF FilledForm
    <3> HIDE DEF over
    <3>2. FormOK(form') /\ form'.opening = form.opening /\ form'.refilled = over
      BY <2>2, <3>1, FilledOK
    <3> QED BY <2>1, <3>2 DEF over
  <2>4. formSaves = <<>> => DOMAIN formSaves = {}
    OBVIOUS
  <2>5. SavesFollowForm' /\ OneSaveAtATime'
    BY <1>1, <2>3, <2>4 DEF FormInv, SavesFollowForm, OneSaveAtATime
  <2> QED BY <1>1, <1>2, <2>3, <2>5 DEF FormInv
<1> QED BY <1>3, <1>4

-----------------------------------------------------------------------------
(* Saves.                                                                   *)

LEMMA BadgesCounted ==
  ASSUME NEW badges \in Seq(BOOLEAN), Len(badges) <= MaxBadges
  PROVE  Cardinality({b \in DOMAIN badges : badges[b]}) \in 0..MaxBadges
<1> DEFINE shown == {b \in DOMAIN badges : badges[b]}
<1>1. Len(badges) \in Nat /\ DOMAIN badges = 1..Len(badges)
  OBVIOUS
<1>2. IsFiniteSet(1..Len(badges)) /\ Cardinality(1..Len(badges)) = Len(badges)
  BY <1>1, FS_Interval
<1>3. shown \subseteq 1..Len(badges)
  BY <1>1
<1> HIDE DEF shown
<1>4. IsFiniteSet(shown) /\ Cardinality(shown) <= Len(badges)
  BY <1>2, <1>3, FS_Subset
<1>5. Cardinality(shown) \in Nat
  BY <1>4, FS_CardinalityType
<1>6. Cardinality(shown) \in 0..MaxBadges
  BY <1>1, <1>4, <1>5, LimitsAreNumbers
<1> QED BY <1>6 DEF shown

(* What a form sends is a row within the limits of the dialog.              *)
LEMMA PayloadInShape ==
  ASSUME NEW f, FormShape(f), NEW p, p = FormPayload(f)
  PROVE  /\ p = [x \in DOMAIN EmptyRow |-> p[x]]
         /\ p.names \subseteq MenuLanguage /\ p.price \in Nat /\ p.compare \in Nat \cup {None}
         /\ p.calories = f.calories /\ p.shelf = f.shelf /\ p.names = f.names
         /\ p.calories \in Nat \cup {None} /\ p.badges \in 0..MaxBadges
         /\ p.groups = OptionsPayload(f.groups, f.settings)
         /\ p.groups \in Seq(SentGroup) /\ Len(p.groups) <= MaxOptionGroups
         /\ \A g \in ToSet(p.groups) : Len(g.items) <= MaxOptionItems
         /\ f.kind = "category" => p.groups = <<>>
<1>1. p = [x \in DOMAIN EmptyRow |-> p[x]]
  BY DEF FormPayload, EmptyRow
<1>2. /\ p.names = f.names /\ p.shelf = f.shelf /\ p.price = parsePrice(f.price)
      /\ p.compare = (IF f.compare = Blank THEN None ELSE parsePrice(f.compare)) /\ p.calories = f.calories
      /\ p.badges = Cardinality({b \in DOMAIN f.badges : f.badges[b]})
      /\ p.groups = OptionsPayload(f.groups, f.settings)
  BY DEF FormPayload
<1>3. parsePrice(f.price) \in Nat /\ parsePrice(f.compare) \in Nat
  BY PriceIsRead DEF FormShape
<1>4. p.badges \in 0..MaxBadges
  BY <1>2, BadgesCounted DEF FormShape
<1>5. f.groups \in Seq(DraftGroup) /\ Len(f.groups) \in Nat /\ Len(f.groups) <= MaxOptionGroups
  BY DEF FormShape
<1>6. p.groups \in Seq(SentGroup) /\ Len(p.groups) \in Nat /\ Len(p.groups) <= Len(f.groups)
  BY <1>2, <1>5, GroupsSent
<1>7. ASSUME NEW g \in ToSet(p.groups) PROVE Len(g.items) <= MaxOptionItems
  <2>1. PICK h : h \in ToSet(f.groups) /\ h \in DraftGroup /\ g.items = ItemsPayload(h.items, f.settings)
    BY <1>2, <1>5, GroupsSent
  <2>2. h.items \in Seq(DraftItem) /\ Len(h.items) \in Nat /\ Len(h.items) <= MaxOptionItems
    BY <2>1 DEF DraftGroup, FormShape
  <2>3. Len(g.items) <= Len(h.items) /\ Len(g.items) \in Nat
    BY <2>1, <2>2, ItemsRead
  <2> QED BY <2>2, <2>3, LimitsAreNumbers
<1>8. f.kind = "category" => p.groups = <<>>
  <2>1. f.kind = "category" => Len(p.groups) = 0
    BY <1>5, <1>6 DEF FormShape
  <2> QED BY <1>6, <2>1
<1>9. Len(p.groups) <= MaxOptionGroups
  BY <1>5, <1>6, LimitsAreNumbers
<1> QED
  BY <1>1, <1>2, <1>3, <1>4, <1>6, <1>7, <1>8, <1>9 DEF FormShape

(* What the server does not refuse is a row it may have stored.             *)
LEMMA TakenIsStored ==
  ASSUME NEW f, FormShape(f), NEW p, p = FormPayload(f), NEW s \in LanguageSettings, RefusedFor(p, s) = {}
  PROVE  IsStored(f.kind, Stored(p, s))
<1> DEFINE groups == SanitizeOptions(p.groups, s)
           q == Stored(p, s)
<1>1. p.shelf # "none" /\ ~CaloriesRefused(p.calories)
  <2>1. "category" \notin RefusedFor(p, s) /\ "calories" \notin RefusedFor(p, s)
    OBVIOUS
  <2> QED BY <2>1 DEF RefusedFor, FieldName
<1>2. /\ p = [x \in DOMAIN EmptyRow |-> p[x]] /\ p.groups \in Seq(SentGroup)
      /\ p.names \subseteq MenuLanguage /\ p.price \in Nat /\ p.compare \in Nat \cup {None}
      /\ p.calories \in Nat \cup {None} /\ p.badges \in 0..MaxBadges
      /\ Len(p.groups) <= MaxOptionGroups /\ \A g \in ToSet(p.groups) : Len(g.items) <= MaxOptionItems
      /\ f.kind = "category" => p.groups = <<>>
  BY PayloadInShape
<1>3. /\ groups \in Seq(StoredGroup) /\ Len(groups) = Len(p.groups)
      /\ \A g \in ToSet(groups) : Len(g.items) <= MaxOptionItems
  <2> HIDE DEF groups, q
  <2>1. /\ groups \in Seq(StoredGroup) /\ Len(groups) = Len(p.groups)
        /\ \A g \in ToSet(groups) : \E h \in ToSet(p.groups) : Len(g.items) = Len(h.items)
    <3>1. p.groups \in Seq(SentGroup)
      BY <1>2
    <3> QED BY <3>1, GroupsStored DEF groups
  <2> QED BY <1>2, <2>1
<1>4. f.kind = "category" => groups = <<>>
  <2>1. f.kind = "category" => Len(groups) = 0
    BY <1>2, <1>3
  <2> HIDE DEF groups
  <2> QED BY <1>3, <2>1
<1>5. q = [p EXCEPT !.groups = groups]
  BY DEF Stored
<1> HIDE DEF q, groups
<1>6. /\ q = [x \in DOMAIN EmptyRow |-> q[x]] /\ q.groups = groups
      /\ q.names = p.names /\ q.shelf = p.shelf /\ q.price = p.price /\ q.compare = p.compare
      /\ q.calories = p.calories /\ q.badges = p.badges
  BY <1>2, <1>5 DEF EmptyRow
<1>7. IsStored(f.kind, q)
  BY <1>1, <1>2, <1>3, <1>4, <1>6 DEF IsStored
<1> QED BY <1>7 DEF q

LEMMA SaveStarts == ASSUME FormInv, form # None, saveForm PROVE FormInv'
<1> DEFINE save == [form |-> form, payload |-> FormPayload(form), phase |-> "sent"]
           n == Len(formSaves) + 1
<1>1. /\ formSaves' = Append(formSaves, save) /\ form' = [form EXCEPT !.saving = TRUE]
      /\ UNCHANGED <<formRows, menuLanguages, knownLanguages, opening>>
      /\ Problems(form) = {} /\ ~form.saving /\ FormOK(form) /\ form.opening = opening
      /\ opening \in Nat /\ opening \in 0..opening
  BY DEF FormInv, saveForm, languagesOf
<1>2. SaveShape(save) /\ save.form = form
  BY <1>1 DEF SaveShape
<1> HIDE DEF save
<1>3. formSaves \in Seq(ToSet(formSaves)) /\ Len(formSaves) \in Nat /\ DOMAIN formSaves \subseteq Nat
  BY DEF FormInv
<1>4. /\ formSaves' \in Seq(ToSet(formSaves')) /\ DOMAIN formSaves' = DOMAIN formSaves \cup {n}
      /\ formSaves'[n] = save /\ \A i \in DOMAIN formSaves : formSaves'[i] = formSaves[i] /\ i # n /\ i < n
      /\ n \in Nat
  BY <1>1, <1>3, AppendedTo
<1> HIDE DEF n
<1>5. /\ FormOK(form') /\ form'.opening = form.opening /\ form'.refilled = form.refilled /\ form'.saving
  <2>1. FormShape(form') /\ form'.opening = form.opening /\ form'.refilled = form.refilled /\ form'.saving
    BY <1>1 DEF FormOK, FormShape, FormField
  <2>2. ~form'.new /\ ~form'.typed => AsFilled(form')
    BY <1>1 DEF FormOK, FormShape, FormField, AsFilled
  <2> QED BY <2>1, <2>2 DEF FormOK
<1>6. \A i \in DOMAIN formSaves' : SaveShape(formSaves[i])'
  <2>1. \A i \in DOMAIN formSaves' : SaveShape(formSaves'[i])
    BY <1>2, <1>4 DEF FormInv
  <2> QED BY <1>1, <2>1 DEF SaveShape
<1>7. SavesFollowForm'
  BY <1>2, <1>4, <1>5 DEF FormInv, SavesFollowForm
<1>8. OneSaveAtATime'
  <2>1. \A i, j \in DOMAIN formSaves' :
          i < j => formSaves'[i].form.opening # formSaves'[j].form.opening \/ formSaves'[j].form.refilled
    <3> SUFFICES ASSUME NEW i \in DOMAIN formSaves', NEW j \in DOMAIN formSaves', i < j,
                        formSaves'[i].form.opening = formSaves'[j].form.opening
                 PROVE  formSaves'[j].form.refilled
      OBVIOUS
    <3>1. i \in DOMAIN formSaves
      <4>1. i \in Nat /\ j \in Nat /\ j <= n
        BY <1>3, <1>4
      <4>2. i # n
        BY <1>4, <4>1
      <4> QED BY <1>4, <4>2
    <3>2. CASE j \in DOMAIN formSaves
      BY <1>4, <3>1, <3>2 DEF FormInv, OneSaveAtATime
    <3>3. CASE j = n
      BY <1>1, <1>2, <1>4, <3>1, <3>3 DEF FormInv, OneSaveAtATime
    <3> QED BY <1>4, <3>2, <3>3
  <2> QED BY <1>5, <2>1 DEF OneSaveAtATime
<1> QED BY <1>1, <1>4, <1>5, <1>6, <1>7, <1>8 DEF FormInv, RowsOK

(* The server stores what it takes, and whether the answer arrives is open.  *)
LEMMA ExecutionKeeps == ASSUME FormInv, NEW i \in DOMAIN formSaves, FormExecutes(i) PROVE FormInv'
<1> DEFINE f == formSaves[i].form
           p == formSaves[i].payload
<1>1. UNCHANGED <<menuLanguages, knownLanguages, form, opening>>
  BY DEF FormExecutes, languagesOf
<1>2. PICK phase : formSaves' = [formSaves EXCEPT ![i].phase = phase]
  BY DEF FormExecutes
<1>3. /\ formSaves \in Seq(ToSet(formSaves)) /\ SaveShape(formSaves[i]) /\ FormShape(f) /\ p = FormPayload(f)
  BY DEF FormInv, SaveShape, FormOK
<1>4. RowsOK'
  <2>1. CASE formRows' = formRows
    BY <2>1 DEF FormInv, RowsOK
  <2>2. CASE RefusedFor(p, menuLanguages) = {} /\ formRows' = [formRows EXCEPT ![f.kind] = Stored(p, menuLanguages)]
    <3>1. IsStored(f.kind, Stored(p, menuLanguages))
      BY <1>3, <2>2, TakenIsStored DEF FormInv
    <3>2. f.kind \in FormKind
      BY <1>3 DEF FormShape
    <3> HIDE DEF f, p
    <3> QED BY <2>2, <3>1, <3>2 DEF FormInv, RowsOK
  <2> QED BY <2>1, <2>2 DEF FormExecutes
<1> DEFINE new == [formSaves[i] EXCEPT !.phase = phase]
<1>5. SaveShape(new) /\ new.form = f
  BY <1>3 DEF SaveShape
<1>6. formSaves' = [formSaves EXCEPT ![i] = new]
  BY <1>2, <1>3
<1> HIDE DEF new, f, p
<1>7. /\ formSaves' \in Seq(ToSet(formSaves')) /\ DOMAIN formSaves' = DOMAIN formSaves
      /\ formSaves'[i] = new /\ \A j \in DOMAIN formSaves : j # i => formSaves'[j] = formSaves[j]
  BY <1>3, <1>6, ReplacedIn
<1>8. \A j \in DOMAIN formSaves : formSaves'[j].form = formSaves[j].form
  BY <1>5, <1>7 DEF f
<1>9. \A j \in DOMAIN formSaves' : SaveShape(formSaves[j])'
  <2>1. \A j \in DOMAIN formSaves' : SaveShape(formSaves'[j])
    BY <1>5, <1>7 DEF FormInv
  <2> QED BY <1>1, <2>1 DEF SaveShape
<1>10. SavesFollowForm' /\ OneSaveAtATime'
  BY <1>1, <1>7, <1>8 DEF FormInv, SavesFollowForm, OneSaveAtATime
<1> QED BY <1>1, <1>4, <1>7, <1>9, <1>10 DEF FormInv

(* An answer closes the dialog or ends its save; what is left are the other  *)
(* saves, in their order.  If the form was not filled over a save, the save  *)
(* that ended was the only one of its opening.                              *)
LEMMA LandingKeepsForms == ASSUME FormInv, NEW i \in DOMAIN formSaves, FormLands(i) PROVE FormInv'
<1> DEFINE Old(j) == IF j < i THEN j ELSE j + 1
<1>1. formSaves' = RemoveAt(formSaves, i) /\ UNCHANGED <<formRows, menuLanguages, knownLanguages, opening>>
  BY DEF FormLands, languagesOf
<1>2. formSaves \in Seq(ToSet(formSaves)) /\ DOMAIN formSaves \subseteq Nat
  BY DEF FormInv
<1>3. /\ formSaves' \in Seq(ToSet(formSaves')) /\ DOMAIN formSaves' \subseteq Nat
      /\ \A j \in DOMAIN formSaves' : Old(j) \in DOMAIN formSaves \ {i} /\ formSaves'[j] = formSaves[Old(j)]
  <2>1. /\ formSaves' \in Seq(ToSet(formSaves'))
        /\ \A j \in DOMAIN formSaves' : Old(j) \in DOMAIN formSaves \ {i} /\ formSaves'[j] = formSaves[Old(j)]
    BY <1>1, <1>2, RemovedFrom
  <2> QED BY <2>1
<1>4. \A j, k \in DOMAIN formSaves' : j < k => Old(j) < Old(k)
  BY <1>2, <1>3
<1> HIDE DEF Old
<1>5. RowsOK' /\ opening' \in Nat /\ menuLanguages' \in LanguageSettings /\ knownLanguages' \in LanguageSettings
  BY <1>1 DEF FormInv, RowsOK
<1>6. \A j \in DOMAIN formSaves' : SaveShape(formSaves[j])'
  <2>1. \A j \in DOMAIN formSaves' : SaveShape(formSaves'[j])
    BY <1>3 DEF FormInv
  <2> QED BY <1>1, <2>1 DEF SaveShape
<1>7. \A j, k \in DOMAIN formSaves' :
        j < k => formSaves'[j].form.opening # formSaves'[k].form.opening \/ formSaves'[k].form.refilled
  BY <1>3, <1>4 DEF FormInv, OneSaveAtATime
<1>8. CASE form' = None
  BY <1>3, <1>5, <1>6, <1>7, <1>8 DEF FormInv, SavesFollowForm, OneSaveAtATime
<1>9. CASE form' = form
  <2>1. SavesFollowForm'
    BY <1>3, <1>9 DEF FormInv, SavesFollowForm
  <2>2. OneSaveAtATime'
    BY <1>3, <1>7, <1>9 DEF FormInv, OneSaveAtATime
  <2> QED BY <1>1, <1>3, <1>5, <1>6, <1>9, <2>1, <2>2 DEF FormInv
<1>10. CASE form # None /\ form' = [form EXCEPT !.saving = FALSE]
  <2>1. FormOK(form) /\ form.opening = opening
    BY <1>10 DEF FormInv
  <2>2. FormOK(form') /\ form'.opening = form.opening /\ form'.refilled = form.refilled
    <3>1. FormShape(form') /\ form'.opening = form.opening /\ form'.refilled = form.refilled
      BY <1>10, <2>1 DEF FormOK, FormShape, FormField
    <3>2. ~form'.new /\ ~form'.typed => AsFilled(form')
      BY <1>10, <2>1 DEF FormOK, FormShape, FormField, AsFilled
    <3> QED BY <3>1, <3>2 DEF FormOK
  <2>3. SavesFollowForm'
    BY <1>3, <1>10, <2>2 DEF FormInv, SavesFollowForm
  <2>4. ASSUME NEW j \in DOMAIN formSaves', ~form.refilled PROVE FALSE
    <3>1. /\ Old(j) \in DOMAIN formSaves /\ Old(j) # i
          /\ formSaves[Old(j)].form.opening = form.opening /\ formSaves[i].form.opening = form.opening
      BY <1>3, <1>10, <2>4 DEF FormInv, SavesFollowForm
    <3>2. Old(j) < i \/ i < Old(j)
      BY <1>2, <3>1
    <3>3. formSaves[i].form.refilled \/ formSaves[Old(j)].form.refilled
      BY <3>1, <3>2 DEF FormInv, OneSaveAtATime
    <3> QED BY <1>10, <2>4, <3>1, <3>3 DEF FormInv, SavesFollowForm
  <2>5. OneSaveAtATime'
    BY <1>7, <2>2, <2>4 DEF OneSaveAtATime
  <2> QED BY <1>1, <1>3, <1>5, <1>6, <2>1, <2>2, <2>3, <2>5 DEF FormInv
<1> QED BY <1>8, <1>9, <1>10 DEF FormLands

-----------------------------------------------------------------------------
LEMMA FormsStart == FormsInit => FormInv
<1> SUFFICES ASSUME FormsInit PROVE FormInv
  OBVIOUS
<1>1. formSaves = <<>> /\ DOMAIN formSaves = {} /\ form = None /\ opening = 0
  BY DEF FormsInit
<1>2. RowsOK
  BY StoredRows DEF FormsInit, RowsOK
<1>3. formSaves \in Seq(ToSet(formSaves))
  BY <1>1
<1> QED
  BY <1>1, <1>2, <1>3 DEF FormsInit, FormInv, SavesFollowForm, OneSaveAtATime

LEMMA DialogKeeps == ASSUME FormInv, InDialog PROVE FormInv'
<1>1. form # None
  BY DEF InDialog
<1>2. CASE EditTexts \/ EditIcon \/ SwitchActive
  BY <1>1, <1>2, ChangeKeeps DEF EditTexts, EditIcon, SwitchActive
<1>3. CASE onFileSelected
  BY <1>3 DEF onFileSelected, FormInv, RowsOK, SavesFollowForm, OneSaveAtATime, SaveShape, languagesOf
<1>4. ASSUME NEW l, SwitchLanguage(l) PROVE FormInv'
  BY <1>1, <1>4, LanguageShown
<1> QED
  BY <1>1, <1>2, <1>3, <1>4, CloseKeepsForms, SaveStarts, RefusalShown, NameKeeps, ImageKeeps, ProductKeeps
  DEF InDialog

LEMMA FormSteps == FormInv /\ [FormsNext]_formVars => FormInv'
<1>1. ASSUME FormInv, FormsNext PROVE FormInv'
  BY <1>1, DialogKeeps, OpenKeepsForms, LanguagesKeep, RefreshKeepsForms, UploadKeeps, ExecutionKeeps,
     LandingKeepsForms DEF FormsNext
<1>2. ASSUME FormInv, UNCHANGED formVars PROVE FormInv'
  BY <1>2 DEF formVars, FormInv, RowsOK, SavesFollowForm, OneSaveAtATime, SaveShape
<1> QED BY <1>1, <1>2

(* The forms of the editor keep their invariant.                            *)
THEOREM FormsKeepInv == FormsSpec => []FormInv
  BY FormsStart, FormSteps, PTL DEF FormsSpec

(* The dialogs keep their parts within their limits (type correctness), and  *)
(* an opening has one save under way.                                       *)
THEOREM FormsInShape == FormsSpec => [](FormsTypeOK /\ OneSaveAtATime)
<1>1. FormInv => FormsTypeOK /\ OneSaveAtATime
  BY DEF FormInv, FormOK, FormShape, FormsTypeOK
<1> QED BY <1>1, FormsKeepInv, PTL

-----------------------------------------------------------------------------
(* Two sets of rules.                                                       *)

LEMMA SaveTaken ==
  ASSUME NEW save, SaveShape(save)
  PROVE  RefusedFor(save.payload, save.form.settings) \ {"tooLarge"} =
           IF save.form.settings.primary \in ToSet(save.form.settings.list) THEN {} ELSE {"name"}
<1> DEFINE f == save.form
           p == save.payload
           s == f.settings
<1>1. FormShape(f) /\ p = FormPayload(f) /\ Problems(f) = {} /\ s \in LanguageSettings /\ f.kind \in FormKind
  BY DEF SaveShape, FormOK, FormShape
<1>2. s.primary \in ToSet(s.list) => primaryLanguage(s) = s.primary
  BY DEF primaryLanguage
<1>3. \A field \in FieldName : ~Wrong(f, field)
  BY <1>1 DEF Problems
<1> HIDE DEF f, p, s
<1>4. s = f.settings
  BY DEF s
<1>5. /\ p.calories = f.calories /\ p.shelf = f.shelf /\ p.names = f.names /\ p.badges \in 0..MaxBadges
      /\ p.groups = OptionsPayload(f.groups, s) /\ Len(p.groups) <= MaxOptionGroups
      /\ p.groups \in Seq(SentGroup)
      /\ \A g \in ToSet(p.groups) : Len(g.items) <= MaxOptionItems
      /\ f.kind = "category" => p.groups = <<>>
  BY <1>1, <1>4, PayloadInShape
<1>6. s.primary \in p.names <=> s.primary \in ToSet(s.list)
  <2>1. ~Wrong(f, "name")
    BY <1>3 DEF FieldName
  <2>2. f.names \subseteq ToSet(s.list)
    BY <1>1, <1>4 DEF FormShape
  <2> QED BY <1>2, <1>4, <1>5, <2>1, <2>2 DEF Wrong
<1>7. p.shelf # "none"
  <2>1. CASE f.kind = "category"
    BY <1>1, <1>5, <2>1 DEF FormShape
  <2>2. CASE f.kind = "product"
    <3>1. ~Wrong(f, "category")
      BY <1>3 DEF FieldName
    <3> QED BY <1>5, <2>2, <3>1 DEF Wrong
  <2> QED BY <1>1, <2>1, <2>2 DEF FormKind
<1>8. ~CaloriesRefused(p.calories)
  <2>1. CASE f.kind = "category"
    BY <1>1, <1>5, <2>1 DEF FormShape
  <2>2. CASE f.kind = "product"
    <3>1. ~Wrong(f, "calories")
      BY <1>3 DEF FieldName
    <3> QED BY <1>5, <2>2, <3>1 DEF Wrong, CaloriesRefused
  <2> QED BY <1>1, <2>1, <2>2 DEF FormKind
<1>9. ~(p.badges > MaxBadges) /\ ~(Len(p.groups) > MaxOptionGroups)
      /\ \A g \in ToSet(p.groups) : ~(Len(g.items) > MaxOptionItems)
  <2>1. p.badges \in Nat /\ Len(p.groups) \in Nat
    BY <1>5, LimitsAreNumbers
  <2>2. \A g \in ToSet(p.groups) : Len(g.items) \in Nat
    BY <1>5 DEF ToSet, SentGroup
  <2> QED BY <1>5, <2>1, <2>2, LimitsAreNumbers
<1>10. ASSUME NEW g \in ToSet(p.groups)
       PROVE  ~Nameless(g, s) /\ \A i \in ToSet(g.items) : ~Nameless(i, s)
  <2>1. f.kind = "product"
    BY <1>1, <1>5 DEF ToSet, FormKind
  <2>2. ~OptionProblem(f.groups, s)
    <3>1. ~Wrong(f, "options")
      BY <1>3 DEF FieldName
    <3> QED BY <1>4, <2>1, <3>1 DEF Wrong
  <2>3. f.groups \in Seq(DraftGroup)
    BY <1>1 DEF FormShape
  <2>4. PICK h \in ToSet(Named(f.groups)) :
          h \in DraftGroup /\ g.name = HasName(h.names, s) /\ g.items = ItemsPayload(h.items, s)
    BY <1>5, <2>3, GroupsSent
  <2>5. HasName(h.names, s) /\ \A i \in ToSet(Named(h.items)) : HasName(i.names, s)
    BY <2>2, <2>4 DEF OptionProblem
  <2>6. h.items \in Seq(DraftItem)
    BY <2>4 DEF DraftGroup
  <2>7. \A i \in ToSet(g.items) : \E j \in ToSet(Named(h.items)) : i.name = HasName(j.names, s)
    BY <2>4, <2>6, ItemsRead
  <2> QED BY <2>4, <2>5, <2>7 DEF Nameless
<1>11. ASSUME NEW field \in RefusedFor(p, s), field # "tooLarge", field # "name" PROVE FALSE
  BY <1>7, <1>8, <1>9, <1>10, <1>11 DEF RefusedFor
<1>12. "name" \in RefusedFor(p, s) <=> s.primary \notin ToSet(s.list)
  BY <1>6 DEF RefusedFor, FieldName
<1>13. RefusedFor(p, s) \ {"tooLarge"} = IF s.primary \in ToSet(s.list) THEN {} ELSE {"name"}
  BY <1>11, <1>12
<1> QED BY <1>13 DEF p, f, s

(* What the dialogs let through, the server takes, under the languages of    *)
(* the form, for every menu, row and text; only in a menu that does not offer *)
(* its default language is every save refused, for that name                 *)
(* (CategoryModal.jsx, ProductModal.jsx and utils, handlers/product.go).     *)
THEOREM SentTaken == FormsSpec => []SentIsAcceptable
<1>1. FormInv => SentIsAcceptable
  BY SaveTaken DEF FormInv, SentIsAcceptable
<1> QED BY <1>1, FormsKeepInv, PTL

-----------------------------------------------------------------------------
(* A row that is saved as it was opened.                                    *)

LEMMA EveryRowNamed ==
  ASSUME NEW X, NEW rows \in Seq(X), \A i \in DOMAIN rows : rows[i].names # {}
  PROVE  Named(rows) = rows
<1>1. \A r \in ToSet(rows) : r.names # {}
  BY DEF ToSet
<1> QED BY <1>1, NamedRows

(* What was filled in of a name is sent as the translations it came from.    *)
LEMMA NameReadBack ==
  ASSUME NEW entry, NEW s \in LanguageSettings
  PROVE  WithCopy(Translations(optionNamesOf(entry, s), s), s) = NamesWithin(entry.translations, s)
<1>1. primaryLanguage(s) \in ToSet(s.list)
  BY PrimaryIsListed
<1>2. Translations(optionNamesOf(entry, s), s) = Translations(entry.translations, s)
  BY <1>1 DEF Translations, optionNamesOf
<1> QED BY <1>2 DEF NamesWithin

ItemRows(items, s) ==
  [i \in DOMAIN items |-> [names |-> optionNamesOf(items[i], s), price |-> priceToInput(items[i].price)]]

ItemsStored(items, s) ==
  [i \in DOMAIN items |-> [translations |-> WithCopy(items[i].translations, s), price |-> items[i].price]]

(* Every item that was filled in is stored as the item it came from.         *)
LEMMA ItemsReadBack ==
  ASSUME NEW items \in Seq(StoredItem), NEW s \in LanguageSettings
  PROVE  /\ ItemsStored(ItemsPayload(ItemRows(items, s), s), s) = ItemsWithin(items, s)
         /\ DOMAIN ItemsPayload(ItemRows(items, s), s) = DOMAIN items
<1> DEFINE rows == ItemRows(items, s)
           sent == ItemsPayload(rows, s)
<1>1. DOMAIN rows = DOMAIN items /\ DOMAIN items = 1..Len(items) /\ Len(items) \in Nat
  BY DEF ItemRows
<1>2. ASSUME NEW i \in DOMAIN items
      PROVE  /\ rows[i].names # {} /\ rows[i].names = optionNamesOf(items[i], s)
             /\ parsePrice(rows[i].price) = items[i].price
             /\ items[i] = [translations |-> items[i].translations, price |-> items[i].price]
  <2>1. items[i] \in StoredItem
    OBVIOUS
  <2>2. items[i].price \in Nat /\ items[i] = [translations |-> items[i].translations, price |-> items[i].price]
    BY <2>1 DEF StoredItem
  <2>3. optionNamesOf(items[i], s) # {} /\ parsePrice(priceToInput(items[i].price)) = items[i].price
    BY <2>2, PrimaryIsListed, PriceReadBack
  <2> QED BY <2>2, <2>3 DEF ItemRows
<1> DEFINE X == {rows[i] : i \in DOMAIN items}
<1> HIDE DEF rows
<1>3. rows \in Seq(X)
  <2>1. rows = [i \in DOMAIN items |-> rows[i]]
    BY DEF rows, ItemRows
  <2> QED BY <1>1, <2>1
<1> HIDE DEF X
<1>4. Named(rows) = rows
  BY <1>1, <1>2, <1>3, EveryRowNamed
<1>5. sent = [i \in DOMAIN items |->
                [name |-> HasName(rows[i].names, s), translations |-> Translations(rows[i].names, s),
                 price |-> parsePrice(rows[i].price)]]
  BY <1>1, <1>4 DEF ItemsPayload
<1> HIDE DEF sent
<1>6. ItemsStored(sent, s) =
        [i \in DOMAIN items |->
           [translations |-> WithCopy(Translations(rows[i].names, s), s), price |-> parsePrice(rows[i].price)]]
  BY <1>5 DEF ItemsStored
<1>7. \A i \in DOMAIN items :
        [translations |-> WithCopy(Translations(rows[i].names, s), s), price |-> parsePrice(rows[i].price)]
          = [items[i] EXCEPT !.translations = NamesWithin(@, s)]
  <2> TAKE i \in DOMAIN items
  <2>1. WithCopy(Translations(rows[i].names, s), s) = NamesWithin(items[i].translations, s)
    BY <1>2, NameReadBack
  <2>2. items[i] = [translations |-> items[i].translations, price |-> items[i].price]
        /\ parsePrice(rows[i].price) = items[i].price
    BY <1>2
  <2>3. [items[i] EXCEPT !.translations = NamesWithin(@, s)]
          = [translations |-> NamesWithin(items[i].translations, s), price |-> items[i].price]
    BY <2>2
  <2> QED BY <2>1, <2>2, <2>3
<1>8. ItemsStored(sent, s) = ItemsWithin(items, s)
  BY <1>6, <1>7 DEF ItemsWithin
<1>9. DOMAIN sent = DOMAIN items
  BY <1>5
<1> QED BY <1>8, <1>9 DEF sent, rows

LEMMA GroupsReadBack ==
  ASSUME NEW groups \in Seq(StoredGroup), NEW s \in LanguageSettings
  PROVE  SanitizeOptions(OptionsPayload(OptionRows(groups, s), s), s)
           = [g \in DOMAIN groups |->
                [translations |-> NamesWithin(groups[g].translations, s), items |-> ItemsWithin(groups[g].items, s)]]
<1> DEFINE rows == OptionRows(groups, s)
           R == [g \in DOMAIN groups |->
                   [name |-> HasName(rows[g].names, s), translations |-> Translations(rows[g].names, s),
                    items |-> ItemsPayload(rows[g].items, s)]]
<1>1. DOMAIN rows = DOMAIN groups /\ rows \in Seq(DraftGroup) /\ DOMAIN groups = 1..Len(groups) /\ Len(groups) \in Nat
  <2>1. DOMAIN rows = DOMAIN groups
    BY DEF OptionRows
  <2> HIDE DEF rows
  <2> QED BY <2>1, FilledGroups DEF rows
<1>2. ASSUME NEW g \in DOMAIN groups
      PROVE  /\ rows[g].names = optionNamesOf(groups[g], s) /\ rows[g].names # {}
             /\ ItemsStored(ItemsPayload(rows[g].items, s), s) = ItemsWithin(groups[g].items, s)
             /\ ItemsPayload(rows[g].items, s) # <<>>
  <2>1. groups[g] \in StoredGroup
    OBVIOUS
  <2>2. groups[g].items \in Seq(StoredItem) /\ groups[g].items # <<>>
    BY <2>1 DEF StoredGroup
  <2>3. rows[g].names = optionNamesOf(groups[g], s) /\ rows[g].items = ItemRows(groups[g].items, s)
    BY DEF OptionRows, ItemRows
  <2> HIDE DEF rows
  <2>4. /\ ItemsStored(ItemsPayload(rows[g].items, s), s) = ItemsWithin(groups[g].items, s)
        /\ DOMAIN ItemsPayload(rows[g].items, s) = DOMAIN groups[g].items
    BY <2>2, <2>3, ItemsReadBack
  <2>5. DOMAIN groups[g].items # {}
    <3>1. \A q \in Seq(StoredItem) : q # <<>> => 1 \in DOMAIN q
      OBVIOUS
    <3> QED BY <2>2, <3>1
  <2>6. ItemsPayload(rows[g].items, s) # <<>>
    BY <2>4, <2>5
  <2> QED BY <2>3, <2>4, <2>6, PrimaryIsListed
<1> HIDE DEF rows
<1>3. Named(rows) = rows
  <2>1. \A g \in DOMAIN rows : rows[g].names # {}
    BY <1>1, <1>2
  <2> QED BY <1>1, <2>1, EveryRowNamed
<1> DEFINE all == [g \in DOMAIN Named(rows) |->
                     [name |-> HasName(Named(rows)[g].names, s), translations |-> Translations(Named(rows)[g].names, s),
                      items |-> ItemsPayload(Named(rows)[g].items, s)]]
           wanted == {g \in ToSet(all) : g.items # <<>>}
<1>4. OptionsPayload(rows, s) = Filtered(all, wanted)
  BY DEF OptionsPayload
<1>5. all = R
  BY <1>1, <1>3
<1> DEFINE X == {R[g] : g \in DOMAIN groups}
<1>6. R \in Seq(X)
  BY <1>1
<1>7. ToSet(R) \subseteq wanted
  <2>1. \A g \in DOMAIN groups : R[g].items # <<>>
    BY <1>2
  <2> HIDE DEF all
  <2>2. DOMAIN R = DOMAIN groups
    OBVIOUS
  <2> HIDE DEF R
  <2> QED BY <1>5, <2>1, <2>2 DEF ToSet
<1>8. SanitizeOptions(R, s) =
        [g \in DOMAIN groups |->
           [translations |-> WithCopy(Translations(rows[g].names, s), s),
            items |-> ItemsStored(ItemsPayload(rows[g].items, s), s)]]
  BY DEF SanitizeOptions, ItemsStored
<1>9. SanitizeOptions(R, s) =
        [g \in DOMAIN groups |->
           [translations |-> NamesWithin(groups[g].translations, s), items |-> ItemsWithin(groups[g].items, s)]]
  <2>1. \A g \in DOMAIN groups :
          /\ WithCopy(Translations(rows[g].names, s), s) = NamesWithin(groups[g].translations, s)
          /\ ItemsStored(ItemsPayload(rows[g].items, s), s) = ItemsWithin(groups[g].items, s)
    BY <1>2, NameReadBack
  <2> HIDE DEF R
  <2> QED BY <1>8, <2>1
<1> HIDE DEF X, R, all, wanted
<1>10. Filtered(R, wanted) = R
  BY <1>6, <1>7, FilterKeeps
<1> QED BY <1>4, <1>5, <1>9, <1>10 DEF rows

LEMMA AllBadgesCounted ==
  ASSUME NEW n \in Nat, NEW badges, badges = [b \in 1..n |-> TRUE]
  PROVE  Cardinality({b \in DOMAIN badges : badges[b]}) = n
<1> DEFINE all == {b \in DOMAIN badges : badges[b]}
<1>1. all = 1..n
  BY Zenon
<1> HIDE DEF all
<1>2. Cardinality(all) = n
  BY <1>1, FS_Interval
<1> QED BY <1>2 DEF all

LEMMA SavedAsOpened ==
  ASSUME NEW f, FormShape(f), AsFilled(f)
  PROVE  Stored(FormPayload(f), f.settings) = Within(f.source, f.settings)
<1> DEFINE r == f.source
           s == f.settings
           p == FormPayload(f)
           kept == SanitizeOptions(OptionsPayload(f.groups, s), s)
<1>1. /\ f.names = r.names \cap ToSet(s.list) /\ f.plain = r.plain /\ f.shelf = r.shelf /\ f.image = r.image
      /\ f.calories = r.calories /\ f.price = priceToInput(r.price)
      /\ f.compare = (IF r.compare = None THEN Blank ELSE priceToInput(r.compare))
      /\ f.badges = [b \in 1..r.badges |-> TRUE] /\ f.groups = OptionRows(r.groups, s)
      /\ IsStored(f.kind, r) /\ s \in LanguageSettings /\ s = f.settings
  BY DEF AsFilled, FormShape
<1> HIDE DEF r, s
<1>2. /\ r = [x \in DOMAIN EmptyRow |-> r[x]] /\ r.price \in Nat /\ r.compare \in Nat \cup {None}
      /\ r.badges \in Nat /\ r.groups \in Seq(StoredGroup)
  BY <1>1, LimitsAreNumbers DEF IsStored
<1> HIDE DEF p, kept
<1>3. parsePrice(f.price) = r.price /\ (IF f.compare = Blank THEN None ELSE parsePrice(f.compare)) = r.compare
  BY <1>1, <1>2, PriceReadBack
<1>4. Cardinality({b \in DOMAIN f.badges : f.badges[b]}) = r.badges
  <2>1. r.badges \in Nat /\ f.badges = [b \in 1..r.badges |-> TRUE]
    BY <1>1, <1>2
  <2> QED BY <2>1, AllBadgesCounted, Zenon
<1>5. kept = [g \in DOMAIN r.groups |->
                [translations |-> NamesWithin(r.groups[g].translations, s), items |-> ItemsWithin(r.groups[g].items, s)]]
  <2>1. r.groups \in Seq(StoredGroup) /\ s \in LanguageSettings
    BY <1>1, <1>2
  <2>2. kept = SanitizeOptions(OptionsPayload(OptionRows(r.groups, s), s), s)
    BY <1>1 DEF kept
  <2> QED BY <2>1, <2>2, GroupsReadBack
<1>6. p = [names |-> f.names, plain |-> f.plain, shelf |-> f.shelf, image |-> f.image, price |-> r.price,
           compare |-> r.compare, calories |-> f.calories, badges |-> r.badges, groups |-> OptionsPayload(f.groups, s)]
  BY <1>1, <1>3, <1>4 DEF p, FormPayload
<1>7. Stored(p, s) = [p EXCEPT !.groups = kept]
  BY <1>1, <1>6 DEF Stored, kept
<1>8. Within(r, s) = [r EXCEPT !.names = r.names \cap ToSet(s.list), !.groups = kept]
  <2>1. Within(r, s) = [r EXCEPT !.names = r.names \cap ToSet(s.list),
               !.groups = [g \in DOMAIN r.groups |->
                  [translations |-> NamesWithin(r.groups[g].translations, s), items |-> ItemsWithin(r.groups[g].items, s)]]]
    BY Zenon DEF Within
  <2> QED BY <1>5, <2>1
<1>9. Stored(p, s) = Within(r, s)
  <2>1. r = [names |-> r.names, plain |-> r.plain, shelf |-> r.shelf, image |-> r.image, price |-> r.price,
             compare |-> r.compare, calories |-> r.calories, badges |-> r.badges, groups |-> r.groups]
    BY <1>2 DEF EmptyRow
  <2>2. Within(r, s) = [names |-> r.names \cap ToSet(s.list), plain |-> r.plain, shelf |-> r.shelf, image |-> r.image,
          price |-> r.price, compare |-> r.compare, calories |-> r.calories, badges |-> r.badges, groups |-> kept]
    BY <1>8, <2>1
  <2>3. Stored(p, s) = [names |-> f.names, plain |-> f.plain, shelf |-> f.shelf, image |-> f.image, price |-> r.price,
          compare |-> r.compare, calories |-> f.calories, badges |-> r.badges, groups |-> kept]
    BY <1>6, <1>7
  <2> QED BY <1>1, <2>2, <2>3
<1> QED BY <1>9 DEF p, r, s

(* Opening a row and saving it untouched writes the row back, within the     *)
(* languages of the menu: for every row the server may have stored.         *)
THEOREM UntouchedStays == FormsSpec => []UntouchedSaveChangesNothing
<1>1. FormInv => UntouchedSaveChangesNothing
  BY SavedAsOpened DEF FormInv, SaveShape, FormOK, UntouchedSaveChangesNothing
<1> QED BY <1>1, FormsKeepInv, PTL

-----------------------------------------------------------------------------
(* The menu bar and its dialogs.                                            *)

Dialog == {"confirm", "switcher", "create"}
Overflow == {"", "hidden"}

LockOK == lock.overflow \in Overflow /\ lock.found \in [Dialog -> Overflow]

(* At most one deletion runs, and the bar knows; it is asked for over the     *)
(* switcher.                                                                *)
DialogInv ==
  /\ listedMenus \subseteq MenuId /\ selectedMenu \in MenuId \cup {NoMenu}
  /\ menuToDelete \in MenuId \cup {NoMenu} /\ (menuToDelete # NoMenu => switchOpen)
  /\ LockOK
  /\ deleting \in BOOLEAN
  /\ ~deleting => deletions = {}
  /\ deleting => \E c : deletions = {c}

LEMMA FirstIsListed == ASSUME NEW s \in SUBSET MenuId PROVE FirstOf(s) \in MenuId \cup {NoMenu}
<1>1. CASE s = {}
  BY <1>1 DEF FirstOf
<1>2. CASE s # {}
  <2>1. s \subseteq Nat
    BY DialogConstants
  <2>2. PICK m \in s : \A n \in s : ~ (<<n, m>> \in OpToRel(<, Nat))
    BY <1>2, <2>1, NatLessThanWellFounded, WFMin, Zenon
  <2>3. ASSUME NEW n \in s PROVE m <= n
    <3>1. m \in Nat /\ n \in Nat
      BY <2>1
    <3>2. n < m => <<n, m>> \in OpToRel(<, Nat)
      BY <3>1 DEF OpToRel
    <3>3. ~ (<<n, m>> \in OpToRel(<, Nat))
      BY <2>2
    <3>4. ~ (n < m)
      BY <3>2, <3>3, Zenon
    <3> QED BY <3>1, <3>4
  <2>4. (CHOOSE k \in s : \A n \in s : k <= n) \in s
    BY <2>3
  <2> QED BY <1>2, <2>4 DEF FirstOf
<1> QED BY <1>1, <1>2

(* What a render puts back is what some dialog found.                       *)
LEMMA RenderKeepsLock == ASSUME LockOK, BarRendered PROVE LockOK'
<1> DEFINE was == InTree(OpenDialogs)
           now == InTree(OpenDialogs')
           released == IF was = <<>> THEN lock.overflow ELSE lock.found[was[Len(was)]]
<1>1. was \in Seq(Dialog)
  <2>1. DialogTree \in Seq(Dialog)
    BY DEF DialogTree, Dialog
  <2> QED BY <2>1, FilterKeeps DEF InTree
<1>2. lock' = [overflow |-> IF now = <<>> THEN released ELSE "hidden",
               found |-> [d \in Dialog |-> IF now # <<>> /\ d = now[1] THEN released
                                           ELSE IF d \in OpenDialogs' THEN "hidden" ELSE ""]]
  BY DEF BarRendered, Dialog
<1> HIDE DEF was, now
<1>3. released \in Overflow
  <2>1. was # <<>> => was[Len(was)] \in Dialog
    BY <1>1
  <2> QED BY <2>1 DEF LockOK
<1> HIDE DEF released
<1> QED BY <1>2, <1>3 DEF LockOK, Overflow

LEMMA BarKeeps == ASSUME DialogInv, BarStep, BarRendered PROVE DialogInv'
<1>1. LockOK'
  BY RenderKeepsLock DEF DialogInv
<1>2. CASE OpenSwitcher \/ Cancel \/ Escape \/ CloseSwitcher \/ OpenCreate \/ CloseCreate
  BY <1>1, <1>2 DEF DialogInv, OpenSwitcher, Cancel, Escape, CloseSwitcher, OpenCreate, CloseCreate,
     menuList, openDialogs, deletion, DialogStep
<1>3. CASE confirmDelete
  BY <1>1, <1>3 DEF DialogInv, confirmDelete, menuList, openDialogs
<1>4. ASSUME NEW m \in listedMenus, choose(m) \/ AskToDelete(m) PROVE DialogInv'
  BY <1>1, <1>4 DEF DialogInv, choose, AskToDelete, menuList, deletion
<1>5. ASSUME NEW c \in deletions, MenuDeleteLands(c) PROVE DialogInv'
  <2>1. /\ deletions' = {} /\ ~deleting' /\ deleting' \in BOOLEAN /\ listedMenus' \subseteq MenuId
        /\ menuToDelete' = NoMenu
    BY <1>5 DEF DialogInv, MenuDeleteLands
  <2>2. selectedMenu' \in MenuId \cup {NoMenu}
    <3>1. listedMenus \ {c.menu} \in SUBSET MenuId
      BY DEF DialogInv
    <3>2. FirstOf(listedMenus \ {c.menu}) \in MenuId \cup {NoMenu}
      BY <3>1, FirstIsListed
    <3> QED BY <1>5, <3>2 DEF DialogInv, MenuDeleteLands
  <2> QED BY <1>1, <2>1, <2>2 DEF DialogInv
<1>6. ASSUME NEW c \in deletions, MenuDeleteFails(c) PROVE DialogInv'
  BY <1>1, <1>6 DEF DialogInv, MenuDeleteFails, menuList, openDialogs
<1>7. ASSUME NEW m \in MenuId, MenuCreateLands(m) PROVE DialogInv'
  BY <1>1, <1>7 DEF DialogInv, MenuCreateLands, deletion
<1> QED BY <1>2, <1>3, <1>4, <1>5, <1>6, <1>7 DEF BarStep

LEMMA TypingKeeps == ASSUME DialogInv, FormStep, UNCHANGED lock PROVE DialogInv'
<1>1. UNCHANGED <<listedMenus, selectedMenu, switchOpen, menuToDelete, deleting, deletions>>
  BY DEF FormStep, TypeName, TypeSlug, toggleCustomSlug, saveMenu, MenuCreateFails, EditMenuForm,
     menuList, openDialogs, deletion
<1> QED BY <1>1 DEF DialogInv, LockOK

(* The menu bar keeps its parts in shape, and however the confirmation is     *)
(* closed and opened again over a request, by Escape or by a late answer,    *)
(* one deletion runs at a time.                                             *)
THEOREM DialogsSound == DialogsSpec => [](DialogsTypeOK /\ OneDeletion)
<1>1. DialogsInit => DialogInv
  <2> SUFFICES ASSUME DialogsInit PROVE DialogInv
    OBVIOUS
  <2>1. FirstOf(MenusAtStart) \in MenuId \cup {NoMenu} /\ MenusAtStart \subseteq MenuId
    BY DialogConstants, FirstIsListed
  <2> QED BY <2>1 DEF DialogsInit, DialogInv, LockOK, Dialog, Overflow
<1>2. DialogInv /\ [DialogsNext]_dialogVars => DialogInv'
  <2>1. DialogInv /\ UNCHANGED dialogVars => DialogInv'
    BY DEF dialogVars, DialogInv, LockOK
  <2> QED BY <2>1, BarKeeps, TypingKeeps DEF DialogsNext
<1>3. DialogInv => DialogsTypeOK /\ OneDeletion
  <2> SUFFICES ASSUME DialogInv PROVE DialogsTypeOK /\ OneDeletion
    OBVIOUS
  <2>1. Cardinality(deletions) <= 1 /\ (deleting <=> deletions # {})
    <3>1. CASE deleting
      <4>1. PICK c : deletions = {c}
        BY <3>1 DEF DialogInv
      <4>2. Cardinality({c}) = 1
        BY FS_Singleton
      <4> QED BY <3>1, <4>1, <4>2
    <3>2. CASE ~deleting
      BY <3>2, FS_EmptySet DEF DialogInv
    <3> QED BY <3>1, <3>2
  <2> QED BY <2>1 DEF DialogInv, DialogsTypeOK, OneDeletion, LockOK, Overflow
<1> QED BY <1>1, <1>2, <1>3, PTL DEF DialogsSpec

-----------------------------------------------------------------------------
(* Types of the settings page.                                               *)

NoSharedId(rows) == \A i, j \in DOMAIN rows : rows[i].id = rows[j].id => i = j

DraftShape(d) ==
  /\ d.languages \subseteq OfferedLanguage /\ d.primary \in d.languages
  /\ d.links \in Seq(Link) /\ Len(d.links) <= MaxLinks /\ NoSharedId(d.links)

(* What a save carries is what a draft may hold.                             *)
BodyShape(b) ==
  /\ "languages" \in DOMAIN b => b.languages \in (SUBSET OfferedLanguage) \ {{}}
  /\ "links" \in DOMAIN b => b.links \in Seq(Link) /\ Len(b.links) <= MaxLinks

SettingsKept ==
  /\ \A m \in SettingsMenu : RecordShape(menuRecords[m]) /\ RecordShape(shownRecords[m])
  /\ DraftShape(draft)
  /\ \A i \in DOMAIN settingsSaves : BodyShape(settingsSaves[i].body) /\ RecordShape(settingsSaves[i].answer)
  /\ saving => \E i \in DOMAIN settingsSaves : OwnSave(i)

LEMMA ElementOf == ASSUME NEW X, NEW s \in Seq(X), NEW k \in DOMAIN s PROVE s[k] \in X
  OBVIOUS

LEMMA LargestIdIs ==
  ASSUME NEW links \in Seq(Link)
  PROVE  LargestLinkId(links) \in Nat /\ \A i \in DOMAIN links : links[i].id <= LargestLinkId(links)
<1> DEFINE ids == {100} \cup {r.id : r \in ToSet(links)}
<1>0. \A r \in ToSet(links) : r \in Link /\ r.id \in Nat
  <2>1. \A i \in DOMAIN links : links[i] \in Link
    BY ElementOf
  <2> QED BY <2>1 DEF ToSet, Link
<1>1. ids \in SUBSET Nat /\ ids # {}
  BY <1>0
<1>2. IsFiniteSet(ids)
  <2> DEFINE T == {r.id : r \in ToSet(links)}
             f == [i \in DOMAIN links |-> links[i].id]
  <2>1. DOMAIN links = 1..Len(links) /\ Len(links) \in Nat
    BY LenProperties
  <2>2. IsFiniteSet(DOMAIN links)
    BY <2>1, FS_Interval
  <2>3. f \in Surjection(DOMAIN links, T)
    BY DEF Surjection, ToSet
  <2>4. IsFiniteSet(T)
    <3> HIDE DEF f, T
    <3> QED BY <2>2, <2>3, FS_Surjection
  <2>5. IsFiniteSet({100})
    BY FS_Singleton
  <2> QED BY <2>4, <2>5, FS_Union
<1>3. PICK n \in ids : \A k \in ids : k <= n
  BY <1>1, <1>2, LargestExists
<1>4. \A r \in ToSet(links) : 100 <= n /\ r.id <= n
  BY <1>3
<1>5. /\ LargestLinkId(links) \in ids
      /\ \A r \in ToSet(links) : r.id <= LargestLinkId(links)
  BY <1>4 DEF LargestLinkId
<1> HIDE DEF ids
<1> QED BY <1>1, <1>5 DEF ToSet

(* The rows of a draft have an id each, whatever ids they came with.          *)
LEMMA RowsBuilt ==
  ASSUME NEW links \in Seq(Link)
  PROVE  /\ buildLinkRows(links) \in Seq(Link) /\ Len(buildLinkRows(links)) = Len(links)
         /\ NoSharedId(buildLinkRows(links))
<1> DEFINE rows == buildLinkRows(links)
           L == LargestLinkId(links)
           first(i) == links[i].id # 0 /\ \A j \in 1..(i - 1) : links[j].id # links[i].id
<1>1. /\ DOMAIN links = 1..Len(links) /\ Len(links) \in Nat
      /\ L \in Nat /\ \A i \in DOMAIN links : links[i].id <= L
  BY LenProperties, LargestIdIs
<1> HIDE DEF L
<1>2. ASSUME NEW i \in DOMAIN links
      PROVE  links[i] \in Link /\ links[i].id \in Nat /\ i \in Nat
  <2>1. links[i] \in Link
    BY ElementOf
  <2>2. links[i].id \in Nat
    BY <2>1 DEF Link
  <2>3. i \in Nat
    BY <1>1
  <2> QED BY <2>1, <2>2, <2>3
<1>3. ASSUME NEW i \in DOMAIN links
      PROVE  rows[i] \in Link /\ rows[i].id = IF first(i) THEN links[i].id ELSE L + i
  <2>1. links[i] \in Link /\ links[i].id \in Nat /\ L + i \in Nat
    BY <1>1, <1>2
  <2>2. rows[i] = [links[i] EXCEPT !.id = IF first(i) THEN links[i].id ELSE L + i]
    BY DEF buildLinkRows, L
  <2> QED BY <2>1, <2>2 DEF Link
<1>4. rows = [i \in 1..Len(links) |-> rows[i]]
  BY <1>1 DEF buildLinkRows
<1> HIDE DEF rows
<1>5. rows \in Seq(Link) /\ Len(rows) = Len(links) /\ DOMAIN rows = DOMAIN links
  BY <1>1, <1>3, <1>4
<1>6. ASSUME NEW i \in DOMAIN links, NEW j \in DOMAIN links, i < j, rows[i].id = rows[j].id PROVE FALSE
  <2>1. i \in 1..(j - 1)
    BY <1>1, <1>6
  <2>2. CASE first(j)
    <3>1. rows[j].id = links[j].id /\ links[i].id # links[j].id
      BY <1>3, <2>1, <2>2
    <3>2. ~first(i) /\ rows[i].id = L + i
      BY <1>3, <1>6, <3>1
    <3>3. links[j].id <= L /\ links[j].id \in Nat /\ L \in Nat /\ i \in Nat /\ i > 0
      BY <1>1, <1>2
    <3> HIDE DEF first
    <3> QED BY <1>6, <3>1, <3>2, <3>3
  <2>3. CASE ~first(j)
    <3>1. rows[j].id = L + j
      BY <1>3, <2>3
    <3>2. rows[i].id \in {links[i].id, L + i}
      BY <1>3
    <3>3. links[i].id <= L /\ links[i].id \in Nat /\ L \in Nat /\ i \in Nat /\ j \in Nat /\ i < j
      BY <1>1, <1>2, <1>6
    <3> HIDE DEF first
    <3> QED BY <1>6, <3>1, <3>2, <3>3
  <2> QED BY <2>2, <2>3
<1>7. NoSharedId(rows)
  BY <1>1, <1>5, <1>6 DEF NoSharedId
<1> QED BY <1>5, <1>7 DEF rows

(* So a draft that was just built can be worked on.                          *)
LEMMA BuiltShape == ASSUME NEW r, RecordShape(r) PROVE DraftShape(buildDraft(r))
<1> DEFINE d == buildDraft(r)
<1>1. d.links = buildLinkRows(r.links) /\ d.languages = r.languages
  BY DEF buildDraft, Field
<1>2. d.primary \in r.languages
  <2>1. FirstLanguage(r.languages) \in r.languages
    <3>1. r.languages \in SUBSET Nat /\ r.languages # {}
      <4>1. OfferedLanguage \subseteq Nat
        BY SettingsConstants
      <4>2. r.languages \in (SUBSET OfferedLanguage) \ {{}}
        BY Zenon DEF RecordShape
      <4> QED BY <4>1, <4>2
    <3>2. \E n \in r.languages : \A k \in r.languages : n <= k
      BY <3>1, SmallestExists
    <3> QED BY <3>2 DEF FirstLanguage
  <2>2. d.primary = IF r.primary \in r.languages THEN r.primary ELSE FirstLanguage(r.languages)
    BY DEF buildDraft, Field
  <2> QED BY <2>1, <2>2
<1>3. r.languages \subseteq OfferedLanguage /\ r.links \in Seq(Link) /\ Len(r.links) <= MaxLinks
  BY DEF RecordShape
<1>4. /\ buildLinkRows(r.links) \in Seq(Link) /\ Len(buildLinkRows(r.links)) = Len(r.links)
      /\ NoSharedId(buildLinkRows(r.links))
  BY <1>3, RowsBuilt
<1> HIDE DEF d
<1>5. DraftShape(d)
  BY <1>1, <1>2, <1>3, <1>4 DEF DraftShape
<1> QED BY <1>5 DEF d

LEMMA FilteredRows ==
  ASSUME NEW rows \in Seq(Link), NEW W
  PROVE  /\ Filtered(rows, W) \in Seq(Link) /\ Len(Filtered(rows, W)) <= Len(rows)
         /\ NoSharedId(rows) => NoSharedId(Filtered(rows, W))
<1>1. Filtered(rows, W) \in Seq(Link) /\ Len(Filtered(rows, W)) <= Len(rows)
  BY FilterKeeps
<1> DEFINE G == {t \in Seq(Link) : NoSharedId(t) => NoSharedId(Filtered(t, W))}
<1>2. <<>> \in G
  BY FilterEmpty, EmptySeq
<1>3. ASSUME NEW t \in Seq(Link), NEW e \in Link, t \in G PROVE Append(t, e) \in G
  <2> DEFINE u == Append(t, e)
             g == Filtered(t, W)
  <2>1. /\ u \in Seq(Link) /\ DOMAIN u = DOMAIN t \cup {Len(t) + 1} /\ u[Len(t) + 1] = e
        /\ \A i \in DOMAIN t : u[i] = t[i] /\ i # Len(t) + 1
    BY AppendProperties, LenProperties
  <2> SUFFICES ASSUME NoSharedId(u) PROVE NoSharedId(Filtered(u, W))
    BY <2>1
  <2>2. NoSharedId(t) /\ \A i \in DOMAIN t : t[i].id # e.id
    BY <2>1 DEF NoSharedId
  <2>3. g \in Seq(Link) /\ NoSharedId(g) /\ ToSet(g) \subseteq ToSet(t)
    BY <1>3, <2>2, FilterKeeps
  <2>4. Filtered(u, W) = IF e \in W THEN Append(g, e) ELSE g
    BY FilterAppend
  <2> HIDE DEF g, u
  <2>5. \A i \in DOMAIN g : g[i].id # e.id
    BY <2>2, <2>3 DEF ToSet
  <2>6. /\ DOMAIN Append(g, e) = DOMAIN g \cup {Len(g) + 1} /\ Append(g, e)[Len(g) + 1] = e
        /\ \A i \in DOMAIN g : Append(g, e)[i] = g[i]
    BY <2>3, AppendProperties, LenProperties
  <2>7. NoSharedId(Append(g, e))
    BY <2>3, <2>5, <2>6 DEF NoSharedId
  <2> QED BY <2>3, <2>4, <2>7
<1>4. rows \in G
  <2> HIDE DEF G
  <2> QED BY <1>2, <1>3, ListInduction
<1> QED BY <1>1, <1>4

-----------------------------------------------------------------------------
(* The steps of the page.                                                    *)

LEMMA SameShape ==
  ASSUME NEW d, NEW e, DraftShape(d), e.languages = d.languages, e.primary = d.primary, e.links = d.links
  PROVE  DraftShape(e)
  BY DEF DraftShape

(* The owner edits, nothing else changes.                                    *)
LEMMA EditKept ==
  ASSUME SettingsKept, DraftShape(draft'),
         UNCHANGED <<menuRecords, shownRecords, saving, settingsVisit, settingsSaves>>
  PROVE  SettingsKept'
<1>1. \A i \in DOMAIN settingsSaves : OwnSave(i) => OwnSave(i)'
  BY DEF OwnSave
<1> QED BY <1>1 DEF SettingsKept

(* The draft stays, or is that of a record as it is stored.                  *)
LEMMA ShownKept ==
  ASSUME SettingsInv, SettingsKept, NEW m \in SettingsMenu, NEW r, RecordShape(r), NEW saved \in BOOLEAN,
         Shows(m, r, saved), UNCHANGED settingsMenu
  PROVE  (\A n \in SettingsMenu : RecordShape(shownRecords'[n])) /\ DraftShape(draft')
<1>1. \A n \in SettingsMenu : shownRecords'[n] = IF n = m THEN r ELSE shownRecords[n]
  BY DEF Shows, SettingsInv, PageOK, MenusOK
<1>2. \A n \in SettingsMenu : RecordShape(shownRecords'[n])
  BY <1>1 DEF SettingsKept
<1>3. settingsMenu \in SettingsMenu
  BY DEF SettingsInv, PageOK
<1>4. CASE DraftOf(shownRecords'[settingsMenu])
  BY <1>2, <1>3, <1>4, BuiltShape DEF DraftOf
<1>5. CASE UNCHANGED settingsForm
  <2>1. draft' = draft /\ DraftShape(draft)
    BY <1>5 DEF settingsForm, SettingsKept
  <2> QED BY <1>2, <2>1
<1> QED BY <1>2, <1>4, <1>5 DEF Shows

(* A record with another date, count or phone.                               *)
LEMMA SameRecordShape ==
  ASSUME NEW r, NEW q, RecordShape(r), q.languages = r.languages, q.links = r.links
  PROVE  RecordShape(q)
  BY DEF RecordShape

LEMMA UpdateKept ==
  ASSUME SettingsInv, SettingsKept, NEW f, f \notin {"languages", "primary", "links"}, NEW v, update(f, v)
  PROVE  SettingsKept'
<1>1. draft' = [draft EXCEPT ![f] = v]
      /\ UNCHANGED <<menuRecords, shownRecords, saving, settingsVisit, settingsSaves>>
  BY DEF update, Edited
<1>2. draft = [g \in Field |-> draft[g]] /\ {"languages", "primary", "links"} \subseteq Field
  BY DEF SettingsInv, DraftOK, Field
<1>3. draft'.languages = draft.languages /\ draft'.primary = draft.primary /\ draft'.links = draft.links
  BY <1>1, <1>2
<1>4. DraftShape(draft)
  BY DEF SettingsKept
<1> QED BY <1>1, <1>3, <1>4, SameShape, EditKept

LEMMA PlainEditKept ==
  ASSUME SettingsInv, SettingsKept,
         \/ \E t \in NameTyped : EditName(t)
         \/ \E t \in NoteTyped : EditSlogan(t) \/ EditDescription(t) \/ EditVatNote(t) \/ EditHeadline(t)
         \/ \E t \in PhoneTyped : EditPhone(t) \/ EditInstagram(t) \/ EditWifi(t)
         \/ \E c \in {"none", "other", "invalid"} : EditAccent(c) \/ EditInk(c) \/ EditBackground(c) \/ EditSplashColour(c)
         \/ \E f \in Image : ClearImage(f)
         \/ EditHeader \/ EditPlacement \/ EditFooter \/ EditShowDate \/ EditShowVat \/ EditProduction
         \/ EditCurrency \/ EditTheme \/ EditFont \/ EditBackgroundType \/ EditOverlay
         \/ SwitchSplash \/ EditSplashDisplay \/ EditDuration \/ EditEntrance \/ EditExitAnimation
         \/ EditSlideStyle \/ EditEasing \/ EditExitDuration \/ EditStatus
  PROVE  SettingsKept'
<1>1. CASE \/ \E t \in NameTyped : EditName(t)
           \/ \E t \in NoteTyped : EditSlogan(t) \/ EditDescription(t) \/ EditVatNote(t) \/ EditHeadline(t)
           \/ \E t \in PhoneTyped : EditPhone(t) \/ EditInstagram(t) \/ EditWifi(t)
  <2>1. \E f \in Text : \E v : update(f, v)
    BY <1>1 DEF EditName, EditSlogan, EditDescription, EditVatNote, EditHeadline, EditPhone, EditInstagram, EditWifi, Text
  <2>2. Text \cap {"languages", "primary", "links"} = {}
    BY DEF Text
  <2> QED BY <2>1, <2>2, UpdateKept
<1>2. CASE \/ \E c \in {"none", "other", "invalid"} : EditAccent(c) \/ EditInk(c) \/ EditBackground(c) \/ EditSplashColour(c)
           \/ \E f \in Image : ClearImage(f)
  <2>1. \E f \in Colour \cup Image : \E v : update(f, v)
    BY <1>2 DEF EditAccent, EditInk, EditBackground, EditSplashColour, ClearImage, Colour
  <2>2. (Colour \cup Image) \cap {"languages", "primary", "links"} = {}
    BY DEF Colour, Image
  <2> QED BY <2>1, <2>2, UpdateKept
<1>3. CASE \/ EditHeader \/ EditPlacement \/ EditFooter \/ EditShowDate \/ EditShowVat \/ EditProduction
           \/ EditCurrency \/ EditTheme \/ EditFont \/ EditBackgroundType \/ EditOverlay
           \/ SwitchSplash \/ EditSplashDisplay \/ EditDuration \/ EditEntrance \/ EditExitAnimation
           \/ EditSlideStyle \/ EditEasing \/ EditExitDuration \/ EditStatus
  <2>1. \E f \in Choice \cup {"duration", "display", "footer"} : \E v : update(f, v)
    BY <1>3 DEF EditHeader, EditPlacement, EditFooter, EditShowDate, EditShowVat, EditProduction,
           EditCurrency, EditTheme, EditFont, EditBackgroundType, EditOverlay,
           SwitchSplash, EditSplashDisplay, EditDuration, EditEntrance, EditExitAnimation,
           EditSlideStyle, EditEasing, EditExitDuration, EditStatus, Choice
  <2>2. (Choice \cup {"duration", "display", "footer"}) \cap {"languages", "primary", "links"} = {}
    BY DEF Choice
  <2> QED BY <2>1, <2>2, UpdateKept
<1> QED BY <1>1, <1>2, <1>3

LEMMA LinkRowsKept ==
  ASSUME SettingsInv, SettingsKept, NEW rows \in Seq(Link), update("links", rows), Len(rows) <= MaxLinks, NoSharedId(rows)
  PROVE  SettingsKept'
<1>1. draft' = [draft EXCEPT !["links"] = rows]
      /\ UNCHANGED <<menuRecords, shownRecords, saving, settingsVisit, settingsSaves>>
  <2>1. Edited({"links"}, [draft EXCEPT !["links"] = rows], slugError)
    BY Zenon DEF update
  <2> QED BY <2>1, Zenon DEF Edited
<1>2. draft = [g \in Field |-> draft[g]] /\ {"languages", "primary", "links"} \subseteq Field
  BY DEF SettingsInv, DraftOK, Field
<1>3. draft'.languages = draft.languages /\ draft'.primary = draft.primary /\ draft'.links = rows
  BY <1>1, <1>2
<1>4. DraftShape(draft')
  BY <1>3 DEF SettingsKept, DraftShape
<1> QED BY <1>1, <1>4, EditKept

LEMMA LinksKept == ASSUME SettingsInv, SettingsKept, EditLinks PROVE SettingsKept'
<1> DEFINE rows == draft.links
<1>1. rows \in Seq(Link) /\ Len(rows) <= MaxLinks /\ NoSharedId(rows)
  BY DEF SettingsKept, DraftShape
<1>0. Len(rows) \in Nat /\ DOMAIN rows = 1..Len(rows) /\ MaxLinks \in Nat /\ \A i \in DOMAIN rows : rows[i] \in Link
  BY <1>1, LenProperties, SettingsConstants, ElementOf
<1>2. CASE addLink
  <2> DEFINE e == [id |-> UnusedLinkId, label |-> "", url |-> ""]
             next == Append(rows, e)
  <2>1. /\ UnusedLinkId \in Nat
        /\ \A i \in DOMAIN rows : rows[i].id # UnusedLinkId
    <3>1. LargestLinkId(rows) \in Nat /\ \A i \in DOMAIN rows : rows[i].id <= LargestLinkId(rows)
      BY <1>1, LargestIdIs
    <3>2. UnusedLinkId = 1 + LargestLinkId(rows)
      BY DEF UnusedLinkId
    <3>3. \A i \in DOMAIN rows : rows[i].id \in Nat
      BY <1>0 DEF Link
    <3> QED BY <3>1, <3>2, <3>3
  <2>2. e \in Link /\ e.id = UnusedLinkId
    BY <2>1 DEF Link
  <2>3. update("links", next) /\ Len(rows) < MaxLinks
    BY <1>2 DEF addLink
  <2> HIDE DEF e
  <2>4. /\ next \in Seq(Link) /\ Len(next) = Len(rows) + 1
        /\ DOMAIN next = DOMAIN rows \cup {Len(rows) + 1}
        /\ next[Len(rows) + 1] = e /\ \A i \in DOMAIN rows : next[i] = rows[i]
    BY <1>1, <2>2, Appended
  <2>5. NoSharedId(next)
    BY <1>1, <2>1, <2>2, <2>4 DEF NoSharedId
  <2>6. Len(next) <= MaxLinks
    BY <1>0, <2>3, <2>4
  <2> QED BY <2>3, <2>4, <2>5, <2>6, LinkRowsKept
<1>3. ASSUME NEW id \in {r.id : r \in ToSet(rows)} PROVE LinkAt(id) \in DOMAIN rows
  <2>1. \E i \in DOMAIN rows : rows[i].id = id
    BY DEF ToSet
  <2> QED BY <2>1 DEF LinkAt
<1>4. ASSUME NEW i \in DOMAIN rows, NEW e \in Link, e.id = rows[i].id, update("links", [rows EXCEPT ![i] = e])
      PROVE  SettingsKept'
  <2> DEFINE next == [rows EXCEPT ![i] = e]
  <2>1. next \in Seq(Link) /\ Len(next) = Len(rows) /\ DOMAIN next = DOMAIN rows
    BY <1>1
  <2>2. \A j \in DOMAIN rows : next[j].id = rows[j].id
    BY <1>4
  <2>3. update("links", next)
    BY <1>4
  <2> HIDE DEF next
  <2>4. NoSharedId(next)
    BY <1>1, <2>1, <2>2 DEF NoSharedId
  <2>5. Len(next) <= MaxLinks
    BY <1>1, <2>1
  <2> QED BY <2>1, <2>3, <2>4, <2>5, LinkRowsKept
<1>5. ASSUME NEW id \in {r.id : r \in ToSet(rows)}, NEW text \in {"", "good", "bad"}, updateLinkLabel(id, text)
      PROVE  SettingsKept'
  <2> DEFINE i == LinkAt(id)
             e == [rows[i] EXCEPT !.label = text]
  <2>1. i \in DOMAIN rows /\ rows[i] \in Link
    BY <1>0, <1>3
  <2>2. e \in Link /\ e.id = rows[i].id
    BY <2>1 DEF Link
  <2>3. update("links", [rows EXCEPT ![i] = e])
    BY <1>5 DEF updateLinkLabel
  <2> HIDE DEF e, i
  <2> QED BY <1>4, <2>1, <2>2, <2>3
<1>6. ASSUME NEW id \in {r.id : r \in ToSet(rows)}, NEW text \in {"", "bare", "bad"}, updateLinkUrl(id, text)
      PROVE  SettingsKept'
  <2> DEFINE i == LinkAt(id)
             e == [rows[i] EXCEPT !.url = completeLinkUrl(text)]
  <2>1. i \in DOMAIN rows /\ rows[i] \in Link /\ completeLinkUrl(text) \in {"", "good", "bad"}
    BY <1>0, <1>3 DEF completeLinkUrl
  <2>2. e \in Link /\ e.id = rows[i].id
    BY <2>1 DEF Link
  <2>3. update("links", [rows EXCEPT ![i] = e])
    BY <1>6 DEF updateLinkUrl
  <2> HIDE DEF e, i
  <2> QED BY <1>4, <2>1, <2>2, <2>3
<1>7. ASSUME NEW id \in {r.id : r \in ToSet(rows)}, NEW down \in BOOLEAN, moveLink(id, down)
      PROVE  SettingsKept'
  <2> DEFINE i == LinkAt(id)
             j == IF down THEN i + 1 ELSE i - 1
             next == [rows EXCEPT ![i] = rows[j], ![j] = rows[i]]
  <2>1. i \in DOMAIN rows /\ j \in DOMAIN rows /\ update("links", next)
    BY <1>3, <1>7 DEF moveLink
  <2> HIDE DEF i, j
  <2>2. next \in Seq(Link) /\ Len(next) = Len(rows) /\ DOMAIN next = DOMAIN rows
    BY <1>1, <1>0, <2>1
  <2>3. \A k \in DOMAIN rows : next[k] = IF k = j THEN rows[i] ELSE IF k = i THEN rows[j] ELSE rows[k]
    BY <1>1, <2>1
  <2> HIDE DEF next
  <2>4. ASSUME NEW k \in DOMAIN rows, NEW m \in DOMAIN rows, next[k].id = next[m].id PROVE k = m
    BY <1>1, <2>1, <2>3, <2>4 DEF NoSharedId
  <2>5. NoSharedId(next)
    BY <2>2, <2>4 DEF NoSharedId
  <2>6. Len(next) <= MaxLinks
    BY <1>1, <2>2
  <2> QED BY <2>1, <2>2, <2>5, <2>6, LinkRowsKept
<1>8. ASSUME NEW id, removeLink(id) PROVE SettingsKept'
  <2> DEFINE next == Filtered(rows, {r \in ToSet(rows) : r.id # id})
  <2>1. update("links", next)
    BY <1>8 DEF removeLink
  <2>2. next \in Seq(Link) /\ Len(next) <= Len(rows) /\ NoSharedId(next)
    BY <1>1, FilteredRows
  <2> HIDE DEF next
  <2>3. Len(next) <= MaxLinks
    <3>1. Len(next) \in Nat
      BY <2>2, LenProperties
    <3> QED BY <1>0, <1>1, <2>2, <3>1
  <2> QED BY <2>1, <2>2, <2>3, LinkRowsKept
<1> QED BY <1>2, <1>5, <1>6, <1>7, <1>8 DEF EditLinks

LEMMA LanguagesKept == ASSUME SettingsInv, SettingsKept, NEW l \in OfferedLanguage, toggleLanguage(l) PROVE SettingsKept'
<1> DEFINE next == IF l \in draft.languages THEN draft.languages \ {l} ELSE draft.languages \cup {l}
           first == IF draft.primary \in next THEN draft.primary ELSE FirstLanguage(next)
<1>1. next # {} /\ draft' = [draft EXCEPT !.languages = next, !.primary = first]
      /\ UNCHANGED <<menuRecords, shownRecords, saving, settingsVisit, settingsSaves>>
  BY DEF toggleLanguage, Edited
<1>2. next \subseteq OfferedLanguage /\ OfferedLanguage \subseteq Nat
  BY SettingsConstants DEF SettingsKept, DraftShape
<1> HIDE DEF next
<1>3. FirstLanguage(next) \in next
  <2>1. \E n \in next : \A k \in next : n <= k
    BY <1>1, <1>2, SmallestExists
  <2> QED BY <2>1 DEF FirstLanguage
<1>4. draft = [g \in Field |-> draft[g]] /\ {"languages", "primary", "links"} \subseteq Field
  BY DEF SettingsInv, DraftOK, Field
<1>5. draft'.languages = next /\ draft'.primary \in next /\ draft'.links = draft.links
  BY <1>1, <1>3, <1>4
<1>6. DraftShape(draft')
  BY <1>2, <1>5 DEF SettingsKept, DraftShape
<1> QED BY <1>1, <1>6, EditKept

LEMMA DefaultKept == ASSUME SettingsInv, SettingsKept, NEW l, ChooseDefaultLanguage(l) PROVE SettingsKept'
<1>1. l \in draft.languages /\ draft' = [draft EXCEPT !["primary"] = l]
      /\ UNCHANGED <<menuRecords, shownRecords, saving, settingsVisit, settingsSaves>>
  BY DEF ChooseDefaultLanguage, update, Edited
<1>2. draft = [g \in Field |-> draft[g]] /\ {"languages", "primary", "links"} \subseteq Field
  BY DEF SettingsInv, DraftOK, Field
<1>3. draft'.languages = draft.languages /\ draft'.primary = l /\ draft'.links = draft.links
  BY <1>1, <1>2
<1>4. DraftShape(draft')
  BY <1>1, <1>3 DEF SettingsKept, DraftShape
<1> QED BY <1>1, <1>4, EditKept

(* The address alone, or one image.                                          *)
LEMMA OneFieldKept ==
  ASSUME SettingsInv, SettingsKept, NEW f, f \notin {"languages", "primary", "links"}, NEW v,
         draft' = [draft EXCEPT ![f] = v],
         UNCHANGED <<menuRecords, shownRecords, saving, settingsVisit, settingsSaves>>
  PROVE  SettingsKept'
<1>2. draft = [g \in Field |-> draft[g]] /\ {"languages", "primary", "links"} \subseteq Field
  BY DEF SettingsInv, DraftOK, Field
<1>3. draft'.languages = draft.languages /\ draft'.primary = draft.primary /\ draft'.links = draft.links
  BY <1>2
<1> QED BY <1>3, SameShape, EditKept DEF SettingsKept

LEMMA FieldStepsKept ==
  ASSUME SettingsInv, SettingsKept,
         \/ \E s \in SlugTyped : EditSlug(s)
         \/ \E f \in Image : StartUpload(f)
         \/ \E u \in imageUploads : UploadEnds(u[1], u[2])
         \/ RefuseSettings \/ NothingLeftToSend
  PROVE  SettingsKept'
<1>0. DraftShape(draft)
  BY DEF SettingsKept
<1>1. ASSUME NEW s, EditSlug(s) PROVE SettingsKept'
  <2>1. draft' = [draft EXCEPT !["slug"] = s] /\ UNCHANGED <<menuRecords, shownRecords, saving, settingsVisit, settingsSaves>>
    BY <1>1 DEF EditSlug, Edited
  <2> QED BY <2>1, OneFieldKept
<1>2. ASSUME NEW f, StartUpload(f) PROVE SettingsKept'
  <2>1. UNCHANGED <<draft, menuRecords, shownRecords, saving, settingsVisit, settingsSaves>>
    BY <1>2 DEF StartUpload, settingsForm
  <2> QED BY <1>0, <2>1, EditKept
<1>3. ASSUME NEW u \in imageUploads, UploadEnds(u[1], u[2]) PROVE SettingsKept'
  <2>1. /\ UNCHANGED <<menuRecords, shownRecords, saving, settingsVisit, settingsSaves>>
        /\ UNCHANGED draft \/ draft' = [draft EXCEPT ![u[2]] = ~draft[u[2]]]
    BY <1>3 DEF UploadEnds, settingsForm
  <2>2. u[2] \notin {"languages", "primary", "links"}
    BY DEF SettingsInv, PageOK, Image
  <2>3. CASE UNCHANGED draft
    BY <1>0, <2>1, <2>3, EditKept
  <2>4. CASE draft' = [draft EXCEPT ![u[2]] = ~draft[u[2]]]
    BY <2>1, <2>2, <2>4, OneFieldKept
  <2> QED BY <2>1, <2>3, <2>4
<1>4. CASE RefuseSettings
  <2>1. UNCHANGED <<draft, menuRecords, shownRecords, saving, settingsVisit, settingsSaves>>
    BY <1>4 DEF RefuseSettings
  <2> QED BY <1>0, <2>1, EditKept
<1>5. CASE NothingLeftToSend
  <2>1. /\ draft' = [draft EXCEPT !["slug"] = [draft["slug"] EXCEPT !.dash = FALSE]]
        /\ UNCHANGED <<menuRecords, shownRecords, saving, settingsVisit, settingsSaves>>
    BY <1>5 DEF NothingLeftToSend
  <2> QED BY <2>1, OneFieldKept
<1> QED BY <1>1, <1>2, <1>3, <1>4, <1>5

LEMMA ShownStepsKept ==
  ASSUME SettingsInv, SettingsKept,
         \/ VisitSettings
         \/ \E m \in SettingsMenu : SwitchSettings(m) \/ RefreshSettings(m) \/ CountChanges(m) \/ OtherTabWrites(m)
  PROVE  SettingsKept'
<1>0. /\ settingsMenu \in SettingsMenu /\ DraftShape(draft)
      /\ \A m \in SettingsMenu : /\ RecordShape(menuRecords[m]) /\ RecordShape(shownRecords[m])
                                 /\ IsRecord(menuRecords[m]) /\ IsRecord(shownRecords[m])
  BY DEF SettingsInv, PageOK, MenusOK, SettingsKept
<1>1. CASE VisitSettings
  <2>1. /\ draft' = buildDraft(shownRecords[settingsMenu]) /\ saving' = FALSE
        /\ UNCHANGED <<menuRecords, shownRecords, settingsSaves>>
    BY <1>1 DEF VisitSettings, DraftOf
  <2>2. DraftShape(draft')
    BY <1>0, <2>1, BuiltShape
  <2> QED BY <2>1, <2>2 DEF SettingsKept
<1>2. ASSUME NEW m \in SettingsMenu, SwitchSettings(m) PROVE SettingsKept'
  <2>1. /\ draft' = buildDraft(shownRecords[m])
        /\ UNCHANGED <<menuRecords, shownRecords, saving, settingsVisit, settingsSaves>>
    BY <1>2 DEF SwitchSettings, DraftOf
  <2>2. DraftShape(draft')
    BY <1>0, <2>1, BuiltShape
  <2> QED BY <2>1, <2>2, EditKept
<1>3. ASSUME NEW m \in SettingsMenu, NEW r, RecordShape(r), Shows(m, r, FALSE),
             UNCHANGED <<menuRecords, settingsMenu, saving, settingsVisit, settingsSaves>>
      PROVE  SettingsKept'
  <2>1. (\A n \in SettingsMenu : RecordShape(shownRecords'[n])) /\ DraftShape(draft')
    BY <1>3, ShownKept
  <2>2. \A i \in DOMAIN settingsSaves : OwnSave(i) => OwnSave(i)'
    BY <1>3 DEF OwnSave
  <2> QED BY <1>3, <2>1, <2>2 DEF SettingsKept
<1>4. ASSUME NEW m \in SettingsMenu, RefreshSettings(m) PROVE SettingsKept'
  <2> DEFINE q == menuRecords[m]
             r == [q EXCEPT !.count = shownRecords[m].count]
  <2>1. Shows(m, r, FALSE) /\ UNCHANGED <<menuRecords, settingsMenu, saving, settingsVisit, settingsSaves>>
    BY <1>4 DEF RefreshSettings
  <2>2. r.languages = q.languages /\ r.links = q.links
    OBVIOUS
  <2> HIDE DEF r
  <2>3. RecordShape(r)
    BY <1>0, <2>2, SameRecordShape
  <2> QED BY <1>3, <2>1, <2>3
<1>5. ASSUME NEW m \in SettingsMenu, CountChanges(m) PROVE SettingsKept'
  <2> DEFINE q == shownRecords[m]
             r == [q EXCEPT !.count = 1 - @]
  <2>1. Shows(m, r, FALSE) /\ UNCHANGED <<menuRecords, settingsMenu, saving, settingsVisit, settingsSaves>>
    BY <1>5 DEF CountChanges
  <2>2. r.languages = q.languages /\ r.links = q.links
    OBVIOUS
  <2> HIDE DEF r
  <2>3. RecordShape(r)
    BY <1>0, <2>2, SameRecordShape
  <2> QED BY <1>3, <2>1, <2>3
<1>6. ASSUME NEW m \in SettingsMenu, OtherTabWrites(m) PROVE SettingsKept'
  <2>1. UNCHANGED <<shownRecords, draft, saving, settingsVisit, settingsSaves>>
    BY <1>6 DEF OtherTabWrites, settingsForm
  <2>2. menuRecords = [n \in SettingsMenu |-> menuRecords[n]]
    BY DEF SettingsInv, PageOK, MenusOK
  <2>3. ASSUME NEW n \in SettingsMenu PROVE RecordShape(menuRecords'[n])
    <3>1. menuRecords'[n].languages = menuRecords[n].languages /\ menuRecords'[n].links = menuRecords[n].links
      <4>1. CASE menuRecords' = [menuRecords EXCEPT ![m].priceDate = 1 - @]
        BY <2>2, <4>1
      <4>2. CASE \E t \in PhoneTyped : menuRecords' = [menuRecords EXCEPT ![m].phone = t]
        BY <2>2, <4>2
      <4> QED BY <1>6, <4>1, <4>2 DEF OtherTabWrites
    <3> QED BY <1>0, <3>1, SameRecordShape
  <2>4. \A i \in DOMAIN settingsSaves : OwnSave(i) => OwnSave(i)'
    BY <2>1 DEF OwnSave
  <2> QED BY <2>1, <2>3, <2>4 DEF SettingsKept
<1> QED BY <1>1, <1>2, <1>4, <1>5, <1>6

(* A save sends what a draft may hold, so that it is stored in shape.         *)
LEMMA SentShape ==
  ASSUME SettingsInv, SettingsKept, NEW body, body = [f \in FieldsSent |-> ValueSent(f, draft)]
  PROVE  BodyShape(body)
<1>1. DraftShape(draft)
  BY DEF SettingsKept
<1>2. ASSUME "languages" \in DOMAIN body PROVE body.languages \in (SUBSET OfferedLanguage) \ {{}}
  <2>1. body.languages = draft.languages
    BY <1>2 DEF ValueSent, Text
  <2>2. draft.languages \subseteq OfferedLanguage /\ draft.languages # {}
    BY <1>1 DEF DraftShape
  <2> QED BY <2>1, <2>2
<1>3. ASSUME "links" \in DOMAIN body PROVE body.links \in Seq(Link) /\ Len(body.links) <= MaxLinks
  <2>1. body.links = savableLinks(draft.links)
    BY <1>3 DEF ValueSent, Text
  <2>2. draft.links \in Seq(Link) /\ Len(draft.links) <= MaxLinks
    BY <1>1 DEF DraftShape
  <2>3. savableLinks(draft.links) \in Seq(Link) /\ Len(savableLinks(draft.links)) <= Len(draft.links)
    BY <2>2, FilteredRows DEF savableLinks
  <2>4. Len(savableLinks(draft.links)) \in Nat /\ Len(draft.links) \in Nat /\ MaxLinks \in Nat
    BY <2>2, <2>3, LenProperties, SettingsConstants
  <2>5. Len(savableLinks(draft.links)) <= MaxLinks
    BY <2>2, <2>3, <2>4
  <2> QED BY <2>1, <2>3, <2>5
<1> QED BY <1>2, <1>3 DEF BodyShape

LEMMA SaveKept == ASSUME SettingsInv, SettingsKept, SaveSettings PROVE SettingsKept'
<1> DEFINE body == [f \in FieldsSent |-> ValueSent(f, draft)]
           s == [menu |-> settingsMenu, visit |-> settingsVisit, body |-> body,
                 edited |-> settingsEdited, placement |-> contactPlacement(draft),
                 before |-> contactPlacement(shownRecords[settingsMenu]), overtaken |-> FALSE,
                 phase |-> "sent", answer |-> menuRecords[settingsMenu]]
           n == Len(settingsSaves) + 1
<1>1. /\ settingsSaves' = Append(settingsSaves, s)
      /\ UNCHANGED <<menuRecords, shownRecords, draft, settingsVisit>>
  BY DEF SaveSettings
<1>2. s.visit = settingsVisit /\ BodyShape(s.body) /\ RecordShape(s.answer)
  <2>1. BodyShape(body) /\ RecordShape(menuRecords[settingsMenu])
    BY SentShape DEF SettingsInv, PageOK, SettingsKept
  <2> HIDE DEF body
  <2> QED BY <2>1
<1> HIDE DEF s
<1>3. /\ DOMAIN settingsSaves' = DOMAIN settingsSaves \cup {n}
      /\ settingsSaves'[n] = s /\ \A i \in DOMAIN settingsSaves : settingsSaves'[i] = settingsSaves[i]
  <2>1. settingsSaves \in Seq(ToSet(settingsSaves))
    BY DEF SettingsInv, SavesOK
  <2> QED BY <1>1, <2>1, AppendedTo
<1> HIDE DEF n
<1>4. \A i \in DOMAIN settingsSaves' : BodyShape(settingsSaves'[i].body) /\ RecordShape(settingsSaves'[i].answer)
  BY <1>2, <1>3 DEF SettingsKept
<1>5. \E i \in DOMAIN settingsSaves' : settingsSaves'[i].visit = settingsVisit'
  BY <1>1, <1>2, <1>3
<1> QED BY <1>1, <1>4, <1>5 DEF SettingsKept, OwnSave

(* Once stored, it has a language and no more links than allowed.            *)
LEMMA WrittenShape ==
  ASSUME SettingsInv, SettingsKept, NEW i \in DOMAIN settingsSaves
  PROVE  RecordShape(Written(settingsSaves[i].menu, settingsSaves[i].body))
<1> DEFINE s == settingsSaves[i]
           old == menuRecords[s.menu]
           new == Written(s.menu, s.body)
<1>1. BodyShape(s.body) /\ RecordShape(old) /\ IsRecord(old)
  BY DEF SettingsInv, PageOK, MenusOK, SavesOK, SaveOK, SettingsKept
<1>2. {"languages", "links"} \subseteq DOMAIN old
  <2>1. DOMAIN old = Field \cup {"priceDate", "count"}
    BY <1>1 DEF IsRecord
  <2> QED BY <2>1 DEF Field
<1>3. /\ new.languages = IF "languages" \in DOMAIN s.body THEN s.body.languages ELSE old.languages
      /\ new.links = IF "links" \in DOMAIN s.body THEN s.body.links ELSE old.links
  BY <1>2 DEF Written
<1> HIDE DEF s, old, new
<1>4. new.languages \in (SUBSET OfferedLanguage) \ {{}}
  BY <1>1, <1>3, Zenon DEF BodyShape, RecordShape
<1>5. new.links \in Seq(Link) /\ Len(new.links) <= MaxLinks
  BY <1>1, <1>3, Zenon DEF BodyShape, RecordShape
<1>6. RecordShape(new)
  BY <1>4, <1>5, Zenon DEF RecordShape
<1> QED BY <1>6 DEF s, new

LEMMA EndKept ==
  ASSUME SettingsInv, SettingsKept, NEW i \in DOMAIN settingsSaves, NEW phase, NEW answer, RecordShape(answer),
         SaveEnds(i, phase, answer), UNCHANGED <<shownRecords, draft, saving, settingsVisit>>,
         \A m \in SettingsMenu : RecordShape(menuRecords'[m])
  PROVE  SettingsKept'
<1>1. /\ DOMAIN settingsSaves' = DOMAIN settingsSaves
      /\ \A j \in DOMAIN settingsSaves : j # i => settingsSaves'[j] = settingsSaves[j]
      /\ settingsSaves'[i].visit = settingsSaves[i].visit /\ settingsSaves'[i].body = settingsSaves[i].body
      /\ settingsSaves'[i].answer = answer
  BY EndedSave DEF SettingsInv
<1>2. \A j \in DOMAIN settingsSaves' : BodyShape(settingsSaves'[j].body) /\ RecordShape(settingsSaves'[j].answer)
  BY <1>1 DEF SettingsKept
<1>3. \A j \in DOMAIN settingsSaves : settingsSaves'[j].visit = settingsSaves[j].visit
  BY <1>1
<1>4. saving => \E j \in DOMAIN settingsSaves : settingsSaves[j].visit = settingsVisit
  BY DEF SettingsKept, OwnSave
<1>5. saving' => \E j \in DOMAIN settingsSaves' : settingsSaves'[j].visit = settingsVisit'
  BY <1>1, <1>3, <1>4
<1> QED BY <1>2, <1>5 DEF SettingsKept, OwnSave

LEMMA ExecuteKept == ASSUME SettingsInv, SettingsKept, NEW i \in DOMAIN settingsSaves, SettingsExecute(i) PROVE SettingsKept'
<1> DEFINE s == settingsSaves[i]
           new == Written(s.menu, s.body)
<1>1. /\ menuRecords' = [menuRecords EXCEPT ![s.menu] = new]
      /\ UNCHANGED <<shownRecords, draft, saving, settingsVisit>>
      /\ \E phase \in {"done", "failed"} : SaveEnds(i, phase, new)
  BY DEF SettingsExecute, settingsForm
<1>2. RecordShape(new)
  BY WrittenShape
<1> HIDE DEF new
<1>3. \A m \in SettingsMenu : menuRecords'[m] = IF m = s.menu THEN new ELSE menuRecords[m]
  BY <1>1 DEF SettingsInv, PageOK, MenusOK
<1>4. \A m \in SettingsMenu : RecordShape(menuRecords'[m])
  BY <1>2, <1>3 DEF SettingsKept
<1> QED BY <1>1, <1>2, <1>4, EndKept

LEMMA RefuseKept == ASSUME SettingsInv, SettingsKept, NEW i \in DOMAIN settingsSaves, SettingsRefuse(i) PROVE SettingsKept'
<1>1. /\ UNCHANGED <<menuRecords, shownRecords, draft, saving, settingsVisit>>
      /\ \E phase \in {"conflict", "failed"} : SaveEnds(i, phase, settingsSaves[i].answer)
  BY DEF SettingsRefuse, settingsForm
<1>2. RecordShape(settingsSaves[i].answer) /\ \A m \in SettingsMenu : RecordShape(menuRecords'[m])
  BY <1>1 DEF SettingsKept
<1> QED BY <1>1, <1>2, EndKept

(* The page waits on as long as its own save has not landed.                  *)
LEMMA LandKept == ASSUME SettingsInv, SettingsKept, NEW i \in DOMAIN settingsSaves, SettingsLand(i) PROVE SettingsKept'
<1> DEFINE s == settingsSaves[i]
           mine == s.visit = settingsVisit
<1>1. /\ settingsSaves' = RemoveAt(settingsSaves, i) /\ saving' = (saving /\ ~mine)
      /\ UNCHANGED <<menuRecords, settingsMenu, settingsVisit>>
  BY DEF SettingsLand
<1>2. settingsSaves \in Seq(ToSet(settingsSaves))
  BY DEF SettingsInv, SavesOK
<1>3. /\ \A k \in DOMAIN settingsSaves' : \E j \in DOMAIN settingsSaves : settingsSaves'[k] = settingsSaves[j]
      /\ \A j \in DOMAIN settingsSaves \ {i} : \E k \in DOMAIN settingsSaves' : settingsSaves'[k] = settingsSaves[j]
  <2> DEFINE at(k) == IF k < i THEN k ELSE k + 1
  <2>1. /\ \A k \in DOMAIN settingsSaves' : at(k) \in DOMAIN settingsSaves \ {i} /\ settingsSaves'[k] = settingsSaves[at(k)]
        /\ \A j \in DOMAIN settingsSaves \ {i} : \E k \in DOMAIN settingsSaves' : j = at(k)
    BY <1>1, <1>2, Removed
  <2> HIDE DEF at
  <2> QED BY <2>1
<1>4. \A k \in DOMAIN settingsSaves' : BodyShape(settingsSaves'[k].body) /\ RecordShape(settingsSaves'[k].answer)
  BY <1>3 DEF SettingsKept
<1>5. saving' => \E k \in DOMAIN settingsSaves' : settingsSaves'[k].visit = settingsVisit'
  <2> SUFFICES ASSUME saving' PROVE \E k \in DOMAIN settingsSaves' : settingsSaves'[k].visit = settingsVisit'
    OBVIOUS
  <2>1. PICK j \in DOMAIN settingsSaves : settingsSaves[j].visit = settingsVisit
    BY <1>1 DEF SettingsKept, OwnSave
  <2>2. j # i
    BY <1>1, <2>1
  <2> QED BY <1>1, <1>3, <2>1, <2>2
<1>6. (\A m \in SettingsMenu : RecordShape(shownRecords'[m])) /\ DraftShape(draft')
  <2>1. CASE s.phase = "done"
    <3> DEFINE q == s.answer
               r == [q EXCEPT !.count = shownRecords[s.menu].count]
    <3>1. Shows(s.menu, r, mine) /\ mine \in BOOLEAN /\ s.menu \in SettingsMenu
      BY <2>1 DEF SettingsLand, SettingsInv, SavesOK, SaveOK
    <3>2. r.languages = q.languages /\ r.links = q.links
      OBVIOUS
    <3>3. RecordShape(q)
      BY DEF SettingsKept
    <3> HIDE DEF r, mine
    <3>4. RecordShape(r)
      BY <3>2, <3>3, SameRecordShape
    <3> QED BY <1>1, <3>1, <3>4, ShownKept
  <2>2. CASE s.phase # "done"
    <3>1. UNCHANGED <<shownRecords, draft>>
      BY <2>2 DEF SettingsLand
    <3> QED BY <3>1 DEF SettingsKept
  <2> QED BY <2>1, <2>2
<1> QED BY <1>1, <1>4, <1>5, <1>6 DEF SettingsKept, OwnSave

LEMMA SettingsKeptStarts == SettingsInit => SettingsKept
<1> SUFFICES ASSUME SettingsInit PROVE SettingsKept
  OBVIOUS
<1>1. /\ menuRecords = RecordAtStart /\ shownRecords = RecordAtStart /\ settingsSaves = <<>> /\ saving = FALSE
      /\ draft = buildDraft(RecordAtStart[FirstSettings])
  BY DEF SettingsInit
<1>2. \A m \in SettingsMenu : RecordShape(RecordAtStart[m])
  BY SettingsShapes
<1>3. DraftShape(draft)
  BY <1>1, <1>2, BuiltShape, SettingsConstants
<1> QED BY <1>1, <1>2, <1>3 DEF SettingsKept

LEMMA SettingsKeptStep == SettingsInv /\ SettingsKept /\ [SettingsNext]_settingsVars => SettingsKept'
<1> SUFFICES ASSUME SettingsInv, SettingsKept, [SettingsNext]_settingsVars PROVE SettingsKept'
  OBVIOUS
<1>1. CASE EditSettings
  <2>1. ASSUME NEW f \in Image, StartUpload(f) PROVE SettingsKept'
    BY <2>1, FieldStepsKept
  <2>2. ASSUME NEW l \in OfferedLanguage, toggleLanguage(l) \/ ChooseDefaultLanguage(l) PROVE SettingsKept'
    BY <2>2, LanguagesKept, DefaultKept
  <2>3. ASSUME NEW s \in SlugTyped, EditSlug(s) PROVE SettingsKept'
    BY <2>3, FieldStepsKept
  <2> QED BY <1>1, <2>1, <2>2, <2>3, PlainEditKept, LinksKept DEF EditSettings
<1>2. CASE VisitSettings \/ \E m \in SettingsMenu : SwitchSettings(m) \/ RefreshSettings(m) \/ CountChanges(m) \/ OtherTabWrites(m)
  BY <1>2, ShownStepsKept
<1>3. CASE (\E u \in imageUploads : UploadEnds(u[1], u[2])) \/ RefuseSettings \/ NothingLeftToSend
  BY <1>3, FieldStepsKept
<1>4. CASE SaveSettings
  BY <1>4, SaveKept
<1>5. ASSUME NEW i \in DOMAIN settingsSaves, SettingsExecute(i) \/ SettingsRefuse(i) \/ SettingsLand(i)
      PROVE  SettingsKept'
  BY <1>5, ExecuteKept, RefuseKept, LandKept
<1>6. CASE UNCHANGED settingsVars
  <2>1. UNCHANGED <<draft, menuRecords, shownRecords, saving, settingsVisit, settingsSaves>>
    BY <1>6 DEF settingsVars
  <2> QED BY <2>1, EditKept DEF SettingsKept
<1> QED BY <1>1, <1>2, <1>3, <1>4, <1>5, <1>6 DEF SettingsNext

(* A draft always has every field, a default among its languages, and link   *)
(* rows that are found by an id each and fit the limit, whatever ids the      *)
(* stored links came with; a page that waits has a save under way             *)
(* (MenuSettings.jsx:343, 362, 885).                                         *)
THEOREM SettingsTyping == SettingsSpec => []SettingsTypeOK
<1>1. SettingsInv /\ SettingsKept => SettingsTypeOK
  <2> SUFFICES ASSUME SettingsInv, SettingsKept PROVE SettingsTypeOK
    OBVIOUS
  <2>1. DraftShape(draft) /\ draft = [f \in Field |-> draft[f]]
    BY DEF SettingsInv, DraftOK, SettingsKept
  <2>2. DOMAIN draft = Field
    BY <2>1
  <2>3. saving => \E i \in DOMAIN settingsSaves : settingsSaves[i].visit = settingsVisit
    BY DEF SettingsKept, OwnSave
  <2> QED BY <2>1, <2>2, <2>3, Zenon DEF DraftShape, NoSharedId, SettingsTypeOK
<1> QED BY <1>1, SettingsKeptStarts, SettingsKeptStep, SettingsKeepInv, PTL DEF SettingsSpec

-----------------------------------------------------------------------------
(* The pages together.                                                       *)

(* The accounts, the sessions and the cookie are what they are said to be, and *)
(* no page of the panel is drawn for nobody (lib/api.js, App.jsx:52).        *)
THEOREM SessionTyping == SessionSpec => []SessionTypeOK
<1>1. SessionInv => SessionTypeOK
  BY DEF SessionInv, SessionsOK, TabsOK, TabState, AnswersOK, AnswerOK, SessionTypeOK
<1> QED BY <1>1, SessionSound, PTL

LEMMA OnePageSteps ==
  ASSUME [PagesNext]_pageVars
  PROVE  /\ [FormsNext]_formVars /\ [DialogsNext]_dialogVars /\ [BulkNext]_bulkVars /\ [SettingsNext]_settingsVars
         /\ [SessionNext]_sessionVars /\ [VisitorNext]_visitorVars /\ [ScreenNext]_screenVars
  BY DEF PagesNext, pageVars, OnForms, OnDialogs, OnBulk, OnSettings, OnSession, OnVisitor, OnScreen

(* Whichever page a behaviour is about, each of them does what it does alone: *)
(* what is proved of a page holds of all of them together (App.jsx:63).      *)
THEOREM PagesAreApart ==
  PagesSpec => /\ FormsSpec /\ DialogsSpec /\ BulkSpec /\ SettingsSpec
               /\ SessionSpec /\ VisitorSpec /\ ScreenSpec
<1>1. PagesInit => /\ FormsInit /\ DialogsInit /\ BulkInit /\ SettingsInit
                   /\ SessionInit /\ VisitorInit /\ ScreenInit
  BY DEF PagesInit
<1>2. [PagesNext]_pageVars =>
        /\ [FormsNext]_formVars /\ [DialogsNext]_dialogVars /\ [BulkNext]_bulkVars /\ [SettingsNext]_settingsVars
        /\ [SessionNext]_sessionVars /\ [VisitorNext]_visitorVars /\ [ScreenNext]_screenVars
  BY OnePageSteps
<1> QED BY <1>1, <1>2, PTL DEF PagesSpec, FormsSpec, DialogsSpec, BulkSpec, SettingsSpec, SessionSpec, VisitorSpec, ScreenSpec

(* Every page keeps its state in shape, and no dialog has two saves or two    *)
(* deletions under way, for any menus, forms, accounts and limits.           *)
THEOREM PagesShaped == PagesSpec => []PagesInShape
<1>1. /\ FormsTypeOK /\ OneSaveAtATime /\ DialogsTypeOK /\ OneDeletion /\ BulkTypeOK /\ SettingsTypeOK
      /\ SessionTypeOK /\ VisitorTypeOK /\ ScreenTypeOK
      => PagesInShape
  BY DEF PagesInShape
<1> QED BY <1>1, PagesAreApart, FormsInShape, DialogsSound, BulkTyped, SettingsTyping, SessionTyping,
           VisitorTyping, ScreenTyping, PTL
=============================================================================
