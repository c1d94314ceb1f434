--------------------------- MODULE AccountsProofs ----------------------------
(* The password of an account, its sessions and its links, for any number of *)
(* requests in flight, any clock and any number of restarts.                 *)
EXTENDS Accounts, FiniteSetTheorems, TLAPS

-----------------------------------------------------------------------------
(* The inductive invariant.                                                  *)

Req == [step : Steps, kind : Kinds, seen : Password, own : Request \cup {First}, known : SUBSET Request]

Issue == [token : Request, created : Nat, wipes : Nat, known : SUBSET Request]

(* A session was opened by a request that is over.                          *)
OpenersDone == \A s \in sessions : s.by \in Request => requests[s.by].step = "done"

(* A token belongs to a request that has created its link.                   *)
Created(t) == requests[t].kind = "forgot" /\ requests[t].step \in {"mail", "done"}

(* A token is in at most one row, and not in one once it has been used.      *)
TokensApart ==
  /\ \A link \in resets : Created(link.token)
  /\ \A u \in uses : Created(u.token)
  /\ \A a, b \in resets : a.token = b.token => a = b
  /\ \A link \in resets, u \in uses : link.token # u.token

AccountInv == AccountTypeOK /\ OpenersDone /\ TokensApart /\ LinkUsedOnce /\ PasswordChangeEndsSessions

LEMMA AccountInvInit == AccountInit => AccountInv
<1> SUFFICES ASSUME AccountInit PROVE AccountInv
  OBVIOUS
<1>1. sessions \subseteq Session /\ First \notin Request /\ \A s, t \in sessions : s.by = t.by => s = t
  BY AccountConstants DEF AccountInit, Session, Password
<1>2. requests \in [Request -> Req]
  BY DEF AccountInit, Req, Steps, Kinds, Password
<1>3. AccountTypeOK
  <2>1. clock \in 0..LastTick /\ restarts \in 0..MaxRestarts /\ wipes \in Nat
    BY AccountConstants DEF AccountInit
  <2>2. password \in Password /\ byCommand \in BOOLEAN
    BY DEF AccountInit, Password
  <2>3. resets = {} /\ issued = {} /\ delivered = {} /\ uses = {}
    BY DEF AccountInit
  <2> QED BY <1>1, <1>2, <2>1, <2>2, <2>3 DEF AccountTypeOK, Req
<1>4. OpenersDone /\ PasswordChangeEndsSessions
  BY <1>1 DEF AccountInit, OpenersDone, PasswordChangeEndsSessions
<1>5. TokensApart /\ LinkUsedOnce
  BY DEF AccountInit, TokensApart, LinkUsedOnce
<1> QED BY <1>3, <1>4, <1>5 DEF AccountInv

-----------------------------------------------------------------------------
(* Requests only go on.                                                      *)

Progress ==
  /\ requests' \in [Request -> Req]
  /\ \A p \in Request : requests[p].step = "done" => requests'[p].step = "done" /\ requests'[p].kind = requests[p].kind
  /\ \A p \in Request : Created(p) => Created(p)'

(* What was being revoked still is.                                         *)
StillRevoking == Revoking \subseteq Revoking'

LEMMA MoveProgresses ==
  ASSUME AccountInv, NEW r \in Request, NEW q \in Req, requests' = [requests EXCEPT ![r] = q],
         requests[r].step # "done", requests[r].step = "mail" => q.step = "done" /\ q.kind = requests[r].kind
  PROVE  Progress
  BY DEF AccountInv, AccountTypeOK, Progress, Created, Req

LEMMA GoToProgresses ==
  ASSUME AccountInv, NEW r \in Request, NEW step \in Steps, GoTo(r, step),
         requests[r].step # "done", requests[r].step = "mail" => step = "done"
  PROVE  Progress
<1> DEFINE q == [requests[r] EXCEPT !.step = step]
<1>1. requests[r] \in Req
  BY DEF AccountInv, AccountTypeOK, Req
<1>2. q \in Req /\ q.step = step /\ q.kind = requests[r].kind
  BY <1>1 DEF Req
<1>3. requests' = [requests EXCEPT ![r] = q]
  BY DEF GoTo
<1> HIDE DEF q
<1> QED BY <1>2, <1>3, MoveProgresses

LEMMA MoveKeepsRevoking ==
  ASSUME AccountInv, NEW r \in Request, NEW q \in Req, requests' = [requests EXCEPT ![r] = q],
         requests[r].step \notin {"clear", "revoke"}
  PROVE  StillRevoking
  BY DEF AccountInv, AccountTypeOK, StillRevoking, Revoking

LEMMA GoToKeepsRevoking ==
  ASSUME AccountInv, NEW r \in Request, NEW step \in Steps, GoTo(r, step),
         requests[r].step \notin {"clear", "revoke"} \/ step = "revoke"
  PROVE  StillRevoking
  BY DEF AccountInv, AccountTypeOK, GoTo, StillRevoking, Revoking

-----------------------------------------------------------------------------
(* What a step leaves alone stays in order.                                  *)

LEMMA LinksStay ==
  ASSUME AccountInv, Progress, resets' \subseteq resets, UNCHANGED uses
  PROVE  TokensApart' /\ LinkUsedOnce' /\ resets' \subseteq Link
<1>1. \A p \in Request : Created(p) => Created(p)'
  BY DEF Progress
<1>2. (\A link \in resets : link.token \in Request) /\ (\A u \in uses : u.token \in Request)
  BY DEF AccountInv, AccountTypeOK, Link
<1>3. (\A link \in resets' : Created(link.token)') /\ (\A u \in uses' : Created(u.token)')
  BY <1>1, <1>2 DEF AccountInv, TokensApart
<1> QED BY <1>3 DEF AccountInv, AccountTypeOK, TokensApart, LinkUsedOnce

LEMMA OpenersStay ==
  ASSUME AccountInv, Progress, sessions' \subseteq sessions
  PROVE  /\ OpenersDone' /\ sessions' \subseteq Session
         /\ \A s, t \in sessions' : s.by = t.by => s = t
  BY DEF AccountInv, AccountTypeOK, Progress, OpenersDone

LEMMA PasswordStays ==
  ASSUME AccountInv, StillRevoking, sessions' \subseteq sessions, UNCHANGED <<password, byCommand>>
  PROVE  PasswordChangeEndsSessions'
  BY DEF AccountInv, PasswordChangeEndsSessions, StillRevoking

(* A step that only moves requests, the clock and the history of mails.      *)
LEMMA QuietKeeps ==
  ASSUME AccountInv, Progress, StillRevoking, UNCHANGED <<password, uses, byCommand, wipes>>,
         sessions' \subseteq sessions, resets' \subseteq resets,
         clock' \in 0..LastTick, restarts' \in 0..MaxRestarts,
         issued' \subseteq Issue, delivered' \subseteq Request
  PROVE  AccountInv'
<1>1. OpenersDone' /\ TokensApart' /\ LinkUsedOnce' /\ PasswordChangeEndsSessions'
  BY LinksStay, OpenersStay, PasswordStays
<1>2. AccountTypeOK'
  BY LinksStay, OpenersStay DEF AccountInv, AccountTypeOK, Progress, Req, Issue
<1> QED BY <1>1, <1>2 DEF AccountInv

-----------------------------------------------------------------------------
(* One lemma an action.                                                      *)

LEMMA TypesNow ==
  ASSUME AccountInv
  PROVE  /\ clock \in 0..LastTick /\ restarts \in 0..MaxRestarts /\ wipes \in Nat
         /\ issued \subseteq Issue /\ delivered \subseteq Request
         /\ requests \in [Request -> Req] /\ password \in Password /\ byCommand \in BOOLEAN
  BY DEF AccountInv, AccountTypeOK, Req, Issue

LEMMA ArriveKeeps ==
  ASSUME AccountInv, NEW r \in Request, NEW kind \in Kinds, Arrive(r, kind)
  PROVE  AccountInv' /\ Progress
<1>1. requests[r] \in Req /\ requests[r].step = "idle"
  BY TypesNow DEF Arrive
<1>2. PICK own \in Request \cup {First} :
        requests' = [requests EXCEPT ![r] = [@ EXCEPT !.step = FirstStep(kind), !.kind = kind, !.own = own]]
  <2>1. \A s \in sessions : s.by \in Request \cup {First}
    BY DEF AccountInv, AccountTypeOK, Session
  <2> QED BY <2>1 DEF Arrive
<1>3. PICK q \in Req : requests' = [requests EXCEPT ![r] = q]
  <2>1. FirstStep(kind) \in Steps
    BY DEF FirstStep, Kinds, Steps
  <2>2. [requests[r] EXCEPT !.step = FirstStep(kind), !.kind = kind, !.own = own] \in Req
    BY <1>1, <2>1 DEF Req
  <2> QED BY <1>2, <2>2
<1>4. Progress /\ StillRevoking
  BY <1>1, <1>3, MoveProgresses, MoveKeepsRevoking
<1> QED BY <1>4, QuietKeeps, TypesNow DEF Arrive, history

LEMMA ReadHashKeeps ==
  ASSUME AccountInv, NEW r \in Request, ReadHash(r)
  PROVE  AccountInv' /\ Progress
<1>1. requests[r] \in Req /\ requests[r].step = "start"
  BY TypesNow DEF ReadHash, At
<1>2. PICK q \in Req : requests' = [requests EXCEPT ![r] = q]
  <2>1. CASE GoTo(r, "done")
    <3>1. [requests[r] EXCEPT !.step = "done"] \in Req
      BY <1>1 DEF Req, Steps
    <3> QED BY <2>1, <3>1 DEF GoTo
  <2>2. CASE requests' = [requests EXCEPT ![r].seen = password,
                            ![r].step = IF requests[r].kind = "login" THEN "check" ELSE "update"]
    <3> DEFINE step == IF requests[r].kind = "login" THEN "check" ELSE "update"
    <3>1. step \in Steps
      BY DEF Steps
    <3> HIDE DEF step
    <3>2. [requests[r] EXCEPT !.seen = password, !.step = step] \in Req
      BY <1>1, <3>1, TypesNow DEF Req
    <3>3. requests' = [requests EXCEPT ![r] = [requests[r] EXCEPT !.seen = password, !.step = step]]
      BY <1>1, <2>2, TypesNow DEF step
    <3> QED BY <3>2, <3>3
  <2> QED BY <2>1, <2>2 DEF ReadHash
<1>3. Progress /\ StillRevoking
  BY <1>1, <1>2, MoveProgresses, MoveKeepsRevoking
<1> QED BY <1>3, QuietKeeps, TypesNow DEF ReadHash, history

(* A request that only takes its next step.                                  *)
LEMMA StepOnly ==
  ASSUME AccountInv, NEW r \in Request, NEW step \in Steps, GoTo(r, step),
         requests[r].step \notin {"done", "clear", "revoke"}, requests[r].step = "mail" => step = "done",
         UNCHANGED <<clock, password, restarts, issued, uses, wipes, byCommand>>,
         sessions' \subseteq sessions, resets' \subseteq resets, delivered' \subseteq Request
  PROVE  AccountInv' /\ Progress
<1>1. Progress /\ StillRevoking
  BY GoToProgresses, GoToKeepsRevoking
<1> QED BY <1>1, QuietKeeps, TypesNow

LEMMA ForgotStepsKeep ==
  ASSUME AccountInv, NEW r \in Request, HasRecent(r) \/ CountActive(r) \/ SendMail(r) \/ Logout(r)
  PROVE  AccountInv' /\ Progress
<1>1. {"done", "count", "create"} \subseteq Steps
  BY DEF Steps
<1>2. CASE HasRecent(r)
  <2> DEFINE found == {a.token : a \in issued}
  <2>1. PICK step \in {"done", "count"} : requests' = [requests EXCEPT ![r].step = step, ![r].known = found]
    BY <1>2 DEF HasRecent
  <2>2. found \in SUBSET Request
    BY TypesNow DEF Issue
  <2> HIDE DEF found
  <2>3. requests[r] \in Req /\ requests[r].step = "recent"
    BY <1>2, TypesNow DEF HasRecent, At
  <2>4. PICK q \in Req : requests' = [requests EXCEPT ![r] = q]
    <3>1. [requests[r] EXCEPT !.step = step, !.known = found] \in Req
      BY <1>1, <2>2, <2>3 DEF Req
    <3>2. requests' = [requests EXCEPT ![r] = [requests[r] EXCEPT !.step = step, !.known = found]]
      BY <2>1, <2>3, TypesNow
    <3> QED BY <3>1, <3>2
  <2>5. Progress /\ StillRevoking
    BY <2>3, <2>4, MoveProgresses, MoveKeepsRevoking
  <2> QED BY <1>2, <2>5, QuietKeeps, TypesNow DEF HasRecent, history
<1>3. CASE CountActive(r)
  <2>1. PICK step \in {"done", "create"} : GoTo(r, step)
    BY <1>3 DEF CountActive
  <2> QED BY <1>1, <1>3, <2>1, StepOnly, TypesNow DEF CountActive, At, history
<1>4. CASE SendMail(r)
  BY <1>1, <1>4, StepOnly, TypesNow DEF SendMail, At
<1>5. CASE Logout(r)
  BY <1>1, <1>5, StepOnly, TypesNow DEF Logout, At, history
<1> QED BY <1>2, <1>3, <1>4, <1>5

LEMMA StartSessionKeeps ==
  ASSUME AccountInv, NEW r \in Request, StartSession(r)
  PROVE  AccountInv' /\ Progress
<1> DEFINE new == [by |-> r, with |-> requests[r].seen, kept |-> FALSE, raced |-> requests[r].seen # password]
<1>1. requests[r] \in Req /\ requests[r].step = "check" /\ GoTo(r, "done") /\ sessions' = sessions \cup {new}
      /\ UNCHANGED <<clock, password, resets, restarts, issued, delivered, uses, wipes, byCommand>>
  BY TypesNow DEF StartSession, At, history
<1>2. Progress /\ StillRevoking
  BY <1>1, GoToProgresses, GoToKeepsRevoking DEF Steps
<1>3. new \in Session /\ new.by = r /\ (new.with # password => new.raced)
  BY <1>1 DEF Session, Req
<1>4. requests'[r].step = "done"
  BY <1>1, TypesNow DEF GoTo
<1> HIDE DEF new
<1>5. \A s \in sessions : s.by # r
  BY <1>1 DEF AccountInv, OpenersDone
<1>6. OpenersDone' /\ sessions' \subseteq Session /\ \A s, t \in sessions' : s.by = t.by => s = t
  <2>1. \A s \in sessions : s.by \in Request => requests'[s.by].step = "done"
    BY <1>2 DEF AccountInv, OpenersDone, Progress
  <2> QED BY <1>1, <1>3, <1>4, <1>5, <2>1 DEF AccountInv, AccountTypeOK, OpenersDone
<1>7. PasswordChangeEndsSessions'
  BY <1>1, <1>2, <1>3 DEF AccountInv, PasswordChangeEndsSessions, StillRevoking
<1>8. TokensApart' /\ LinkUsedOnce'
  BY <1>1, <1>2, LinksStay
<1>9. AccountTypeOK'
  BY <1>1, <1>2, <1>6 DEF AccountInv, AccountTypeOK, Progress, Req, Issue
<1> QED BY <1>2, <1>6, <1>7, <1>8, <1>9 DEF AccountInv

LEMMA ConsumeKeeps ==
  ASSUME AccountInv, NEW r \in Request, ConsumePasswordReset(r)
  PROVE  AccountInv' /\ Progress
<1>1. requests[r] \in Req /\ requests[r].step = "check" /\ {"done", "update"} \subseteq Steps
      /\ UNCHANGED <<clock, password, sessions, restarts, issued, delivered, byCommand>>
  BY TypesNow DEF ConsumePasswordReset, At, Steps
<1>2. CASE GoTo(r, "done") /\ UNCHANGED <<resets, uses, wipes>>
  BY <1>1, <1>2, StepOnly, TypesNow
<1>3. CASE \E link \in resets :
             /\ Live(link) /\ resets' = resets \ {link}
             /\ uses' = uses \cup {[token |-> link.token, by |-> r]}
             /\ wipes' = wipes + 1 /\ GoTo(r, "update")
  <2>1. PICK link \in resets :
          /\ resets' = resets \ {link} /\ uses' = uses \cup {[token |-> link.token, by |-> r]}
          /\ wipes' = wipes + 1 /\ GoTo(r, "update")
    BY <1>3
  <2>2. Progress /\ StillRevoking
    BY <1>1, <2>1, GoToProgresses, GoToKeepsRevoking
  <2>3. OpenersDone' /\ PasswordChangeEndsSessions'
    BY <1>1, <2>2, OpenersStay, PasswordStays
  <2>4. link.token \in Request /\ Created(link.token)
    BY DEF AccountInv, AccountTypeOK, TokensApart, Link
  <2> DEFINE use == [token |-> link.token, by |-> r]
  <2>5. use \in [token : Request, by : Request] /\ use.token = link.token /\ uses' = uses \cup {use}
    BY <2>1, <2>4
  <2> HIDE DEF use
  <2>6. LinkUsedOnce'
    BY <2>5 DEF AccountInv, TokensApart, LinkUsedOnce
  <2>7. \A p \in Request : Created(p) => Created(p)'
    BY <2>2 DEF Progress
  <2>8. (\A k \in resets : k.token \in Request) /\ (\A u \in uses : u.token \in Request)
    BY DEF AccountInv, AccountTypeOK, Link
  <2>9. TokensApart'
    <3>1. (\A k \in resets' : Created(k.token)') /\ (\A u \in uses' : Created(u.token)')
      BY <2>1, <2>4, <2>5, <2>7, <2>8 DEF AccountInv, TokensApart
    <3>2. \A k \in resets', u \in uses' : k.token # u.token
      BY <2>1, <2>5 DEF AccountInv, TokensApart
    <3> QED BY <2>1, <3>1, <3>2 DEF AccountInv, TokensApart
  <2>10. AccountTypeOK'
    BY <1>1, <2>1, <2>2, <2>5 DEF AccountInv, AccountTypeOK, Progress, Req, Issue
  <2> QED BY <2>2, <2>3, <2>6, <2>9, <2>10 DEF AccountInv
<1> QED BY <1>2, <1>3 DEF ConsumePasswordReset

(* A change or a reset that has set a password has sessions to revoke.       *)
LEMMA UpdateKeeps ==
  ASSUME AccountInv, NEW r \in Request, UpdatePassword(r)
  PROVE  AccountInv' /\ Progress
<1>1. requests[r] \in Req /\ requests[r].step = "update" /\ requests[r].kind \in {"change", "reset", "command"}
      /\ UNCHANGED <<clock, sessions, resets, restarts, issued, delivered, uses, wipes>>
  BY TypesNow DEF UpdatePassword
<1>2. CASE GoTo(r, "done") /\ UNCHANGED <<password, byCommand>>
  BY <1>1, <1>2, StepOnly, TypesNow DEF Steps
<1>3. CASE ~(GoTo(r, "done") /\ UNCHANGED <<password, byCommand>>)
  <2>1. PICK step \in Steps :
          /\ password' = r /\ byCommand' = (requests[r].kind = "command") /\ GoTo(r, step)
          /\ requests[r].kind # "command" => step \in {"clear", "revoke"}
    <3>1. {"clear", "revoke", "done"} \subseteq Steps
      BY DEF Steps
    <3> QED BY <1>1, <1>3, <3>1 DEF UpdatePassword
  <2>2. Progress
    BY <1>1, <2>1, GoToProgresses
  <2>3. OpenersDone' /\ TokensApart' /\ LinkUsedOnce'
    BY <1>1, <2>2, OpenersStay, LinksStay
  <2>4. requests[r].kind # "command" => Revoking' # {}
    BY <1>1, <2>1, TypesNow DEF GoTo, Revoking
  <2>5. PasswordChangeEndsSessions'
    BY <2>1, <2>4 DEF PasswordChangeEndsSessions
  <2>6. password' \in Password /\ byCommand' \in BOOLEAN
    BY <2>1 DEF Password
  <2>7. AccountTypeOK'
    BY <1>1, <2>2, <2>6 DEF AccountInv, AccountTypeOK, Progress, Req, Issue
  <2> QED BY <2>2, <2>3, <2>5, <2>7 DEF AccountInv
<1> QED BY <1>2, <1>3

LEMMA ClearKeeps ==
  ASSUME AccountInv, NEW r \in Request, ClearLinks(r)
  PROVE  AccountInv' /\ Progress
<1>1. requests[r] \in Req /\ requests[r].step = "clear" /\ "revoke" \in Steps /\ GoTo(r, "revoke")
      /\ UNCHANGED <<clock, password, sessions, restarts, issued, delivered, uses, byCommand>>
      /\ resets' \subseteq resets /\ wipes' \in Nat
  BY TypesNow DEF ClearLinks, At, Steps
<1>2. Progress /\ StillRevoking
  BY <1>1, GoToProgresses, GoToKeepsRevoking
<1>3. OpenersDone' /\ TokensApart' /\ LinkUsedOnce' /\ PasswordChangeEndsSessions'
  BY <1>1, <1>2, LinksStay, OpenersStay, PasswordStays
<1>4. AccountTypeOK'
  BY <1>1, <1>2, LinksStay DEF AccountInv, AccountTypeOK, Progress, Req, Issue
<1> QED BY <1>2, <1>3, <1>4 DEF AccountInv

LEMMA RevokeKeeps ==
  ASSUME AccountInv, NEW r \in Request, Revoke(r)
  PROVE  AccountInv' /\ Progress
<1>1. requests[r] \in Req /\ requests[r].step = "revoke" /\ "done" \in Steps /\ GoTo(r, "done")
      /\ UNCHANGED <<clock, password, resets, restarts, issued, delivered, uses, wipes, byCommand>>
  BY TypesNow DEF Revoke, Steps, history
<1>2. Progress
  BY <1>1, GoToProgresses
<1> DEFINE Kept(t) == [t EXCEPT !.kept = TRUE]
<1>3. \A s \in sessions' : \E t \in sessions : s = Kept(t)
  BY DEF Revoke
<1>4. \A t \in Session : Kept(t) \in Session /\ Kept(t).kept /\ Kept(t).by = t.by
  BY DEF Session
<1> HIDE DEF Kept
<1>5. OpenersDone' /\ sessions' \subseteq Session /\ \A s, t \in sessions' : s.by = t.by => s = t
  <2>1. OpenersDone'
    BY <1>2, <1>3, <1>4 DEF AccountInv, AccountTypeOK, OpenersDone, Progress
  <2>2. \A s, t \in sessions' : s.by = t.by => s = t
    BY <1>3, <1>4 DEF AccountInv, AccountTypeOK
  <2>3. sessions' \subseteq Session
    BY <1>3, <1>4 DEF AccountInv, AccountTypeOK
  <2> QED BY <2>1, <2>2, <2>3
<1>6. PasswordChangeEndsSessions'
  BY <1>3, <1>4 DEF AccountInv, AccountTypeOK, PasswordChangeEndsSessions
<1>7. TokensApart' /\ LinkUsedOnce'
  BY <1>1, <1>2, LinksStay
<1>8. AccountTypeOK'
  BY <1>1, <1>2, <1>5 DEF AccountInv, AccountTypeOK, Progress, Req, Issue
<1> QED BY <1>2, <1>5, <1>6, <1>7, <1>8 DEF AccountInv

LEMMA CreateKeeps ==
  ASSUME AccountInv, NEW r \in Request, CreateLink(r)
  PROVE  AccountInv' /\ Progress
<1> DEFINE new == [token |-> r, created |-> clock]
<1>1. requests[r] \in Req /\ requests[r].step = "create" /\ requests[r].kind = "forgot" /\ "mail" \in Steps
      /\ GoTo(r, "mail") /\ resets' = resets \cup {new}
      /\ UNCHANGED <<clock, password, sessions, restarts, delivered, uses, wipes, byCommand>>
  BY TypesNow DEF CreateLink, At, Steps
<1>2. Progress /\ StillRevoking
  BY <1>1, GoToProgresses, GoToKeepsRevoking
<1>3. new \in Link /\ new.token = r /\ issued' \subseteq Issue
  <2>1. requests[r].known \in SUBSET Request /\ clock \in Nat
    BY <1>1, TypesNow, AccountConstants DEF Req
  <2>2. [token |-> r, created |-> clock, wipes |-> wipes, known |-> requests[r].known] \in Issue
    BY <2>1, TypesNow DEF Issue
  <2> QED BY <2>1, <2>2, TypesNow DEF CreateLink, Link
<1>4. Created(r)' /\ ~Created(r)
  BY <1>1, TypesNow DEF Created, GoTo, Req
<1> HIDE DEF new
<1>5. (\A k \in resets : k.token \in Request) /\ (\A u \in uses : u.token \in Request)
  BY DEF AccountInv, AccountTypeOK, Link
<1>6. TokensApart'
  <2>1. \A p \in Request : Created(p) => Created(p)'
    BY <1>2 DEF Progress
  <2>2. \A k \in resets : k.token # r
    BY <1>4 DEF AccountInv, TokensApart
  <2>3. \A u \in uses : u.token # r
    BY <1>4 DEF AccountInv, TokensApart
  <2>4. (\A k \in resets' : Created(k.token)') /\ (\A u \in uses' : Created(u.token)')
    <3>1. ASSUME NEW k \in resets' PROVE Created(k.token)'
      <4>1. CASE k \in resets
        BY <1>5, <2>1, <4>1 DEF AccountInv, TokensApart
      <4>2. CASE k = new
        BY <1>3, <1>4, <4>2
      <4> QED BY <1>1, <3>1, <4>1, <4>2
    <3> QED BY <1>1, <1>5, <2>1, <3>1 DEF AccountInv, TokensApart
  <2> QED BY <1>1, <1>3, <2>2, <2>3, <2>4 DEF AccountInv, TokensApart
<1>7. OpenersDone' /\ PasswordChangeEndsSessions' /\ LinkUsedOnce'
  BY <1>1, <1>2, OpenersStay, PasswordStays DEF AccountInv, LinkUsedOnce
<1>8. AccountTypeOK'
  BY <1>1, <1>2, <1>3 DEF AccountInv, AccountTypeOK, Progress, Req, Issue
<1> QED BY <1>2, <1>6, <1>7, <1>8 DEF AccountInv

(* Time, the sweep, a stuttering step.                                       *)
LEMMA NobodyMoves ==
  ASSUME AccountInv, UNCHANGED requests PROVE Progress /\ StillRevoking
  BY TypesNow DEF Progress, StillRevoking, Revoking, Created

LEMMA BackgroundKeeps ==
  ASSUME AccountInv, Sweep \/ Tick \/ UNCHANGED accountVars
  PROVE  AccountInv'
<1>1. clock \in 0..LastTick /\ LastTick \in Nat
  BY TypesNow, AccountConstants
<1>2. clock' \in 0..LastTick
  BY <1>1 DEF Sweep, Tick, accountVars
<1>3. resets' \subseteq resets
  BY DEF Sweep, Unswept, Tick, accountVars
<1>4. UNCHANGED <<password, sessions, requests, restarts, issued, delivered, uses, wipes, byCommand>>
  BY DEF Sweep, Tick, accountVars, history
<1> QED BY <1>2, <1>3, <1>4, NobodyMoves, QuietKeeps, TypesNow

(* The sessions are gone with the process, and nobody is left to revoke.     *)
LEMMA RestartKeeps ==
  ASSUME AccountInv, Restart
  PROVE  AccountInv' /\ Progress
<1>1. sessions' = {} /\ byCommand' = FALSE /\ UNCHANGED <<clock, password, resets, issued, delivered, uses, wipes>>
      /\ restarts' \in 0..MaxRestarts
  BY TypesNow, AccountConstants DEF Restart
<1>2. Progress
  <2>1. "done" \in Steps
    BY DEF Steps
  <2>2. requests' \in [Request -> Req]
    BY <2>1, TypesNow DEF Restart, Req
  <2>3. \A p \in Request : requests'[p].kind = requests[p].kind
                           /\ (requests'[p].step = requests[p].step \/ requests'[p].step = "done")
    BY TypesNow DEF Restart, Req
  <2> QED BY <2>2, <2>3 DEF Progress, Created
<1>3. OpenersDone' /\ PasswordChangeEndsSessions'
  BY <1>1 DEF OpenersDone, PasswordChangeEndsSessions
<1>4. TokensApart' /\ LinkUsedOnce'
  BY <1>1, <1>2, LinksStay
<1>5. AccountTypeOK'
  BY <1>1, <1>2 DEF AccountInv, AccountTypeOK, Progress, Req, Issue
<1> QED BY <1>2, <1>3, <1>4, <1>5 DEF AccountInv

LEMMA AccountInvStep == AccountInv /\ [AccountNext]_accountVars => AccountInv'
<1> SUFFICES ASSUME AccountInv, [AccountNext]_accountVars PROVE AccountInv'
  OBVIOUS
<1>1. ASSUME NEW r \in Request, NEW kind \in Kinds, Arrive(r, kind) PROVE AccountInv'
  BY <1>1, ArriveKeeps
<1>2. ASSUME NEW r \in Request, ReadHash(r) \/ StartSession(r) \/ Logout(r) PROVE AccountInv'
  BY <1>2, ReadHashKeeps, StartSessionKeeps, ForgotStepsKeep
<1>3. ASSUME NEW r \in Request, ConsumePasswordReset(r) \/ UpdatePassword(r) \/ ClearLinks(r) \/ Revoke(r)
      PROVE AccountInv'
  BY <1>3, ConsumeKeeps, UpdateKeeps, ClearKeeps, RevokeKeeps
<1>4. ASSUME NEW r \in Request, HasRecent(r) \/ CountActive(r) \/ CreateLink(r) \/ SendMail(r)
      PROVE AccountInv'
  BY <1>4, ForgotStepsKeep, CreateKeeps
<1>5. CASE Sweep \/ Tick \/ UNCHANGED accountVars
  BY <1>5, BackgroundKeeps
<1>6. CASE Restart
  BY <1>6, RestartKeeps
<1> QED BY <1>1, <1>2, <1>3, <1>4, <1>5, <1>6 DEF AccountNext, Finished

LEMMA AccountInvAlways == AccountSpec => []AccountInv
  BY AccountInvInit, AccountInvStep, PTL DEF AccountSpec

(* ChangePassword and ResetPassword (handlers/auth.go, passwordreset.go):     *)
(* once a change is over, a session of an earlier password is one the change  *)
(* was made from, one of a login that was under way, or one that the resetpw  *)
(* command could not reach - whatever requests cross and wherever one fails.  *)
THEOREM PasswordChangeEnds == AccountSpec => []PasswordChangeEndsSessions
<1>1. AccountInv => PasswordChangeEndsSessions
  BY DEF AccountInv
<1> QED BY <1>1, AccountInvAlways, PTL

(* ConsumePasswordReset (repository/passwordreset.go): a link sets a password *)
(* at most once, however many requests present it at the same time.          *)
THEOREM LinksAreSpent == AccountSpec => []LinkUsedOnce
<1>1. AccountInv => LinkUsedOnce
  BY DEF AccountInv
<1> QED BY <1>1, AccountInvAlways, PTL

-----------------------------------------------------------------------------
(* The links are rationed, by what the request for each has found out.       *)

KnownLive(K) == {link \in resets : Live(link) /\ link.token \in K}

Asking(p, steps) == requests[p].kind = "forgot" /\ requests[p].step \in steps

(* The links known are links there are.                                     *)
KnownExist ==
  /\ \A a \in issued : Created(a.token) /\ \A t \in a.known : Created(t)
  /\ \A p \in Request : \A t \in requests[p].known : Created(t)

(* A link that was issued since the last wipe still has its row, or is older *)
(* than the cooldown.                                                       *)
IssuedKept ==
  \A a \in issued :
    /\ a.wipes <= wipes /\ a.created <= clock
    /\ a.wipes = wipes => [token |-> a.token, created |-> a.created] \in resets \/ a.created + Cooldown <= clock

(* What a request for a link has found out holds until it creates it, of the *)
(* links it knew of.                                                        *)
CooledDown ==
  \A p \in Request : Asking(p, {"count", "create"}) =>
    \A a \in issued : a.token \in requests[p].known /\ a.wipes = wipes => a.created + Cooldown <= clock

RoomLeft == \A p \in Request : Asking(p, {"create"}) => Cardinality(KnownLive(requests[p].known)) < MaxActive

RationInv ==
  /\ KnownExist /\ IssuedKept /\ CooledDown /\ RoomLeft
  /\ IsFiniteSet(resets) /\ CooldownKept /\ ActiveLinksBounded

LEMMA RationInvInit == AccountInit => RationInv
<1> SUFFICES ASSUME AccountInit PROVE RationInv
  OBVIOUS
<1>1. resets = {} /\ issued = {} /\ \A p \in Request : requests[p].step = "idle" /\ requests[p].known = {}
  BY DEF AccountInit
<1>2. IsFiniteSet(resets)
  BY <1>1, FS_EmptySet
<1> QED BY <1>1, <1>2 DEF RationInv, KnownExist, IssuedKept, CooledDown, RoomLeft, CooldownKept, ActiveLinksBounded, Asking

(* Links only go: by age, or all that were issued before a wipe.             *)
LinksGo ==
  /\ UNCHANGED issued /\ resets' \subseteq resets
  /\ clock' \in Nat /\ clock <= clock' /\ wipes' \in Nat /\ wipes <= wipes'
  /\ wipes' = wipes => \A link \in resets \ resets' : link.created + Cooldown <= clock'

(* Fewer of the links known are live when there are fewer, or time goes on.  *)
LEMMA LiveFade ==
  ASSUME AccountInv, IsFiniteSet(resets), clock' \in Nat, clock <= clock', NEW K,
         \A link \in resets' : link.token \in K => link \in resets
  PROVE  /\ IsFiniteSet(KnownLive(K)) /\ KnownLive(K)' \subseteq KnownLive(K)
         /\ Cardinality(KnownLive(K)) \in Nat
         /\ Cardinality(KnownLive(K)') \in Nat /\ Cardinality(KnownLive(K)') <= Cardinality(KnownLive(K))
<1>1. clock \in Nat /\ TTL \in Nat /\ \A link \in resets : link.created \in Nat
  BY TypesNow, AccountConstants DEF AccountInv, AccountTypeOK, Link
<1>2. KnownLive(K)' \subseteq KnownLive(K)
  BY <1>1 DEF KnownLive, Live
<1>3. IsFiniteSet(KnownLive(K))
  BY FS_Subset DEF KnownLive
<1> QED BY <1>2, <1>3, FS_Subset, FS_CardinalityType

LEMMA Fading ==
  ASSUME AccountInv, RationInv, LinksGo
  PROVE  /\ IssuedKept' /\ IsFiniteSet(resets)' /\ CooldownKept' /\ ActiveLinksBounded'
         /\ \A K : Cardinality(KnownLive(K)) < MaxActive => Cardinality(KnownLive(K)') < MaxActive
         /\ \A a \in issued' : a.wipes = wipes' => a.wipes = wipes
<1>1. clock \in Nat /\ wipes \in Nat /\ Cooldown \in Nat /\ TTL \in Nat /\ MaxActive \in Nat
  BY TypesNow, AccountConstants
<1>2. \A a \in issued : a.wipes \in Nat /\ a.created \in Nat
  BY TypesNow DEF Issue
<1>3. IsFiniteSet(resets)'
  BY FS_Subset DEF RationInv, LinksGo
<1>4. ASSUME NEW K, Cardinality(KnownLive(K)) < MaxActive PROVE Cardinality(KnownLive(K)') < MaxActive
  <2>1. /\ Cardinality(KnownLive(K)) \in Nat /\ Cardinality(KnownLive(K)') \in Nat
        /\ Cardinality(KnownLive(K)') <= Cardinality(KnownLive(K))
    BY LiveFade DEF LinksGo, RationInv
  <2> QED BY <1>1, <1>4, <2>1
<1>5. ActiveLinksBounded'
  <2> SUFFICES ASSUME NEW b \in issued PROVE Cardinality(KnownLive(b.known)') < MaxActive
    BY DEF ActiveLinksBounded, KnownLive, LinksGo
  <2>1. Cardinality(KnownLive(b.known)) < MaxActive
    BY DEF RationInv, ActiveLinksBounded, KnownLive
  <2> QED BY <1>4, <2>1
<1>6. IssuedKept'
  <2> SUFFICES ASSUME NEW a \in issued
      PROVE /\ a.wipes <= wipes' /\ a.created <= clock'
            /\ a.wipes = wipes' => [token |-> a.token, created |-> a.created] \in resets' \/ a.created + Cooldown <= clock'
    BY DEF LinksGo, IssuedKept
  <2>1. a.wipes <= wipes /\ a.created <= clock
        /\ (a.wipes = wipes => [token |-> a.token, created |-> a.created] \in resets \/ a.created + Cooldown <= clock)
    BY DEF RationInv, IssuedKept
  <2>2. a.wipes <= wipes' /\ a.created <= clock'
    BY <1>1, <1>2, <2>1 DEF LinksGo
  <2>3. ASSUME a.wipes = wipes'
        PROVE  [token |-> a.token, created |-> a.created] \in resets' \/ a.created + Cooldown <= clock'
    <3>1. wipes' = wipes /\ a.wipes = wipes
      BY <1>1, <1>2, <2>1, <2>3 DEF LinksGo
    <3>2. CASE a.created + Cooldown <= clock
      BY <1>1, <1>2, <3>2 DEF LinksGo
    <3>3. CASE [token |-> a.token, created |-> a.created] \in resets \ resets'
      <4> DEFINE link == [token |-> a.token, created |-> a.created]
      <4>1. link.created + Cooldown <= clock'
        BY <3>1, <3>3 DEF LinksGo
      <4> QED BY <4>1
    <3> QED BY <2>1, <3>1, <3>2, <3>3
  <2> QED BY <2>2, <2>3
<1>7. CooldownKept'
  BY DEF LinksGo, RationInv, CooldownKept
<1>8. \A a \in issued' : a.wipes = wipes' => a.wipes = wipes
  <2>1. \A a \in issued : a.wipes \in Nat /\ a.wipes <= wipes
    BY <1>2 DEF RationInv, IssuedKept
  <2>2. issued' = issued /\ wipes <= wipes' /\ wipes' \in Nat
    BY DEF LinksGo
  <2> QED BY <1>1, <2>1, <2>2
<1> QED BY <1>3, <1>4, <1>5, <1>6, <1>7, <1>8

(* What was created stays so, and with it what is known.                     *)
LEMMA KnownStay ==
  ASSUME AccountInv, RationInv, Progress, UNCHANGED issued,
         \A p \in Request : requests'[p].known \subseteq requests[p].known \cup {a.token : a \in issued}
  PROVE  KnownExist'
<1>1. \A t \in Request : Created(t) => Created(t)'
  BY DEF Progress
<1>2. /\ \A a \in issued : a.token \in Request /\ a.known \subseteq Request
      /\ \A p \in Request : requests[p].known \subseteq Request
  BY TypesNow DEF Issue, Req
<1>3. /\ \A a \in issued : Created(a.token) /\ \A t \in a.known : Created(t)
      /\ \A p \in Request : \A t \in requests[p].known : Created(t)
  BY DEF RationInv, KnownExist
<1>4. \A a \in issued : Created(a.token)' /\ \A t \in a.known : Created(t)'
  BY <1>1, <1>2, <1>3
<1>5. ASSUME NEW p \in Request, NEW t \in requests'[p].known PROVE Created(t)'
  <2>1. t \in requests[p].known \/ \E a \in issued : t = a.token
    OBVIOUS
  <2> QED BY <1>1, <1>2, <1>3, <1>4, <2>1
<1> QED BY <1>4, <1>5 DEF KnownExist

(* Nobody begins to ask for a link, comes further with it or learns more.    *)
NobodyAsks ==
  \A p \in Request :
    /\ requests'[p].known = requests[p].known
    /\ Asking(p, {"count", "create"})' =>
         requests[p].kind = "forgot" /\ requests[p].step = requests'[p].step

LEMMA FadingKeeps ==
  ASSUME AccountInv, RationInv, Progress, LinksGo, NobodyAsks
  PROVE  RationInv'
<1>1. KnownExist'
  BY KnownStay DEF LinksGo, NobodyAsks
<1>2. CooledDown'
  <2> SUFFICES ASSUME NEW p \in Request, Asking(p, {"count", "create"})', NEW a \in issued,
                      a.token \in requests'[p].known, a.wipes = wipes'
      PROVE a.created + Cooldown <= clock'
    BY DEF CooledDown, LinksGo
  <2>1. Asking(p, {"count", "create"}) /\ a.token \in requests[p].known
    BY DEF NobodyAsks, Asking
  <2>2. a.wipes = wipes
    BY Fading DEF LinksGo
  <2>3. a.created + Cooldown <= clock
    BY <2>1, <2>2 DEF RationInv, CooledDown
  <2>4. a.created \in Nat /\ Cooldown \in Nat /\ clock \in Nat
    BY TypesNow, AccountConstants DEF Issue
  <2> QED BY <2>3, <2>4 DEF LinksGo
<1>3. RoomLeft'
  <2> SUFFICES ASSUME NEW p \in Request, Asking(p, {"create"})', NEW K, K = requests'[p].known
      PROVE Cardinality(KnownLive(K)') < MaxActive
    BY DEF RoomLeft, KnownLive
  <2>1. Asking(p, {"create"}) /\ K = requests[p].known
    BY DEF NobodyAsks, Asking
  <2>2. Cardinality(KnownLive(K)) < MaxActive
    BY <2>1 DEF RationInv, RoomLeft
  <2> QED BY <2>2, Fading
<1> QED BY <1>1, <1>2, <1>3, Fading DEF RationInv

LEMMA LinksGoByDefault ==
  ASSUME AccountInv, UNCHANGED <<clock, issued, wipes, resets>> PROVE LinksGo
  BY TypesNow DEF LinksGo

(* The other requests.                                                       *)
LEMMA OthersKeepRation ==
  ASSUME AccountInv, RationInv, NEW r \in Request, Progress,
         \/ ReadHash(r) \/ StartSession(r) \/ Logout(r) \/ ConsumePasswordReset(r)
         \/ UpdatePassword(r) \/ ClearLinks(r) \/ Revoke(r) \/ SendMail(r)
  PROVE  RationInv'
<1>1. requests \in [Request -> Req] /\ clock \in Nat /\ wipes \in Nat
  BY TypesNow, AccountConstants
<1>2. CASE ReadHash(r)
  <2>1. NobodyAsks
    BY <1>1, <1>2 DEF ReadHash, At, GoTo, NobodyAsks, Asking, Req
  <2> QED BY <1>2, <2>1, LinksGoByDefault, FadingKeeps DEF ReadHash, history
<1>3. CASE StartSession(r) \/ Logout(r) \/ Revoke(r) \/ UpdatePassword(r)
  <2>1. requests[r].kind # "forgot" /\ \E step : GoTo(r, step)
    BY <1>3 DEF StartSession, Logout, Revoke, UpdatePassword, At
  <2>2. NobodyAsks
    BY <1>1, <2>1 DEF GoTo, NobodyAsks, Asking, Req
  <2>3. UNCHANGED <<clock, issued, wipes, resets>>
    BY <1>3 DEF StartSession, Logout, Revoke, UpdatePassword, history
  <2> QED BY <2>2, <2>3, LinksGoByDefault, FadingKeeps
<1>4. CASE ConsumePasswordReset(r) \/ ClearLinks(r)
  <2>1. requests[r].kind # "forgot" /\ \E step : GoTo(r, step)
    BY <1>4 DEF ConsumePasswordReset, ClearLinks, At
  <2>2. NobodyAsks
    BY <1>1, <2>1 DEF GoTo, NobodyAsks, Asking, Req
  <2>3. UNCHANGED <<clock, issued>> /\ resets' \subseteq resets /\ (wipes' = wipes + 1 \/ UNCHANGED <<wipes, resets>>)
    BY <1>4 DEF ConsumePasswordReset, ClearLinks
  <2>4. LinksGo
    BY <1>1, <2>3 DEF LinksGo
  <2> QED BY <2>2, <2>4, FadingKeeps
<1>5. CASE SendMail(r)
  <2>1. NobodyAsks
    BY <1>1, <1>5 DEF SendMail, GoTo, NobodyAsks, Asking, Req
  <2> QED BY <1>5, <2>1, LinksGoByDefault, FadingKeeps DEF SendMail
<1> QED BY <1>2, <1>3, <1>4, <1>5

LEMMA BackgroundKeepsRation ==
  ASSUME AccountInv, RationInv, Cooldown <= TTL, Sweep \/ Tick \/ Restart \/ UNCHANGED accountVars
  PROVE  RationInv'
<1>1. requests \in [Request -> Req] /\ clock \in Nat /\ wipes \in Nat /\ Cooldown \in Nat /\ TTL \in Nat
  BY TypesNow, AccountConstants
<1>2. NobodyAsks
  BY <1>1 DEF Sweep, Tick, Restart, accountVars, NobodyAsks, Asking, Req
<1>3. \A link \in resets : link.created \in Nat
  BY DEF AccountInv, AccountTypeOK, Link
<1>4. LinksGo
  <2>1. CASE Sweep
    <3>1. \A link \in resets \ resets' : link.created + Cooldown <= clock
      BY <1>1, <1>3, <2>1 DEF Sweep, Unswept, Live
    <3> QED BY <1>1, <2>1, <3>1 DEF Sweep, Unswept, LinksGo, history
  <2>2. CASE Tick
    BY <1>1, <2>2 DEF Tick, LinksGo, history
  <2>3. CASE Restart \/ UNCHANGED accountVars
    BY <2>3, LinksGoByDefault DEF Restart, accountVars
  <2> QED BY <2>1, <2>2, <2>3
<1>5. Progress
  BY RestartKeeps, NobodyMoves DEF Sweep, Tick, accountVars
<1> QED BY <1>2, <1>4, <1>5, FadingKeeps

(* The requests for a link.                                                  *)
LEMMA ArriveKeepsRation ==
  ASSUME AccountInv, RationInv, NEW r \in Request, NEW kind \in Kinds, Arrive(r, kind)
  PROVE  RationInv'
<1>1. requests \in [Request -> Req] /\ requests[r].step = "idle" /\ UNCHANGED <<clock, issued, wipes, resets>>
  BY TypesNow DEF Arrive, history
<1>2. LinksGo /\ Progress
  BY <1>1, LinksGoByDefault, ArriveKeeps
<1>3. requests'[r].step = FirstStep(kind) /\ requests'[r].known = requests[r].known
      /\ \A p \in Request \ {r} : requests'[p] = requests[p]
  BY <1>1 DEF Arrive, Req
<1>4. FirstStep(kind) \notin {"count", "create"}
  BY DEF FirstStep
<1>5. NobodyAsks
  BY <1>3, <1>4 DEF NobodyAsks, Asking
<1> QED BY <1>2, <1>5, FadingKeeps

LEMMA LookingKeepsRation ==
  ASSUME AccountInv, RationInv, NEW r \in Request, HasRecent(r)
  PROVE  RationInv'
<1> DEFINE found == {a.token : a \in issued}
<1>1. requests \in [Request -> Req] /\ requests[r].kind = "forgot" /\ requests[r].step = "recent"
      /\ UNCHANGED <<clock, issued, wipes, resets>>
  BY TypesNow DEF HasRecent, At, history
<1>2. LinksGo /\ Progress
  BY <1>1, LinksGoByDefault, ForgotStepsKeep
<1>3. requests'[r].step = (IF \E link \in resets : Recent(link) THEN "done" ELSE "count")
      /\ requests'[r].known = found /\ \A p \in Request \ {r} : requests'[p] = requests[p]
  BY <1>1 DEF HasRecent, Req
<1>4. KnownExist'
  <2>1. \A p \in Request : requests'[p].known \subseteq requests[p].known \cup found
    BY <1>3
  <2> QED BY <1>1, <1>2, <2>1, KnownStay
<1>5. CooledDown'
  <2> SUFFICES ASSUME NEW p \in Request, Asking(p, {"count", "create"})', NEW a \in issued,
                      a.token \in requests'[p].known, a.wipes = wipes
      PROVE a.created + Cooldown <= clock
    BY <1>1 DEF CooledDown
  <2>1. CASE p # r
    BY <1>3, <2>1 DEF RationInv, CooledDown, Asking
  <2>2. CASE p = r
    <3>1. \A link \in resets : ~Recent(link)
      BY <1>3, <2>2 DEF Asking
    <3>2. [token |-> a.token, created |-> a.created] \in resets \/ a.created + Cooldown <= clock
      BY DEF RationInv, IssuedKept
    <3>3. ASSUME [token |-> a.token, created |-> a.created] \in resets PROVE a.created + Cooldown <= clock
      <4> DEFINE link == [token |-> a.token, created |-> a.created]
      <4>1. ~Recent(link) /\ link.created = a.created
        BY <3>1, <3>3
      <4>2. a.created \in Nat /\ Cooldown \in Nat /\ clock \in Nat
        BY TypesNow, AccountConstants DEF Issue
      <4> QED BY <4>1, <4>2 DEF Recent
    <3> QED BY <3>2, <3>3
  <2> QED BY <2>1, <2>2
<1>6. RoomLeft'
  <2> SUFFICES ASSUME NEW p \in Request, Asking(p, {"create"})'
      PROVE Cardinality(KnownLive(requests'[p].known)) < MaxActive
    BY <1>1 DEF RoomLeft, KnownLive, Live
  <2>1. p # r
    BY <1>3 DEF Asking
  <2> QED BY <1>3, <2>1 DEF RationInv, RoomLeft, Asking
<1> QED BY <1>2, <1>4, <1>5, <1>6, Fading DEF RationInv

LEMMA CountingKeepsRation ==
  ASSUME AccountInv, RationInv, NEW r \in Request, CountActive(r)
  PROVE  RationInv'
<1>1. requests \in [Request -> Req] /\ requests[r].kind = "forgot" /\ requests[r].step = "count"
      /\ UNCHANGED <<clock, issued, wipes, resets>>
  BY TypesNow DEF CountActive, At, history
<1>2. LinksGo /\ Progress
  BY <1>1, LinksGoByDefault, ForgotStepsKeep
<1>3. requests'[r].step = (IF Cardinality({link \in resets : Live(link)}) >= MaxActive THEN "done" ELSE "create")
      /\ requests'[r].kind = "forgot" /\ requests'[r].known = requests[r].known
      /\ \A p \in Request \ {r} : requests'[p] = requests[p]
  BY <1>1 DEF CountActive, GoTo, Req
<1>4. KnownExist'
  <2>1. \A p \in Request : requests'[p].known = requests[p].known
    BY <1>3
  <2> QED BY <1>1, <1>2, <2>1, KnownStay
<1>5. CooledDown'
  <2>1. \A p \in Request : Asking(p, {"count", "create"})' =>
          Asking(p, {"count", "create"}) /\ requests'[p].known = requests[p].known
    BY <1>1, <1>3 DEF Asking
  <2> QED BY <1>1, <2>1 DEF RationInv, CooledDown
<1>6. RoomLeft'
  <2> SUFFICES ASSUME NEW p \in Request, Asking(p, {"create"})'
      PROVE Cardinality(KnownLive(requests'[p].known)) < MaxActive
    BY <1>1 DEF RoomLeft, KnownLive, Live
  <2>1. CASE p # r
    BY <1>3, <2>1 DEF RationInv, RoomLeft, Asking
  <2>2. CASE p = r
    <3> DEFINE All == {link \in resets : Live(link)}
               K == requests'[p].known
    <3>1. ~(Cardinality(All) >= MaxActive)
      BY <1>3, <2>2 DEF Asking
    <3>2. KnownLive(K) \subseteq All /\ IsFiniteSet(All)
      BY FS_Subset DEF RationInv, KnownLive
    <3> HIDE DEF All, K
    <3>3. Cardinality(KnownLive(K)) <= Cardinality(All) /\ Cardinality(KnownLive(K)) \in Nat /\ Cardinality(All) \in Nat
      BY <3>2, FS_Subset, FS_CardinalityType
    <3>4. Cardinality(KnownLive(K)) < MaxActive
      BY <3>1, <3>3, AccountConstants
    <3> QED BY <3>4 DEF K
  <2> QED BY <2>1, <2>2
<1> QED BY <1>2, <1>4, <1>5, <1>6, Fading DEF RationInv

LEMMA CreateKeepsRation ==
  ASSUME AccountInv, RationInv, NEW r \in Request, CreateLink(r)
  PROVE  RationInv'
<1> DEFINE row == [token |-> r, created |-> clock]
           new == [token |-> r, created |-> clock, wipes |-> wipes, known |-> requests[r].known]
<1>1. requests \in [Request -> Req] /\ requests[r].kind = "forgot" /\ requests[r].step = "create" /\ GoTo(r, "mail")
      /\ resets' = resets \cup {row} /\ issued' = issued \cup {new} /\ UNCHANGED <<clock, wipes>>
  BY TypesNow DEF CreateLink, At
<1>2. new.token = r /\ new.created = clock /\ new.wipes = wipes /\ new.known = requests[r].known
      /\ [token |-> new.token, created |-> new.created] \in resets' /\ row.token = r
  BY <1>1
<1>3. /\ clock \in Nat /\ wipes \in Nat /\ Cooldown \in Nat /\ MaxActive \in Nat
      /\ \A a \in issued : a.wipes \in Nat /\ a.created \in Nat /\ a.token \in Request /\ a.known \subseteq Request
      /\ \A p \in Request : requests[p].known \subseteq Request
  BY <1>1, TypesNow, AccountConstants DEF Issue, Req
<1> HIDE DEF row, new
<1>4. ~Created(r) /\ Created(r)' /\ Progress
  BY <1>1, CreateKeeps DEF Created, GoTo, Req
<1>5. /\ \A a \in issued : a.token # r /\ r \notin a.known
      /\ \A p \in Request : r \notin requests[p].known
  BY <1>4 DEF RationInv, KnownExist
<1>6. requests'[r].step = "mail" /\ (\A p \in Request : requests'[p].known = requests[p].known)
      /\ \A p \in Request \ {r} : requests'[p] = requests[p]
  BY <1>1 DEF GoTo, Req
<1>7. KnownExist'
  <2>1. \A t \in Request : Created(t) => Created(t)'
    BY <1>4 DEF Progress
  <2>2. ASSUME NEW p \in Request, NEW t \in requests[p].known PROVE Created(t)'
    <3>1. Created(t) /\ t \in Request
      BY <1>3 DEF RationInv, KnownExist
    <3> QED BY <2>1, <3>1
  <2>3. ASSUME NEW a \in issued PROVE Created(a.token)' /\ \A t \in a.known : Created(t)'
    <3>1. Created(a.token) /\ \A t \in a.known : Created(t)
      BY DEF RationInv, KnownExist
    <3> QED BY <1>3, <2>1, <3>1
  <2>4. \A t \in requests[r].known : Created(t)'
    BY <2>2
  <2>5. ASSUME NEW a \in issued' PROVE Created(a.token)' /\ \A t \in a.known : Created(t)'
    <3>1. CASE a \in issued
      BY <2>3, <3>1
    <3>2. CASE a = new
      <4>1. a.token = r /\ a.known = requests[r].known
        BY <1>2, <3>2
      <4> QED BY <1>4, <2>4, <4>1
    <3> QED BY <1>1, <3>1, <3>2
  <2>6. ASSUME NEW p \in Request, NEW t \in requests'[p].known PROVE Created(t)'
    BY <1>6, <2>2, <2>6
  <2> QED BY <2>5, <2>6 DEF KnownExist
<1>8. CooledDown'
  <2> SUFFICES ASSUME NEW p \in Request, Asking(p, {"count", "create"})', NEW a \in issued',
                      a.token \in requests[p].known, a.wipes = wipes
      PROVE a.created + Cooldown <= clock
    BY <1>1, <1>6 DEF CooledDown
  <2>1. p # r
    BY <1>6 DEF Asking
  <2>2. a \in issued
    BY <1>1, <1>2, <1>5
  <2> QED BY <1>6, <2>1, <2>2 DEF RationInv, CooledDown, Asking
<1>9. ASSUME NEW K, r \notin K PROVE KnownLive(K)' = KnownLive(K)
  BY <1>1, <1>2, <1>9 DEF KnownLive, Live
<1>10. RoomLeft'
  <2> SUFFICES ASSUME NEW p \in Request, Asking(p, {"create"})'
      PROVE Cardinality(KnownLive(requests[p].known)') < MaxActive
    BY DEF RoomLeft, KnownLive
  <2>1. p # r
    BY <1>6 DEF Asking
  <2>2. PICK K : K = requests[p].known /\ K = requests'[p].known /\ r \notin K
    BY <1>5, <1>6
  <2>3. Cardinality(KnownLive(K)) < MaxActive
    BY <1>6, <2>1, <2>2 DEF RationInv, RoomLeft, Asking
  <2> QED BY <1>9, <2>2, <2>3
<1>11. IssuedKept'
  <2>1. ASSUME NEW a \in issued PROVE
          /\ a.wipes <= wipes' /\ a.created <= clock'
          /\ a.wipes = wipes' => [token |-> a.token, created |-> a.created] \in resets' \/ a.created + Cooldown <= clock'
    BY <1>1 DEF RationInv, IssuedKept
  <2>2. /\ new.wipes <= wipes' /\ new.created <= clock'
        /\ new.wipes = wipes' => [token |-> new.token, created |-> new.created] \in resets' \/ new.created + Cooldown <= clock'
    BY <1>1, <1>2, <1>3
  <2> QED BY <1>1, <2>1, <2>2 DEF IssuedKept
<1>12. CooldownKept'
  <2> SUFFICES ASSUME NEW a \in issued', NEW b \in issued', a.token \in b.known, a.wipes = b.wipes
      PROVE b.created >= a.created + Cooldown
    BY DEF CooldownKept
  <2>1. a \in issued
    BY <1>1, <1>2, <1>5
  <2>2. CASE b \in issued
    BY <2>1, <2>2 DEF RationInv, CooldownKept
  <2>3. CASE b = new
    <3>1. a.created + Cooldown <= clock
      BY <1>1, <1>2, <2>1, <2>3 DEF RationInv, CooledDown, Asking
    <3> QED BY <1>2, <1>3, <2>1, <2>3, <3>1
  <2> QED BY <1>1, <2>2, <2>3
<1>13. IsFiniteSet(resets)'
  BY <1>1, FS_AddElement DEF RationInv
<1>14. ActiveLinksBounded'
  <2> SUFFICES ASSUME NEW b \in issued' PROVE Cardinality(KnownLive(b.known)') < MaxActive
    BY DEF ActiveLinksBounded, KnownLive
  <2>1. Cardinality(KnownLive(b.known)) < MaxActive /\ r \notin b.known
    <3>1. CASE b \in issued
      BY <1>5, <3>1 DEF RationInv, ActiveLinksBounded, KnownLive
    <3>2. CASE b = new
      BY <1>1, <1>2, <1>5, <3>2 DEF RationInv, RoomLeft, Asking
    <3> QED BY <1>1, <3>1, <3>2
  <2> QED BY <1>9, <2>1
<1> QED BY <1>7, <1>8, <1>10, <1>11, <1>12, <1>13, <1>14 DEF RationInv

LEMMA RationInvStep ==
  ASSUME Cooldown <= TTL
  PROVE  AccountInv /\ RationInv /\ [AccountNext]_accountVars => RationInv'
<1> SUFFICES ASSUME AccountInv, RationInv, [AccountNext]_accountVars PROVE RationInv'
  OBVIOUS
<1>1. ASSUME NEW r \in Request, NEW kind \in Kinds, Arrive(r, kind) PROVE RationInv'
  BY <1>1, ArriveKeepsRation
<1>2. ASSUME NEW r \in Request,
             \/ ReadHash(r) \/ StartSession(r) \/ Logout(r) \/ ConsumePasswordReset(r)
             \/ UpdatePassword(r) \/ ClearLinks(r) \/ Revoke(r) \/ SendMail(r)
      PROVE RationInv'
  <2>1. Progress
    BY <1>2, ReadHashKeeps, StartSessionKeeps, ForgotStepsKeep, ConsumeKeeps, UpdateKeeps, ClearKeeps, RevokeKeeps
  <2> QED BY <1>2, <2>1, OthersKeepRation
<1>3. ASSUME NEW r \in Request, HasRecent(r) \/ CountActive(r) \/ CreateLink(r) PROVE RationInv'
  BY <1>3, LookingKeepsRation, CountingKeepsRation, CreateKeepsRation
<1>4. CASE Sweep \/ Tick \/ Restart \/ UNCHANGED accountVars
  BY <1>4, BackgroundKeepsRation
<1> QED BY <1>1, <1>2, <1>3, <1>4 DEF AccountNext, Finished

(* ForgotPassword (handlers/passwordreset.go): where a link lives no shorter  *)
(* than the cooldown, a link is issued a cooldown after every link its        *)
(* request found issued, and of those fewer than MaxActive are live, however  *)
(* many requests for one cross.  Two that cross may not know of each other.   *)
THEOREM LinksAreRationed ==
  ASSUME Cooldown <= TTL
  PROVE  AccountSpec => []LinksRationed
<1>1. AccountInv /\ RationInv => LinksRationed
  BY DEF AccountInv, RationInv, LinksRationed
<1>2. AccountInv /\ RationInv /\ [AccountNext]_accountVars => AccountInv' /\ RationInv'
  BY AccountInvStep, RationInvStep
<1> QED BY <1>1, <1>2, AccountInvInit, RationInvInit, PTL DEF AccountSpec
=============================================================================
