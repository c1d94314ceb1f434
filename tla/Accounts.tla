----------------------------- MODULE Accounts ------------------------------
(***************************************************************************)
(* The password of one account, the sessions it opens and the links that   *)
(* reset it: Login, Logout, ChangePassword (handlers/auth.go),             *)
(* ForgotPassword and ResetPassword (handlers/passwordreset.go), the       *)
(* password_resets table (repository/passwordreset.go), its hourly sweep   *)
(* and the resetpw command.                                                *)
(*                                                                         *)
(* A request is modelled statement by statement: each action is one call   *)
(* to the database or the session store, so requests interleave between    *)
(* them and a step may fail after an earlier one has taken effect.  The    *)
(* database outlives a restart; sessions and requests do not.  Passwords   *)
(* are named by the request that set them.                                 *)
(***************************************************************************)
EXTENDS Naturals, FiniteSets

CONSTANTS
  Request,
  First,              \* the password and the session there are at the start
  Cooldown, TTL,      \* resetCooldown and PasswordResetTTL, in ticks
  MaxActive,          \* maxActiveResets
  LastTick, MaxRestarts

ASSUME AccountConstants ==
  /\ First \notin Request
  /\ Cooldown \in Nat \ {0} /\ TTL \in Nat \ {0} /\ MaxActive \in Nat \ {0}
  /\ LastTick \in Nat /\ MaxRestarts \in Nat

VARIABLES
  clock,
  password,     \* the hash stored, named by the request that set it
  sessions,     \* the account's sessions in the store
  resets,       \* the rows of password_resets
  requests,
  restarts,
  issued,       \* every link ever issued, with those its request knew of
  delivered,    \* the links whose mail was delivered
  uses,         \* the links exchanged, with the request that did
  wipes,        \* how often a reset has deleted rows
  byCommand     \* whether resetpw set the password since the last revocation

accountVars == <<clock, password, sessions, resets, requests, restarts,
                 issued, delivered, uses, wipes, byCommand>>

Kinds == {"login", "logout", "change", "forgot", "reset", "command"}

Steps == {"idle", "start", "check", "update", "clear", "revoke", "recent", "count", "create",
          "mail", "done"}

Password == Request \cup {First}

Session == [by : Request \cup {First}, with : Password, kept : BOOLEAN, raced : BOOLEAN]

Link == [token : Request, created : Nat]

(* The types, and that a login opened at most one session.                 *)
AccountTypeOK ==
  /\ clock \in 0..LastTick /\ password \in Password
  /\ sessions \subseteq Session
  /\ \A s, t \in sessions : s.by = t.by => s = t
  /\ resets \subseteq Link
  /\ requests \in [Request -> [step : Steps, kind : Kinds, seen : Password, own : Request \cup {First},
                               known : SUBSET Request]]
  /\ restarts \in 0..MaxRestarts
  /\ issued \subseteq [token : Request, created : Nat, wipes : Nat, known : SUBSET Request]
  /\ delivered \subseteq Request
  /\ uses \subseteq [token : Request, by : Request]
  /\ wipes \in Nat /\ byCommand \in BOOLEAN

At(r, kind, step) == requests[r].kind = kind /\ requests[r].step = step

GoTo(r, step) == requests' = [requests EXCEPT ![r].step = step]

Live(link) == link.created + TTL > clock

Recent(link) == link.created + Cooldown > clock

history == <<issued, delivered, uses, wipes, byCommand>>
-----------------------------------------------------------------------------
AccountInit ==
  /\ clock = 0 /\ password = First
  /\ sessions = {[by |-> First, with |-> First, kept |-> FALSE, raced |-> FALSE]}
  /\ resets = {}
  /\ requests = [r \in Request |-> [step |-> "idle", kind |-> "login", seen |-> First, own |-> First, known |-> {}]]
  /\ restarts = 0
  /\ issued = {} /\ delivered = {} /\ uses = {} /\ wipes = 0
  /\ byCommand = FALSE

FirstStep(kind) ==
  CASE kind = "forgot"  -> "recent"
    [] kind = "reset"   -> "check"
    [] kind = "command" -> "update"
    [] OTHER            -> "start"

(* A request arrives.  A change or a logout comes with a session the       *)
(* middleware has found in the store.                                      *)
Arrive(r, kind) ==
  /\ requests[r].step = "idle"
  /\ \E own \in IF kind \in {"change", "logout"} THEN {s.by : s \in sessions} ELSE {First} :
       requests' = [requests EXCEPT ![r] = [@ EXCEPT !.step = FirstStep(kind), !.kind = kind, !.own = own]]
  /\ UNCHANGED <<clock, password, sessions, resets, restarts, history>>

(* Login and ChangePassword read the hash and check the password against   *)
(* it; one that does not match ends there.                                 *)
ReadHash(r) ==
  /\ At(r, "login", "start") \/ At(r, "change", "start")
  /\ \/ requests' = [requests EXCEPT ![r].seen = password,
                       ![r].step = IF requests[r].kind = "login" THEN "check" ELSE "update"]
     \/ GoTo(r, "done")
  /\ UNCHANGED <<clock, password, sessions, resets, restarts, history>>

(* Login ends by creating a session on the strength of the hash it read.   *)
StartSession(r) ==
  /\ At(r, "login", "check")
  /\ sessions' = sessions \cup
       {[by |-> r, with |-> requests[r].seen, kept |-> FALSE, raced |-> requests[r].seen # password]}
  /\ GoTo(r, "done")
  /\ UNCHANGED <<clock, password, resets, restarts, history>>

Logout(r) ==
  /\ At(r, "logout", "start")
  /\ sessions' = {s \in sessions : s.by # requests[r].own}
  /\ GoTo(r, "done")
  /\ UNCHANGED <<clock, password, resets, restarts, history>>

(* The link exchanged without being deleted in the statement that read it. *)
ConsumeUndeleted(r) ==
  /\ At(r, "reset", "check")
  /\ \/ \E link \in resets :
          /\ Live(link)
          /\ uses' = uses \cup {[token |-> link.token, by |-> r]}
          /\ GoTo(r, "update")
     \/ GoTo(r, "done") /\ UNCHANGED uses
  /\ UNCHANGED <<clock, password, sessions, resets, restarts, issued, delivered, wipes, byCommand>>

(* DELETE ... RETURNING: a link that is live is exchanged and gone; any    *)
(* other ends the request.                                                 *)
ConsumePasswordReset(r) ==
  /\ At(r, "reset", "check")
  /\ \/ \E link \in resets :
          /\ Live(link)
          /\ resets' = resets \ {link}
          /\ uses' = uses \cup {[token |-> link.token, by |-> r]}
          /\ wipes' = wipes + 1
          /\ GoTo(r, "update")
     \/ GoTo(r, "done") /\ UNCHANGED <<resets, uses, wipes>>
  /\ UNCHANGED <<clock, password, sessions, restarts, issued, delivered, byCommand>>

(* The hash is replaced, or the write fails and the request ends, a link   *)
(* it consumed with it.                                                    *)
UpdatePassword(r) ==
  /\ requests[r].kind \in {"change", "reset", "command"} /\ requests[r].step = "update"
  /\ \/ /\ password' = r
        /\ byCommand' = (requests[r].kind = "command")
        /\ GoTo(r, CASE requests[r].kind = "change"  -> "revoke"
                     [] requests[r].kind = "reset"   -> "clear"
                     [] requests[r].kind = "command" -> "done")
     \/ GoTo(r, "done") /\ UNCHANGED <<password, byCommand>>
  /\ UNCHANGED <<clock, sessions, resets, restarts, issued, delivered, uses, wipes>>

(* The other links are deleted; when that fails it is logged and the reset *)
(* goes on.                                                                *)
ClearLinks(r) ==
  /\ At(r, "reset", "clear")
  /\ \/ resets' = {} /\ wipes' = wipes + 1
     \/ UNCHANGED <<resets, wipes>>
  /\ GoTo(r, "revoke")
  /\ UNCHANGED <<clock, password, sessions, restarts, issued, delivered, uses, byCommand>>

RevokeNothing(r) ==
  /\ requests[r].kind \in {"change", "reset"} /\ requests[r].step = "revoke"
  /\ GoTo(r, "done")
  /\ UNCHANGED <<clock, password, sessions, resets, restarts, history>>

(* DeleteUser: every session but the one a change was made from.           *)
Revoke(r) ==
  /\ requests[r].kind \in {"change", "reset"} /\ requests[r].step = "revoke"
  /\ sessions' = {[s EXCEPT !.kept = TRUE] :
                    s \in {t \in sessions : requests[r].kind = "change" /\ t.by = requests[r].own}}
  /\ GoTo(r, "done")
  /\ UNCHANGED <<clock, password, resets, restarts, history>>

(* ForgotPassword: no link inside the cooldown of one there is...          *)
HasRecent(r) ==
  /\ At(r, "forgot", "recent")
  /\ requests' = [requests EXCEPT
       ![r].step = IF \E link \in resets : Recent(link) THEN "done" ELSE "count",
       ![r].known = {link.token : link \in issued}]
  /\ UNCHANGED <<clock, password, sessions, resets, restarts, history>>

(* ... nor beyond the links an account may hold at once.                   *)
CountActive(r) ==
  /\ At(r, "forgot", "count")
  /\ GoTo(r, IF Cardinality({link \in resets : Live(link)}) >= MaxActive THEN "done" ELSE "create")
  /\ UNCHANGED <<clock, password, sessions, resets, restarts, history>>

(* The row is created and the request answered; the mail goes out after.   *)
CreateLink(r) ==
  /\ At(r, "forgot", "create")
  /\ resets' = resets \cup {[token |-> r, created |-> clock]}
  /\ issued' = issued \cup
       {[token |-> r, created |-> clock, wipes |-> wipes, known |-> requests[r].known]}
  /\ GoTo(r, "mail")
  /\ UNCHANGED <<clock, password, sessions, restarts, delivered, uses, wipes, byCommand>>

SendMail(r) ==
  /\ At(r, "forgot", "mail")
  /\ delivered' \in {delivered \cup {r}, delivered}
  /\ GoTo(r, "done")
  /\ UNCHANGED <<clock, password, sessions, resets, restarts, issued, uses, wipes, byCommand>>

SweepAll == {}

(* What SweepPasswordResets leaves.                                        *)
Unswept == {link \in resets : Live(link)}

Sweep ==
  /\ resets # Unswept
  /\ resets' = Unswept
  /\ UNCHANGED <<clock, password, sessions, requests, restarts, history>>

Tick ==
  /\ clock < LastTick
  /\ clock' = clock + 1
  /\ UNCHANGED <<password, sessions, resets, requests, restarts, history>>

Restart ==
  /\ restarts < MaxRestarts
  /\ restarts' = restarts + 1
  /\ sessions' = {} /\ byCommand' = FALSE
  /\ requests' = [r \in Request |->
       IF requests[r].step = "idle" \/ requests[r].kind = "command" THEN requests[r]
       ELSE [requests[r] EXCEPT !.step = "done"]]
  /\ UNCHANGED <<clock, password, resets, issued, delivered, uses, wipes>>

Finished == clock = LastTick /\ (\A r \in Request : requests[r].step = "done") /\ UNCHANGED accountVars

AccountNext ==
  \/ \E r \in Request :
       \/ \E kind \in Kinds : Arrive(r, kind)
       \/ ReadHash(r) \/ StartSession(r) \/ Logout(r)
       \/ ConsumePasswordReset(r) \/ UpdatePassword(r) \/ ClearLinks(r) \/ Revoke(r)
       \/ HasRecent(r) \/ CountActive(r) \/ CreateLink(r) \/ SendMail(r)
  \/ Sweep \/ Tick \/ Restart \/ Finished

AccountSpec == AccountInit /\ [][AccountNext]_accountVars
-----------------------------------------------------------------------------
(* Properties.                                                             *)

Revoking == {r \in Request : requests[r].kind \in {"change", "reset"} /\ requests[r].step \in {"clear", "revoke"}}

(* ChangePassword, ResetPassword: once a change is over, a session opened  *)
(* with an earlier password is one the change was made from, one of a      *)
(* login that was under way, or one resetpw could not reach.               *)
PasswordChangeEndsSessions ==
  Revoking = {} => \A s \in sessions : s.with # password => s.kept \/ s.raced \/ byCommand

(* ConsumePasswordReset: a link sets a password at most once.              *)
LinkUsedOnce == \A u, v \in uses : u.token = v.token => u = v

(* passwordreset.go: a link is issued a cooldown after every link its      *)
(* request found issued, unless a reset has deleted the row of that.       *)
CooldownKept ==
  \A a, b \in issued :
    (a.token \in b.known /\ a.wipes = b.wipes) => b.created >= a.created + Cooldown

(* passwordreset.go: of the links its request found issued, fewer than     *)
(* MaxActive are live when a link is.                                      *)
ActiveLinksBounded ==
  \A b \in issued : Cardinality({link \in resets : Live(link) /\ link.token \in b.known}) < MaxActive

(* passwordreset.go, resetCooldown: it is the minimum gap between two reset *)
(* e-mails to one account, whatever else goes on.                          *)
MailsApart ==
  \A a, b \in issued :
    (a # b /\ {a.token, b.token} \subseteq delivered /\ a.created <= b.created)
      => b.created >= a.created + Cooldown

(* The links of an account are rationed, in time and in number.            *)
LinksRationed == AccountTypeOK /\ CooldownKept /\ ActiveLinksBounded
=============================================================================
