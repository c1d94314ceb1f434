---------------------------- MODULE MenuContext ----------------------------
(***************************************************************************)
(* The menu list of the dashboard (frontend/src/lib/menuContext.jsx): the  *)
(* calls that put menu data into it, the numbers that order their answers, *)
(* and the selection of the active menu.                                   *)
(*                                                                         *)
(* The server is a version per menu, raised by every write and 0 when the  *)
(* menu is not there.  A call is sent, answered by the server at some      *)
(* moment, and lands or fails later; calls are answered and land in any    *)
(* order.  A menu's fields are its version; its category_count, which only *)
(* lists carry, is left out.  Logging out unmounts the provider            *)
(* (App.jsx), so one mounted provider is modelled from mount to unmount.   *)
(***************************************************************************)
EXTENDS Naturals, FiniteSets, Sequences, SequencesExt

CONSTANTS
  MenuId,          \* in the order of their positions
  MenusAtStart,
  NoMenu,
  MaxCalls, MaxSaves, MaxVersion

ASSUME ContextConstants ==
  /\ MenuId \subseteq Nat /\ IsFiniteSet(MenuId) /\ MenusAtStart \subseteq MenuId
  /\ NoMenu \notin MenuId
  /\ MaxCalls \in Nat \ {0} /\ MaxSaves \in Nat /\ MaxVersion \in Nat \ {0}

VARIABLES
  server,        \* menu -> its version, 0 when it is not there
  menus,         \* the list shown: menu -> version, 0 when not listed
  menuId,        \* the selection
  loading, error,
  request,       \* requestRef
  sequence,      \* sequenceRef
  latestMenu,    \* latestMenuRef: menu -> number and version, number 0 for none
  appliedLoad,   \* appliedLoadRef
  calls,         \* the calls made so far, in order
  seen,          \* menu -> the newest version an answer that counts must show
  overtaken      \* the menus written between a save of theirs and its landing

contextVars == <<server, menus, menuId, loading, error, request, sequence,
                 latestMenu, appliedLoad, calls, seen, overtaken>>

refs == <<request, sequence, latestMenu, appliedLoad>>

Kinds == {"load", "refresh", "save", "create", "delete"}

Call == [
  kind : Kinds,
  menu : MenuId \cup {NoMenu},
  number : Nat, request : Nat,
  asOf : [MenuId -> Nat],       \* the server when the call was sent
  answer : [MenuId -> Nat],     \* what the server answered with
  state : {"sent", "answered", "refused", "over"}]

ContextTypeOK ==
  /\ server \in [MenuId -> 0..MaxVersion]
  /\ menus \in [MenuId -> 0..MaxVersion]
  /\ menuId \in MenuId \cup {NoMenu}
  /\ loading \in BOOLEAN /\ error \in BOOLEAN
  /\ request \in Nat /\ sequence \in Nat
  /\ latestMenu \in [MenuId -> [number : 0..sequence, version : 0..MaxVersion]]
  /\ appliedLoad \in 0..sequence
  /\ calls \in Seq(Call)
  /\ seen \in [MenuId -> 0..MaxVersion]
  /\ overtaken \subseteq MenuId

Zero == [m \in MenuId |-> 0]

Higher(a, b) == IF a >= b THEN a ELSE b

Listed == {m \in MenuId : menus[m] # 0}

(* pickMenu: the preferred menu when listed, else the first by position.   *)
pickMenu(list, preferred) ==
  LET there == {m \in MenuId : list[m] # 0}
  IN  CASE preferred \in there -> preferred
        [] preferred \notin there /\ there # {} -> CHOOSE m \in there : \A n \in there : m <= n
        [] OTHER -> NoMenu

activeMenu == pickMenu(menus, menuId)

Sent(kind, m, num, req) ==
  [kind |-> kind, menu |-> m, number |-> num, request |-> req,
   asOf |-> server, answer |-> Zero, state |-> "sent"]

InFlight == {c \in DOMAIN calls : calls[c].state # "over"}

NewestAny(c) == TRUE

Newest(c) == calls[c].request = request

(* What is left of a call: that it was made.                               *)
Over(c) ==
  [calls EXCEPT ![c] = [@ EXCEPT !.number = 0, !.request = 0, !.asOf = Zero,
                                 !.answer = Zero, !.state = "over"]]
-----------------------------------------------------------------------------
(* Mounting runs the first load.                                           *)
ContextInit ==
  /\ server = [m \in MenuId |-> IF m \in MenusAtStart THEN 1 ELSE 0]
  /\ menus = Zero
  /\ menuId \in MenusAtStart \cup {NoMenu}
  /\ loading = TRUE /\ error = FALSE
  /\ request = 1 /\ sequence = 0 /\ appliedLoad = 0
  /\ latestMenu = [m \in MenuId |-> [number |-> 0, version |-> 0]]
  /\ calls = <<Sent("load", NoMenu, 0, 1)>>
  /\ seen = Zero /\ overtaken = {}

Begin == Len(calls) < MaxCalls /\ UNCHANGED <<server, menus, menuId, error, seen, overtaken>>

(* A load takes the number reached so far.                                 *)
load ==
  /\ Begin
  /\ request' = request + 1
  /\ calls' = Append(calls, Sent("load", NoMenu, sequence, request + 1))
  /\ loading' = TRUE
  /\ UNCHANGED <<sequence, latestMenu, appliedLoad>>

(* A refresh takes the next one, when it starts.                           *)
refreshMenu(m) ==
  /\ Begin
  /\ sequence' = sequence + 1
  /\ calls' = Append(calls, Sent("refresh", m, sequence + 1, 0))
  /\ UNCHANGED <<loading, request, latestMenu, appliedLoad>>

(* The settings page saves the active menu; a menu is created or deleted.  *)
saveActiveMenu ==
  /\ Begin /\ activeMenu # NoMenu
  /\ Cardinality({c \in DOMAIN calls : calls[c].kind = "save"}) < MaxSaves
  /\ calls' = Append(calls, Sent("save", activeMenu, 0, 0))
  /\ UNCHANGED <<loading, refs>>

createMenu(m) ==
  /\ Begin /\ server[m] = 0 /\ m \notin MenusAtStart
  /\ ~\E c \in DOMAIN calls : calls[c].kind = "create" /\ calls[c].menu = m
  /\ calls' = Append(calls, Sent("create", m, 0, 0))
  /\ UNCHANGED <<loading, refs>>

deleteMenu(m) ==
  /\ Begin /\ m \in Listed
  /\ calls' = Append(calls, Sent("delete", m, 0, 0))
  /\ UNCHANGED <<loading, refs>>

setActiveMenuId(m) ==
  /\ m \in Listed
  /\ menuId' = m
  /\ UNCHANGED <<server, menus, loading, error, refs, calls, seen, overtaken>>

-----------------------------------------------------------------------------
(* The server.                                                             *)

SaveUnderWay(m) ==
  \E c \in DOMAIN calls : calls[c].kind = "save" /\ calls[c].menu = m /\ calls[c].state = "answered"

MayWrite(m) == server[m] \in 1..(MaxVersion - 1)

Overtaking(m) == IF SaveUnderWay(m) THEN overtaken \cup {m} ELSE overtaken

(* A price edit, or a write of another tab.                                *)
OtherWrite(m) ==
  /\ MayWrite(m)
  /\ server' = [server EXCEPT ![m] = @ + 1]
  /\ overtaken' = Overtaking(m)
  /\ UNCHANGED <<menus, menuId, loading, error, refs, calls, seen>>

OtherDelete(m) ==
  /\ server[m] # 0
  /\ server' = [server EXCEPT ![m] = 0]
  /\ UNCHANGED <<menus, menuId, loading, error, refs, calls, seen, overtaken>>

(* The server answers a call, or it refuses it, or the call is lost before *)
(* it got there.                                                           *)
Answer(c) ==
  LET m == calls[c].menu
      after == CASE calls[c].kind = "save"   -> [server EXCEPT ![m] = @ + 1]
                 [] calls[c].kind = "create" -> [server EXCEPT ![m] = 1]
                 [] calls[c].kind = "delete" -> [server EXCEPT ![m] = 0]
                 [] OTHER                    -> server
  IN
  /\ calls[c].state = "sent"
  /\ calls[c].kind = "save" => MayWrite(m)
  /\ calls[c].kind \in {"refresh", "delete"} => server[m] # 0
  /\ server' = after
  /\ calls' = [calls EXCEPT ![c].state = "answered", ![c].answer = after]
  /\ overtaken' = IF calls[c].kind = "save" THEN Overtaking(m) ELSE overtaken
  /\ UNCHANGED <<menus, menuId, loading, error, refs, seen>>

Refuse(c) ==
  /\ calls[c].state = "sent"
  /\ calls' = [calls EXCEPT ![c].state = "refused"]
  /\ UNCHANGED <<server, menus, menuId, loading, error, refs, seen, overtaken>>

-----------------------------------------------------------------------------
(* Answers landing.                                                        *)

Arrived(c, kind) == calls[c].state = "answered" /\ calls[c].kind = kind

(* A load keeps the one-menu answers newer than itself.                    *)
Merged(c) ==
  [m \in MenuId |->
     IF calls[c].answer[m] # 0 /\ latestMenu[m].number > calls[c].number
     THEN latestMenu[m].version ELSE calls[c].answer[m]]

LoadLands(c) ==
  /\ Arrived(c, "load")
  /\ calls' = Over(c)
  /\ IF Newest(c)
     THEN /\ appliedLoad' = Higher(appliedLoad, calls[c].number)
          /\ menus' = Merged(c)
          /\ menuId' = pickMenu(Merged(c), menuId)
          /\ error' = FALSE /\ loading' = FALSE
          /\ seen' = [m \in MenuId |-> Higher(seen[m], calls[c].asOf[m])]
     ELSE UNCHANGED <<appliedLoad, menus, menuId, error, loading, seen>>
  /\ UNCHANGED <<server, request, sequence, latestMenu, overtaken>>

LoadFailsSpinning(c) ==
  /\ calls[c].kind = "load" /\ calls[c].state \in {"answered", "refused"}
  /\ calls' = Over(c)
  /\ error' = (error \/ Newest(c))
  /\ UNCHANGED <<server, menus, menuId, loading, refs, seen, overtaken>>

LoadFails(c) ==
  /\ calls[c].kind = "load" /\ calls[c].state \in {"answered", "refused"}
  /\ calls' = Over(c)
  /\ IF Newest(c) THEN error' = TRUE /\ loading' = FALSE ELSE UNCHANGED <<error, loading>>
  /\ UNCHANGED <<server, menus, menuId, refs, seen, overtaken>>

(* One menu's answer replaces its copy in the list, when it is listed.     *)
Shown(m, version) == [menus EXCEPT ![m] = IF @ = 0 THEN 0 ELSE version]

NeverOutOfDate(c) == FALSE

OutOfDate(c) ==
  \/ appliedLoad >= calls[c].number
  \/ latestMenu[calls[c].menu].number > calls[c].number

RefreshLands(c) ==
  LET m == calls[c].menu
      version == calls[c].answer[m]
  IN
  /\ Arrived(c, "refresh")
  /\ calls' = Over(c)
  /\ seen' = [seen EXCEPT ![m] = Higher(@, calls[c].asOf[m])]
  /\ IF OutOfDate(c)
     THEN UNCHANGED <<menus, latestMenu>>
     ELSE /\ latestMenu' = [latestMenu EXCEPT ![m] = [number |-> calls[c].number, version |-> version]]
          /\ menus' = Shown(m, version)
  /\ UNCHANGED <<server, menuId, loading, error, request, sequence, appliedLoad, overtaken>>

(* A save takes the next number when it lands.                             *)
SaveLands(c) ==
  LET m == calls[c].menu
      version == calls[c].answer[m]
  IN
  /\ Arrived(c, "save")
  /\ calls' = Over(c)
  /\ sequence' = sequence + 1
  /\ latestMenu' = [latestMenu EXCEPT ![m] = [number |-> sequence + 1, version |-> version]]
  /\ menus' = Shown(m, version)
  /\ seen' = [seen EXCEPT ![m] = Higher(@, version)]
  /\ UNCHANGED <<server, menuId, loading, error, request, appliedLoad, overtaken>>

(* The menu created is selected, and a load follows.                       *)
CreateLands(c) ==
  /\ Arrived(c, "create")
  /\ menuId' = calls[c].menu
  /\ request' = request + 1 /\ loading' = TRUE
  /\ calls' = Append(Over(c), Sent("load", NoMenu, sequence, request + 1))
  /\ UNCHANGED <<server, menus, error, sequence, latestMenu, appliedLoad, seen, overtaken>>

DeleteLands(c) ==
  /\ Arrived(c, "delete")
  /\ menuId' = IF menuId = calls[c].menu THEN NoMenu ELSE menuId
  /\ request' = request + 1 /\ loading' = TRUE
  /\ calls' = Append(Over(c), Sent("load", NoMenu, sequence, request + 1))
  /\ UNCHANGED <<server, menus, error, sequence, latestMenu, appliedLoad, seen, overtaken>>

(* Any other call fails, before or after the server carried it out, and    *)
(* changes nothing here.                                                   *)
CallFails(c) ==
  /\ calls[c].kind # "load" /\ calls[c].state \in {"answered", "refused"}
  /\ calls' = Over(c)
  /\ UNCHANGED <<server, menus, menuId, loading, error, refs, seen, overtaken>>

Finished == InFlight = {} /\ Len(calls) >= MaxCalls /\ UNCHANGED contextVars

Lands(c) ==
  \/ LoadLands(c) \/ LoadFails(c) \/ RefreshLands(c) \/ SaveLands(c)
  \/ CreateLands(c) \/ DeleteLands(c) \/ CallFails(c)

ContextNext ==
  \/ load \/ saveActiveMenu
  \/ \E m \in MenuId : \/ refreshMenu(m) \/ createMenu(m) \/ deleteMenu(m)
                       \/ setActiveMenuId(m) \/ OtherWrite(m) \/ OtherDelete(m)
  \/ \E c \in DOMAIN calls : Answer(c) \/ Refuse(c) \/ Lands(c)
  \/ Finished

ContextSpec == ContextInit /\ [][ContextNext]_contextVars
-----------------------------------------------------------------------------
(* Properties.                                                             *)

(* menuContext.jsx, ORDERING: whatever order answers land in, a menu is    *)
(* never shown older than the server was when a refresh that landed or a   *)
(* load that was applied was sent, nor older than what a save stored.  So  *)
(* a price date or a setting once shown is not put back - but by the       *)
(* answer of a save that another write has overtaken on the server, which  *)
(* is applied unasked.                                                     *)
OlderDataNeverReturns == \A m \in Listed \ overtaken : menus[m] >= seen[m]

(* As the comment says it, without the exception.                          *)
NeverOlder == \A m \in Listed : menus[m] >= seen[m]

(* load: the spinner turns exactly while the newest load is on its way, so *)
(* neither a failure nor a load overtaken by another leaves it turning.    *)
SpinnerFollowsNewestLoad ==
  loading <=> \E c \in InFlight : calls[c].kind = "load" /\ Newest(c)

(* load, createMenu: no list that lands moves the selection off a menu the *)
(* server still has; only choosing, creating or deleting a menu does.      *)
SelectionStays ==
  [][(menuId # NoMenu /\ menuId' # menuId /\ server[menuId] # 0) =>
       \/ \E m \in MenuId : setActiveMenuId(m)
       \/ \E c \in DOMAIN calls : CreateLands(c) \/ DeleteLands(c)]_contextVars
=============================================================================
