-------------------------- MODULE DashboardProofs ---------------------------
(***************************************************************************)
(* Proofs about the dashboard: the menu context and the menu editor.       *)
(*                                                                         *)
(* ContextInv holds whatever the server does.  It relates the calls that   *)
(* have not landed to the server and to the list: an earlier call saw an   *)
(* earlier server and took a lower number, and a menu that is gone stays   *)
(* gone, since a menu is created once.                                     *)
(* FreshInv adds what every answer still on its way finds when it lands.   *)
(* It speaks of the menus whose saves were all answered with the version   *)
(* newest until they landed, since a save takes its number only when it    *)
(* lands: of every menu that is not overtaken.                             *)
(*                                                                         *)
(* EditorInv says how far the page and the database have come apart.  Each *)
(* request under way has taken a part of the page: the order of the        *)
(* categories, lists, products.  Of its part it claims that its answer or  *)
(* its rollback will make page and database agree, whichever comes; two    *)
(* requests share no part, and what nobody has taken agrees already.       *)
(***************************************************************************)
EXTENDS MCDashboard, FilterProofs

-----------------------------------------------------------------------------
(* The menu context: its variables.                                         *)

Version == 0..MaxVersion

CallRecord == [
  kind : Kinds, menu : MenuId \cup {NoMenu}, number : Nat, request : Nat,
  asOf : [MenuId -> Version], answer : [MenuId -> Version],
  state : {"sent", "answered", "refused", "over"}]

ContextShape ==
  /\ server \in [MenuId -> Version] /\ menus \in [MenuId -> Version] /\ seen \in [MenuId -> Version]
  /\ menuId \in MenuId \cup {NoMenu}
  /\ loading \in BOOLEAN /\ error \in BOOLEAN
  /\ request \in Nat /\ sequence \in Nat /\ appliedLoad \in Nat
  /\ latestMenu \in [MenuId -> [number : Nat, version : Version]]
  /\ calls \in Seq(CallRecord)
  /\ \A c \in DOMAIN calls : calls[c].kind # "load" => calls[c].menu \in MenuId

-----------------------------------------------------------------------------
(* The calls that carry menu data back and have not landed.                *)
Reads == {c \in InFlight : calls[c].kind \in {"load", "refresh"}}

(* The load whose answer will be taken.                                    *)
NewestLoad(c) == c \in Reads /\ calls[c].kind = "load" /\ Newest(c)

Created(c, m) == calls[c].kind = "create" /\ calls[c].menu = m

(* A menu the server has had.  It is dead when the server has it no more:   *)
(* no call creates a menu twice.                                           *)
Lived(m) == m \in MenusAtStart \/ \E c \in DOMAIN calls : Created(c, m) /\ calls[c].state # "sent"

Dead(m) == server[m] = 0 /\ Lived(m)

(* Gone, and the answer to c does not bring it back.                        *)
DeadFor(c, m) == Dead(m) /\ calls[c].answer[m] = 0

(* A save the server has carried out and whose answer is on its way.        *)
Stored(s) == calls[s].kind = "save" /\ calls[s].state = "answered"

(* A menu is created by one call, and what the server has was created.     *)
Existence ==
  /\ \A c, d \in DOMAIN calls, m \in MenuId : Created(c, m) /\ Created(d, m) => c = d
  /\ \A c \in DOMAIN calls, m \in MenuId : Created(c, m) => m \notin MenusAtStart
  /\ \A m \in MenuId : server[m] # 0 => Lived(m)

(* What is listed, selected or answered with exists or is dead.            *)
Known ==
  /\ \A m \in MenuId : menus[m] # 0 \/ menuId = m => Lived(m)
  /\ \A c \in Reads, m \in MenuId : calls[c].answer[m] # 0 => Lived(m)

(* No call saw more than the server has, an answer is no older than its    *)
(* question, and the later of two calls saw no older server.               *)
Ages ==
  /\ \A m \in MenuId : seen[m] <= server[m] \/ Dead(m)
  /\ \A c \in Reads, m \in MenuId : calls[c].asOf[m] <= server[m] \/ Dead(m)
  /\ \A c \in Reads, m \in MenuId : calls[c].answer[m] = 0 \/ calls[c].asOf[m] <= calls[c].answer[m]
  /\ \A c, d \in Reads, m \in MenuId : c < d => calls[c].asOf[m] <= calls[d].asOf[m] \/ DeadFor(d, m)
  /\ \A c \in Reads : calls[c].kind = "refresh" /\ calls[c].state = "answered" => calls[c].answer[calls[c].menu] # 0
  /\ \A s \in DOMAIN calls, m \in MenuId :
       Stored(s) /\ calls[s].menu = m => calls[s].answer[m] # 0 /\ (calls[s].answer[m] <= server[m] \/ Dead(m))

(* The newest answer noted for a menu has a number given out and a version. *)
LatestStands ==
  \A m \in MenuId : /\ latestMenu[m].number <= sequence
                    /\ latestMenu[m].number # 0 => latestMenu[m].version # 0

(* Numbers rise with the calls: a load shares the number reached, a         *)
(* refresh takes a new one.                                                *)
Orders ==
  /\ \A c \in Reads : calls[c].number <= sequence
  /\ \A c, d \in Reads : c < d => /\ calls[c].number <= calls[d].number
                                  /\ calls[d].kind = "refresh" => calls[c].number < calls[d].number
  /\ LatestStands
  /\ appliedLoad <= sequence

(* Loads are told apart by their request.                                  *)
Requests ==
  /\ \A c \in Reads : calls[c].kind = "load" => calls[c].request <= request
  /\ \A c, d \in Reads : calls[c].kind = "load" /\ calls[d].kind = "load" /\ calls[c].request = calls[d].request => c = d

(* The spinner turns exactly for the newest load.                           *)
Spins == loading <=> \E c \in DOMAIN calls : NewestLoad(c)

(* The answer the newest load brings has every menu that is listed or      *)
(* selected and still there: nothing listed is younger than that load.     *)
Chosen ==
  \A c \in Reads, m \in MenuId :
    NewestLoad(c) /\ calls[c].state = "answered" /\ (menus[m] # 0 \/ menuId = m) =>
      calls[c].answer[m] # 0 \/ Dead(m)

ContextInv ==
  ContextShape /\ Existence /\ Known /\ Ages /\ Orders /\ Requests /\ Spins /\ Chosen

(* A menu never written between a save of it and the landing of the answer: *)
(* a save on its way holds its newest version.                              *)
Steady(m) == m \notin overtaken

(* What the newest load will leave: where the list is ahead of what it saw, *)
(* an answer with a higher number than its own is noted and will be kept.   *)
LoadStands ==
  \A c \in Reads : NewestLoad(c) =>
    /\ appliedLoad <= calls[c].number
    /\ \A m \in MenuId : Steady(m) =>
         /\ seen[m] <= calls[c].asOf[m] \/ latestMenu[m].number > calls[c].number \/ DeadFor(c, m)
         /\ latestMenu[m].number > calls[c].number =>
              latestMenu[m].version >= seen[m] /\ latestMenu[m].version >= calls[c].asOf[m]

(* What a refresh will leave: it is ahead of all that must be shown, or it  *)
(* is out of date, and then what is listed is no older than what it saw.   *)
RefreshStands ==
  \A c \in Reads, m \in MenuId : Steady(m) /\ calls[c].kind = "refresh" /\ calls[c].menu = m =>
    /\ seen[m] <= calls[c].asOf[m] \/ OutOfDate(c) \/ DeadFor(c, m)
    /\ latestMenu[m].number > calls[c].number => latestMenu[m].version >= calls[c].asOf[m]
    /\ OutOfDate(c) /\ menus[m] # 0 => menus[m] >= calls[c].asOf[m]

(* What a save will leave: where no write came between, its answer is the   *)
(* newest version of its menu, so nobody saw or must be shown more.         *)
SaveStands ==
  /\ \A s, z \in DOMAIN calls :
       Stored(s) /\ Stored(z) /\ calls[s].menu = calls[z].menu /\ Steady(calls[s].menu) => s = z
  /\ \A s \in DOMAIN calls, m \in MenuId : Steady(m) /\ Stored(s) /\ calls[s].menu = m =>
       /\ server[m] <= calls[s].answer[m] /\ seen[m] <= calls[s].answer[m]
       /\ \A c \in Reads : calls[c].asOf[m] <= calls[s].answer[m]

(* What is shown of the steady menus.                                      *)
SteadyStays == \A m \in Listed : Steady(m) => menus[m] >= seen[m]

Fresh == LoadStands /\ RefreshStands /\ SaveStands /\ SteadyStays

FreshInv == ContextInv /\ Fresh

-----------------------------------------------------------------------------
(* What a step leaves of the calls made before it. *)

(* The call keeps its kind and its menu, and does not go back.             *)
KeptName(c) ==
  /\ calls'[c].kind = calls[c].kind /\ calls'[c].menu = calls[c].menu
  /\ calls[c].state # "sent" => calls'[c].state # "sent"
  /\ calls[c].state = "over" => calls'[c].state = "over"

(* And, until it is over, all that was sent and answered.                   *)
CallKept(c) ==
  /\ KeptName(c)
  /\ calls'[c].state = "answered" => calls[c].state = "answered"
  /\ calls'[c].state # "over" =>
       /\ calls'[c].number = calls[c].number /\ calls'[c].request = calls[c].request
       /\ calls'[c].asOf = calls[c].asOf /\ calls'[c].answer = calls[c].answer

(* A call made in this step, from the server and the numbers of the moment. *)
JustSent(n) ==
  /\ \A c \in DOMAIN calls : c < n
  /\ calls'[n].state = "sent" /\ calls'[n].asOf = server /\ calls'[n].answer = Zero
  /\ calls'[n].kind = "load" => /\ calls'[n].number = sequence /\ sequence' = sequence
                                /\ calls'[n].request = request + 1 /\ request' = request + 1
  /\ calls'[n].kind = "refresh" => calls'[n].number = sequence + 1 /\ sequence' = sequence + 1
  /\ \A m \in MenuId : calls'[n].kind = "create" /\ calls'[n].menu = m =>
       m \notin MenusAtStart /\ \A c \in DOMAIN calls : ~Created(c, m)

(* The calls N are made, at most one, and the others are kept.             *)
CallsGo(N) ==
  /\ DOMAIN calls' = DOMAIN calls \cup N
  /\ \A c \in DOMAIN calls : CallKept(c)
  /\ \A n \in N : JustSent(n) /\ n \in Nat
  /\ \A n, o \in N : n = o
  /\ sequence' \in Nat /\ sequence <= sequence'
  /\ request' \in Nat /\ request <= request'

-----------------------------------------------------------------------------
(* The operators of the model.                                             *)

LEMMA VersionsCount == \A v \in Version : v \in Nat /\ v <= MaxVersion
  BY ContextConstants DEF Version

(* A set of numbers has a least one: pickMenu's choice exists.             *)
LEMMA LeastNumber ==
  ASSUME NEW S, S \subseteq Nat, S # {}
  PROVE  \E m \in S : \A n \in S : m <= n
  <1> DEFINE R == OpToRel(<, Nat)
  <1>1. \E m \in S : \A n \in S : ~ (<<n, m>> \in R)
    <2> HIDE DEF R
    <2> QED  BY WFMin, NatLessThanWellFounded DEF R
  <1>2. PICK m \in S : \A n \in S : ~ (<<n, m>> \in R)
    BY <1>1
  <1>3. ASSUME NEW n \in S  PROVE m <= n
    <2>1. ~ (n < m)
      BY <1>2 DEF OpToRel
    <2> QED  BY <2>1
  <1> QED  BY <1>3

(* pickMenu returns a listed menu, the preferred one where it is listed.   *)
LEMMA PickMenuTyped ==
  ASSUME NEW list \in [MenuId -> Version], NEW preferred \in MenuId \cup {NoMenu}
  PROVE  /\ pickMenu(list, preferred) \in MenuId \cup {NoMenu}
         /\ pickMenu(list, preferred) # NoMenu => list[pickMenu(list, preferred)] # 0
         /\ preferred \in MenuId /\ list[preferred] # 0 => pickMenu(list, preferred) = preferred
  <1> DEFINE there == {m \in MenuId : list[m] # 0}
  <1>1. CASE preferred \in there
    BY <1>1 DEF pickMenu
  <1>2. CASE preferred \notin there /\ there # {}
    <2>1. \E m \in there : \A n \in there : m <= n
      BY <1>2, LeastNumber, ContextConstants
    <2>2. pickMenu(list, preferred) = CHOOSE m \in there : \A n \in there : m <= n
      BY <1>2 DEF pickMenu
    <2>3. pickMenu(list, preferred) \in there
      BY <2>1, <2>2
    <2> QED  BY <1>2, <2>3
  <1>3. CASE preferred \notin there /\ there = {}
    <2>1. pickMenu(list, preferred) = NoMenu
      BY <1>3 DEF pickMenu
    <2> QED  BY <1>3, <2>1
  <1> QED  BY <1>1, <1>2, <1>3

LEMMA CallTyped ==
  ASSUME ContextShape, NEW c \in DOMAIN calls
  PROVE  /\ calls[c] \in CallRecord /\ c \in Nat
         /\ calls[c].number \in Nat /\ calls[c].request \in Nat
         /\ \A m \in MenuId : calls[c].asOf[m] \in Nat /\ calls[c].answer[m] \in Nat
         /\ calls[c].kind # "load" => calls[c].menu \in MenuId
  <1>1. calls[c] \in CallRecord /\ c \in Nat
    BY DEF ContextShape
  <1> QED  BY <1>1, VersionsCount DEF CallRecord, ContextShape

LEMMA SentTyped ==
  ASSUME ContextShape, NEW k \in Kinds, NEW m \in MenuId \cup {NoMenu}, NEW num \in Nat, NEW req \in Nat
  PROVE  Sent(k, m, num, req) \in CallRecord
  <1>1. Zero \in [MenuId -> Version]
    BY ContextConstants DEF Zero, Version
  <1> QED  BY <1>1 DEF Sent, CallRecord, ContextShape

(* What a landing, a sending and both leave of the calls.                   *)
LEMMA OverFrame ==
  ASSUME ContextShape, NEW c \in DOMAIN calls, calls[c].state # "sent"
  PROVE  /\ Over(c) \in Seq(CallRecord) /\ DOMAIN Over(c) = DOMAIN calls
         /\ \A d \in DOMAIN calls : d # c => Over(c)[d] = calls[d]
         /\ Over(c)[c].state = "over" /\ Over(c)[c].kind = calls[c].kind /\ Over(c)[c].menu = calls[c].menu
  <1>1. calls[c] \in CallRecord
    BY DEF ContextShape
  <1>2. Zero \in [MenuId -> Version]
    BY ContextConstants DEF Zero, Version
  <1>3. PICK o \in CallRecord : o = [calls[c] EXCEPT !.number = 0, !.request = 0, !.asOf = Zero, !.answer = Zero, !.state = "over"]
    BY <1>1, <1>2 DEF CallRecord
  <1>4. o.state = "over" /\ o.kind = calls[c].kind /\ o.menu = calls[c].menu
    BY <1>1, <1>3 DEF CallRecord
  <1>5. Over(c) = [calls EXCEPT ![c] = o]
    BY <1>3 DEF Over
  <1>6. calls \in Seq(CallRecord)
    BY DEF ContextShape
  <1> QED  BY <1>4, <1>5, <1>6

LEMMA LandsFrame ==
  ASSUME ContextShape, NEW c \in DOMAIN calls, calls[c].state # "sent", calls' = Over(c),
         sequence' \in Nat, sequence <= sequence', request' = request
  PROVE  CallsGo({}) /\ calls' \in Seq(CallRecord) /\ \A d \in DOMAIN calls : d # c => calls'[d] = calls[d]
  <1>1. \A d \in DOMAIN calls : CallKept(d)
    BY OverFrame DEF CallKept, KeptName
  <1>2. DOMAIN calls' = DOMAIN calls
    BY OverFrame
  <1>3. request \in Nat
    BY DEF ContextShape
  <1> QED  BY <1>1, <1>2, <1>3, OverFrame DEF CallsGo

LEMMA AppendFrame ==
  ASSUME NEW q \in Seq(CallRecord), NEW k \in CallRecord
  PROVE  /\ Append(q, k) \in Seq(CallRecord)
         /\ DOMAIN Append(q, k) = DOMAIN q \cup {Len(q) + 1}
         /\ \A d \in DOMAIN q : Append(q, k)[d] = q[d] /\ d < Len(q) + 1
         /\ Append(q, k)[Len(q) + 1] = k /\ Len(q) + 1 \in Nat
  OBVIOUS

LEMMA SendsFrame ==
  ASSUME ContextShape, NEW k \in Kinds, NEW m \in MenuId \cup {NoMenu}, NEW num \in Nat, NEW req \in Nat,
         calls' = Append(calls, Sent(k, m, num, req)),
         k # "load" => m \in MenuId,
         sequence' \in Nat, sequence <= sequence', request' \in Nat, request <= request',
         k = "load" => num = sequence /\ sequence' = sequence /\ req = request + 1 /\ request' = request + 1,
         k = "refresh" => num = sequence + 1 /\ sequence' = sequence + 1,
         k = "create" => m \notin MenusAtStart /\ \A c \in DOMAIN calls : ~Created(c, m)
  PROVE  /\ CallsGo({Len(calls) + 1}) /\ calls' \in Seq(CallRecord)
         /\ calls'[Len(calls) + 1] = Sent(k, m, num, req) /\ calls'[Len(calls) + 1].kind = k
         /\ \A c \in DOMAIN calls : calls'[c] = calls[c]
         /\ \A c \in DOMAIN calls' : calls'[c].kind # "load" => calls'[c].menu \in MenuId
  <1> DEFINE n == Len(calls) + 1
  <1>1. Sent(k, m, num, req) \in CallRecord
    BY SentTyped
  <1>2. calls \in Seq(CallRecord)
    BY DEF ContextShape
  <1>3. /\ calls' \in Seq(CallRecord) /\ DOMAIN calls' = DOMAIN calls \cup {n}
        /\ \A c \in DOMAIN calls : calls'[c] = calls[c] /\ c < n
        /\ calls'[n] = Sent(k, m, num, req) /\ n \in Nat
    BY <1>1, <1>2, AppendFrame
  <1> HIDE DEF n
  <1>4. /\ calls'[n].kind = k /\ calls'[n].menu = m /\ calls'[n].number = num /\ calls'[n].request = req
        /\ calls'[n].asOf = server /\ calls'[n].answer = Zero /\ calls'[n].state = "sent"
    BY <1>3 DEF Sent
  <1>5. JustSent(n)
    BY <1>3, <1>4 DEF JustSent
  <1>6. \A c \in DOMAIN calls : CallKept(c)
    BY <1>3 DEF CallKept, KeptName
  <1>7. CallsGo({n})
    BY <1>3, <1>5, <1>6 DEF CallsGo
  <1>8. \A c \in DOMAIN calls' : calls'[c].kind # "load" => calls'[c].menu \in MenuId
    BY <1>3, <1>4 DEF ContextShape
  <1> QED  BY <1>3, <1>4, <1>7, <1>8 DEF n

LEMMA ReloadsFrame ==
  ASSUME ContextShape, NEW c \in DOMAIN calls, calls[c].state = "answered",
         calls' = Append(Over(c), Sent("load", NoMenu, sequence, request + 1)),
         sequence' = sequence, request' = request + 1
  PROVE  /\ CallsGo({Len(calls) + 1}) /\ calls' \in Seq(CallRecord)
         /\ calls'[Len(calls) + 1] = Sent("load", NoMenu, sequence, request + 1)
         /\ \A d \in DOMAIN calls' : calls'[d].kind # "load" => calls'[d].menu \in MenuId
  <1> DEFINE n == Len(calls) + 1
  <1>1. Sent("load", NoMenu, sequence, request + 1) \in CallRecord
    <2>1. "load" \in Kinds /\ NoMenu \in MenuId \cup {NoMenu} /\ sequence \in Nat /\ request + 1 \in Nat
      BY DEF ContextShape, Kinds
    <2> QED  BY <2>1, SentTyped
  <1>2. PICK q \in Seq(CallRecord) : q = Over(c)
    BY OverFrame
  <1>3. /\ DOMAIN q = DOMAIN calls
        /\ \A d \in DOMAIN calls : d # c => q[d] = calls[d]
        /\ q[c].state = "over" /\ q[c].kind = calls[c].kind /\ q[c].menu = calls[c].menu
    BY <1>2, OverFrame
  <1>4. Len(q) = Len(calls)
    BY <1>3 DEF ContextShape
  <1>5. /\ calls' \in Seq(CallRecord) /\ DOMAIN calls' = DOMAIN calls \cup {n}
        /\ \A d \in DOMAIN calls : calls'[d] = q[d] /\ d < n
        /\ calls'[n] = Sent("load", NoMenu, sequence, request + 1) /\ n \in Nat
    BY <1>1, <1>2, <1>3, <1>4, AppendFrame
  <1> HIDE DEF n
  <1>6. /\ calls'[n].kind = "load" /\ calls'[n].number = sequence /\ calls'[n].request = request + 1
        /\ calls'[n].asOf = server /\ calls'[n].answer = Zero /\ calls'[n].state = "sent"
    BY <1>5 DEF Sent
  <1>7. JustSent(n)
    BY <1>5, <1>6 DEF JustSent
  <1>8. \A d \in DOMAIN calls : CallKept(d)
    BY <1>3, <1>5 DEF CallKept, KeptName
  <1>9. CallsGo({n})
    BY <1>5, <1>7, <1>8 DEF CallsGo, ContextShape
  <1>10. \A d \in DOMAIN calls' : calls'[d].kind # "load" => calls'[d].menu \in MenuId
    <2>1. \A d \in DOMAIN calls : calls[d].kind # "load" => calls[d].menu \in MenuId
      BY DEF ContextShape
    <2>2. \A d \in DOMAIN calls : calls'[d].kind = calls[d].kind /\ calls'[d].menu = calls[d].menu
      BY <1>3, <1>5
    <2> QED  BY <1>5, <1>6, <2>1, <2>2
  <1> QED  BY <1>5, <1>9, <1>10 DEF n

(* A read that is on its way was on its way before, or has just been sent.  *)
LEMMA ReadsGo ==
  ASSUME ContextShape, Requests, NEW N, CallsGo(N)
  PROVE  /\ \A c \in Reads' : c \notin N =>
              /\ c \in Reads /\ calls'[c].kind = calls[c].kind /\ calls'[c].menu = calls[c].menu
              /\ calls'[c].number = calls[c].number /\ calls'[c].request = calls[c].request
              /\ calls'[c].asOf = calls[c].asOf /\ calls'[c].answer = calls[c].answer
              /\ calls'[c].state = "answered" => calls[c].state = "answered"
         /\ \A c \in Reads' : NewestLoad(c)' /\ c \notin N => NewestLoad(c) /\ request' = request
         /\ \A c \in DOMAIN calls' : Stored(c)' =>
              c \in DOMAIN calls /\ Stored(c) /\ calls'[c].menu = calls[c].menu /\ calls'[c].answer = calls[c].answer
  <1>1. ASSUME NEW c \in DOMAIN calls, calls'[c].state # "over"
        PROVE  /\ c \in InFlight /\ calls'[c].kind = calls[c].kind /\ calls'[c].menu = calls[c].menu
               /\ calls'[c].number = calls[c].number /\ calls'[c].request = calls[c].request
               /\ calls'[c].asOf = calls[c].asOf /\ calls'[c].answer = calls[c].answer
               /\ calls'[c].state = "answered" => calls[c].state = "answered"
    BY <1>1 DEF CallsGo, CallKept, KeptName, InFlight
  <1>2. ASSUME NEW c \in Reads', c \notin N
        PROVE  /\ c \in Reads /\ calls'[c].kind = calls[c].kind /\ calls'[c].menu = calls[c].menu
               /\ calls'[c].number = calls[c].number /\ calls'[c].request = calls[c].request
               /\ calls'[c].asOf = calls[c].asOf /\ calls'[c].answer = calls[c].answer
               /\ calls'[c].state = "answered" => calls[c].state = "answered"
    <2>1. c \in DOMAIN calls /\ calls'[c].state # "over" /\ calls'[c].kind \in {"load", "refresh"}
      BY <1>2 DEF Reads, InFlight, CallsGo
    <2> QED  BY <2>1, <1>1 DEF Reads
  <1>3. ASSUME NEW c \in Reads', NewestLoad(c)', c \notin N
        PROVE  NewestLoad(c) /\ request' = request
    <2>1. c \in Reads /\ calls[c].kind = "load" /\ calls[c].request = request'
      BY <1>3, <1>2 DEF NewestLoad, Newest
    <2>2. calls[c].request <= request /\ c \in DOMAIN calls
      BY <2>1 DEF Requests, Reads, InFlight
    <2>3. request \in Nat /\ request' \in Nat /\ request <= request' /\ calls[c].request \in Nat
      BY <2>2, CallTyped DEF ContextShape, CallsGo
    <2>4. request = request'
      BY <2>1, <2>2, <2>3
    <2> QED  BY <2>1, <2>4 DEF NewestLoad, Newest
  <1>4. ASSUME NEW c \in DOMAIN calls', Stored(c)'
        PROVE  c \in DOMAIN calls /\ Stored(c) /\ calls'[c].menu = calls[c].menu /\ calls'[c].answer = calls[c].answer
    <2>1. calls'[c].kind = "save" /\ calls'[c].state = "answered"
      BY <1>4 DEF Stored
    <2>2. c \in DOMAIN calls
      BY <2>1 DEF CallsGo, JustSent
    <2> QED  BY <2>1, <2>2, <1>1 DEF Stored
  <1> QED  BY <1>2, <1>3, <1>4

-----------------------------------------------------------------------------
(* What a step does to the server: a menu that is there may be raised or   *)
(* removed.  And to what must be shown: it grows to what an answer saw.     *)
ServerGoes ==
  \A m \in MenuId : \/ server'[m] = server[m]
                    \/ server[m] # 0 /\ (server'[m] >= server[m] \/ server'[m] = 0)

SeenGoes ==
  \A m \in MenuId : \/ seen'[m] = seen[m]
                    \/ \E c \in Reads : seen'[m] = calls[c].asOf[m]
                    \/ \E s \in DOMAIN calls : Stored(s) /\ calls[s].menu = m /\ seen'[m] = calls[s].answer[m]

(* Each part of the invariant over a step of the calls and the server.     *)
LEMMA LivedStays ==
  ASSUME DOMAIN calls \subseteq DOMAIN calls', \A c \in DOMAIN calls : KeptName(c)
  PROVE  \A m \in MenuId : Lived(m) => Lived(m)'
  BY DEF Lived, Created, KeptName

LEMMA DeadStays ==
  ASSUME ContextShape, ContextShape', NEW N, CallsGo(N), ServerGoes
  PROVE  \A m \in MenuId : Dead(m) => Dead(m)'
  <1>1. \A m \in MenuId : Lived(m) => Lived(m)'
    BY LivedStays DEF CallsGo, CallKept
  <1> QED  BY <1>1 DEF Dead, ServerGoes

-----------------------------------------------------------------------------
(* The parts of ContextInv, one lemma each.                                *)

LEMMA ExistenceGoes ==
  ASSUME ContextShape, ContextShape', Existence, NEW N, CallsGo(N), ServerGoes
  PROVE  Existence'
  <1>1. \A m \in MenuId : Lived(m) => Lived(m)'
    BY LivedStays DEF CallsGo, CallKept
  <1>2. \A m \in MenuId : server'[m] # 0 => Lived(m)'
    BY <1>1 DEF Existence, ServerGoes
  <1>3. ASSUME NEW c \in DOMAIN calls', NEW m \in MenuId, Created(c, m)'
        PROVE  /\ c \in DOMAIN calls => Created(c, m)
               /\ c \notin DOMAIN calls => c \in N /\ m \notin MenusAtStart /\ \A d \in DOMAIN calls : ~Created(d, m)
    BY <1>3 DEF CallsGo, CallKept, KeptName, Created, JustSent
  <1>4. \A c \in DOMAIN calls', m \in MenuId : Created(c, m)' => m \notin MenusAtStart
    BY <1>3 DEF Existence
  <1>5. ASSUME NEW c \in DOMAIN calls', NEW d \in DOMAIN calls', NEW m \in MenuId, Created(c, m)', Created(d, m)'
        PROVE  c = d
    <2>1. CASE c \in DOMAIN calls /\ d \in DOMAIN calls
      BY <1>3, <1>5, <2>1 DEF Existence
    <2>2. CASE c \notin DOMAIN calls /\ d \notin DOMAIN calls
      BY <1>3, <1>5, <2>2 DEF CallsGo
    <2>3. CASE c \in DOMAIN calls /\ d \notin DOMAIN calls
      BY <1>3, <1>5, <2>3
    <2>4. CASE c \notin DOMAIN calls /\ d \in DOMAIN calls
      BY <1>3, <1>5, <2>4
    <2> QED  BY <2>1, <2>2, <2>3, <2>4
  <1> QED  BY <1>2, <1>4, <1>5 DEF Existence

LEMMA KnownGoes ==
  ASSUME ContextShape, Requests, Known, NEW N, CallsGo(N),
         \A m \in MenuId : menus'[m] # 0 \/ menuId' = m => Lived(m)'
  PROVE  Known'
  <1>1. \A m \in MenuId : Lived(m) => Lived(m)'
    BY LivedStays DEF CallsGo, CallKept
  <1>2. ASSUME NEW c \in Reads', NEW m \in MenuId, calls'[c].answer[m] # 0  PROVE Lived(m)'
    <2>1. c \notin N
      <3>1. c \in N => calls'[c].answer = Zero
        BY DEF CallsGo, JustSent
      <3> QED  BY <1>2, <3>1 DEF Zero
    <2>2. c \in Reads /\ calls'[c].answer = calls[c].answer
      BY <2>1, ReadsGo
    <2>3. calls[c].answer[m] # 0
      BY <1>2, <2>2
    <2> QED  BY <1>1, <2>2, <2>3 DEF Known
  <1> QED  BY <1>2 DEF Known

LEMMA OrdersGo ==
  ASSUME ContextShape, ContextShape', Requests, Orders, NEW N, CallsGo(N),
         LatestStands', appliedLoad' <= sequence'
  PROVE  Orders'
  <1>1. sequence \in Nat /\ sequence' \in Nat /\ sequence <= sequence'
    BY DEF CallsGo, ContextShape
  <1>2. ASSUME NEW c \in Reads', c \in N
        PROVE  /\ calls'[c].number <= sequence' /\ sequence <= calls'[c].number
               /\ calls'[c].kind = "refresh" => sequence < calls'[c].number
               /\ \A d \in DOMAIN calls : d < c /\ ~ (c < d)
    <2>1. \A d \in DOMAIN calls : d \in Nat
      BY DEF ContextShape
    <2>2. JustSent(c) /\ c \in Nat /\ calls'[c].kind \in {"load", "refresh"}
      BY <1>2 DEF CallsGo, Reads
    <2> QED  BY <1>1, <2>1, <2>2 DEF JustSent
  <1>3. ASSUME NEW c \in Reads', c \notin N
        PROVE  /\ c \in Reads /\ calls'[c].number = calls[c].number /\ calls'[c].kind = calls[c].kind
               /\ calls'[c].number \in Nat /\ calls'[c].number <= sequence /\ c \in DOMAIN calls
    <2>1. c \in Reads /\ calls'[c].number = calls[c].number /\ calls'[c].kind = calls[c].kind
      BY <1>3, ReadsGo
    <2> QED  BY <2>1, CallTyped DEF Orders, Reads, InFlight
  <1>4. \A c \in Reads' : calls'[c].number <= sequence'
    BY <1>1, <1>2, <1>3
  <1>5. ASSUME NEW c \in Reads', NEW d \in Reads', c < d
        PROVE  /\ calls'[c].number <= calls'[d].number
               /\ calls'[d].kind = "refresh" => calls'[c].number < calls'[d].number
    <2>0. c \in Nat /\ d \in Nat /\ calls'[c].number \in Nat /\ calls'[d].number \in Nat
      <3>1. c \in DOMAIN calls' /\ d \in DOMAIN calls' /\ calls' \in Seq(CallRecord)
        BY DEF Reads, InFlight, ContextShape
      <3>2. calls'[c] \in CallRecord /\ calls'[d] \in CallRecord /\ c \in Nat /\ d \in Nat
        BY <3>1
      <3> QED  BY <3>2 DEF CallRecord
    <2>1. CASE c \notin N /\ d \notin N
      BY <1>3, <1>5, <2>1 DEF Orders
    <2>2. CASE c \notin N /\ d \in N
      <3>1. calls'[c].number <= sequence /\ sequence <= calls'[d].number
        BY <1>2, <1>3, <2>2
      <3> QED  BY <1>1, <1>2, <2>0, <2>2, <3>1
    <2>3. CASE c \in N
      <3>1. d \notin N
        BY <1>5, <2>0, <2>3 DEF CallsGo
      <3> QED  BY <1>2, <1>3, <1>5, <2>3, <3>1
    <2> QED  BY <2>1, <2>2, <2>3
  <1> QED  BY <1>4, <1>5 DEF Orders

LEMMA RequestsGo ==
  ASSUME ContextShape, Requests, NEW N, CallsGo(N)
  PROVE  Requests'
  <1>1. ASSUME NEW c \in Reads', calls'[c].kind = "load", c \notin N
        PROVE  c \in Reads /\ calls[c].kind = "load" /\ calls'[c].request = calls[c].request
               /\ calls[c].request <= request /\ calls[c].request \in Nat
    <2>1. c \in Reads /\ calls[c].kind = "load" /\ calls'[c].request = calls[c].request
      BY <1>1, ReadsGo
    <2> QED  BY <2>1, CallTyped DEF Requests, Reads, InFlight
  <1>2. ASSUME NEW c \in Reads', calls'[c].kind = "load", c \in N
        PROVE  calls'[c].request = request + 1 /\ request' = request + 1
    BY <1>2 DEF CallsGo, JustSent
  <1>3. request \in Nat /\ request' \in Nat /\ request <= request'
    BY DEF CallsGo, ContextShape
  <1>4. \A c \in Reads' : calls'[c].kind = "load" => calls'[c].request <= request'
    BY <1>1, <1>2, <1>3
  <1>5. ASSUME NEW c \in Reads', NEW d \in Reads', calls'[c].kind = "load", calls'[d].kind = "load",
               calls'[c].request = calls'[d].request
        PROVE  c = d
    <2>1. CASE c \notin N /\ d \notin N
      BY <1>1, <1>5, <2>1 DEF Requests
    <2>2. CASE c \in N /\ d \in N
      BY <2>2 DEF CallsGo
    <2>3. CASE c \in N /\ d \notin N
      BY <1>1, <1>2, <1>3, <1>5, <2>3
    <2>4. CASE c \notin N /\ d \in N
      BY <1>1, <1>2, <1>3, <1>5, <2>4
    <2> QED  BY <2>1, <2>2, <2>3, <2>4
  <1> QED  BY <1>4, <1>5 DEF Requests

LEMMA AgesGo ==
  ASSUME ContextShape, ContextShape', Existence, Requests, Ages, NEW N, CallsGo(N), ServerGoes, SeenGoes,
         N # {} => server' = server
  PROVE  Ages'
  <1>1. \A m \in MenuId : Dead(m) => Dead(m)'
    BY DeadStays
  <1>2. \A m \in MenuId : /\ server[m] \in Nat /\ server'[m] \in Nat /\ seen[m] \in Nat /\ seen'[m] \in Nat
                          /\ server[m] # 0 => Lived(m)
    BY VersionsCount DEF ContextShape, Existence
  <1>3. \A m \in MenuId : Lived(m) => Lived(m)'
    BY LivedStays DEF CallsGo, CallKept
  <1>4. ASSUME NEW m \in MenuId, NEW v \in Nat, v <= server[m] \/ Dead(m)
        PROVE  v <= server'[m] \/ Dead(m)'
    <2>1. CASE Dead(m)
      BY <1>1, <2>1
    <2>2. CASE v <= server[m] /\ server'[m] # 0
      BY <1>2, <2>2 DEF ServerGoes
    <2>3. CASE v <= server[m] /\ server'[m] = 0
      <3>1. CASE server[m] = 0
        BY <1>2, <2>3, <3>1
      <3>2. CASE server[m] # 0
        BY <1>2, <1>3, <2>3, <3>2 DEF Dead
      <3> QED  BY <3>1, <3>2
    <2> QED  BY <1>4, <2>1, <2>2, <2>3
  <1>5. ASSUME NEW c \in Reads', c \notin N
        PROVE  /\ c \in Reads /\ c \in DOMAIN calls
               /\ calls'[c].kind = calls[c].kind /\ calls'[c].menu = calls[c].menu
               /\ calls'[c].asOf = calls[c].asOf /\ calls'[c].answer = calls[c].answer
               /\ calls'[c].state = "answered" => calls[c].state = "answered"
    BY <1>5, ReadsGo DEF Reads, InFlight
  <1>6. \A c \in Reads, m \in MenuId : calls[c].asOf[m] \in Nat /\ calls[c].answer[m] \in Nat
    BY CallTyped DEF Reads, InFlight
  <1>7. ASSUME NEW c \in Reads', c \in N
        PROVE  /\ server' = server /\ calls'[c].asOf = server /\ calls'[c].state = "sent"
               /\ \A m \in MenuId : calls'[c].answer[m] = 0
               /\ \A d \in DOMAIN calls : d < c /\ ~ (c < d)
    <2>1. \A d \in DOMAIN calls : d \in Nat
      BY DEF ContextShape
    <2>2. JustSent(c) /\ c \in Nat
      BY <1>7 DEF CallsGo
    <2> QED  BY <1>7, <2>1, <2>2 DEF JustSent, Zero
  <1>8. \A m \in MenuId : seen'[m] <= server'[m] \/ Dead(m)'
    <2> SUFFICES ASSUME NEW m \in MenuId  PROVE seen'[m] <= server'[m] \/ Dead(m)'
      OBVIOUS
    <2>1. CASE seen'[m] = seen[m]
      BY <1>2, <1>4, <2>1 DEF Ages
    <2>2. CASE \E c \in Reads : seen'[m] = calls[c].asOf[m]
      BY <1>4, <1>6, <2>2 DEF Ages
    <2>3. CASE \E s \in DOMAIN calls : Stored(s) /\ calls[s].menu = m /\ seen'[m] = calls[s].answer[m]
      <3>1. PICK s \in DOMAIN calls : Stored(s) /\ calls[s].menu = m /\ seen'[m] = calls[s].answer[m]
        BY <2>3
      <3>2. seen'[m] <= server[m] \/ Dead(m)
        BY <3>1 DEF Ages
      <3> QED  BY <1>2, <1>4, <3>2
    <2> QED  BY <2>1, <2>2, <2>3 DEF SeenGoes
  <1>9. \A c \in Reads', m \in MenuId : calls'[c].asOf[m] <= server'[m] \/ Dead(m)'
    <2> SUFFICES ASSUME NEW c \in Reads', NEW m \in MenuId  PROVE calls'[c].asOf[m] <= server'[m] \/ Dead(m)'
      OBVIOUS
    <2>1. CASE c \in N
      BY <1>2, <1>7, <2>1
    <2>2. CASE c \notin N
      BY <1>4, <1>5, <1>6, <2>2 DEF Ages
    <2> QED  BY <2>1, <2>2
  <1>10. \A c \in Reads', m \in MenuId : calls'[c].answer[m] = 0 \/ calls'[c].asOf[m] <= calls'[c].answer[m]
    BY <1>5, <1>7 DEF Ages
  <1>11. ASSUME NEW c \in Reads', NEW d \in Reads', NEW m \in MenuId, c < d
         PROVE  calls'[c].asOf[m] <= calls'[d].asOf[m] \/ DeadFor(d, m)'
    <2>1. CASE c \notin N /\ d \notin N
      <3>1. calls[c].asOf[m] <= calls[d].asOf[m] \/ DeadFor(d, m)
        BY <1>5, <1>11, <2>1 DEF Ages
      <3> QED  BY <1>1, <1>5, <2>1, <3>1 DEF DeadFor
    <2>2. CASE c \notin N /\ d \in N
      <3>1. calls'[c].asOf[m] <= server[m] \/ Dead(m)
        BY <1>5, <2>2 DEF Ages
      <3>2. calls'[d].asOf = server /\ calls'[d].answer[m] = 0
        BY <1>7, <2>2
      <3> QED  BY <1>1, <3>1, <3>2 DEF DeadFor
    <2>3. CASE c \in N
      <3>1. c \in Nat /\ ~ (c < c) /\ (d \in N => d = c)
        BY <2>3 DEF CallsGo
      <3> QED  BY <1>5, <1>7, <1>11, <2>3, <3>1
    <2> QED  BY <2>1, <2>2, <2>3
  <1>12. \A c \in Reads' : calls'[c].kind = "refresh" /\ calls'[c].state = "answered" => calls'[c].answer[calls'[c].menu] # 0
    BY <1>5, <1>7 DEF Ages
  <1>13. ASSUME NEW s \in DOMAIN calls', NEW m \in MenuId, Stored(s)', calls'[s].menu = m
         PROVE  calls'[s].answer[m] # 0 /\ (calls'[s].answer[m] <= server'[m] \/ Dead(m)')
    <2>1. s \in DOMAIN calls /\ Stored(s) /\ calls[s].menu = m /\ calls'[s].answer = calls[s].answer
      BY <1>13, ReadsGo
    <2>2. calls[s].answer[m] # 0 /\ (calls[s].answer[m] <= server[m] \/ Dead(m)) /\ calls[s].answer[m] \in Nat
      BY <2>1, CallTyped DEF Ages
    <2> QED  BY <1>4, <2>1, <2>2
  <1> QED  BY <1>8, <1>9, <1>10, <1>11, <1>12, <1>13 DEF Ages

LEMMA ChosenGoes ==
  ASSUME ContextShape, ContextShape', Existence, Requests, Chosen, NEW N, CallsGo(N), ServerGoes,
         \/ \A m \in MenuId : menus'[m] # 0 \/ menuId' = m => menus[m] # 0 \/ menuId = m
         \/ \A c \in Reads : ~NewestLoad(c)'
  PROVE  Chosen'
  <1> SUFFICES ASSUME NEW c \in Reads', NEW m \in MenuId, NewestLoad(c)', calls'[c].state = "answered",
                      menus'[m] # 0 \/ menuId' = m
               PROVE  calls'[c].answer[m] # 0 \/ Dead(m)'
    BY DEF Chosen
  <1>1. c \notin N
    BY DEF CallsGo, JustSent
  <1>2. c \in Reads /\ NewestLoad(c) /\ calls'[c].answer = calls[c].answer /\ calls[c].state = "answered"
    BY <1>1, ReadsGo
  <1>3. menus[m] # 0 \/ menuId = m
    BY <1>2
  <1>4. calls[c].answer[m] # 0 \/ Dead(m)
    BY <1>2, <1>3 DEF Chosen
  <1> QED  BY <1>2, <1>4, DeadStays

LEMMA SpinsGoes ==
  ASSUME ContextShape, Requests, Spins, NEW N, CallsGo(N),
         \/ loading' = TRUE /\ request' = request + 1 /\ \E n \in N : calls'[n].kind = "load"
         \/ /\ loading' = loading /\ request' = request /\ \A n \in N : calls'[n].kind # "load"
            /\ \A c \in DOMAIN calls : NewestLoad(c) => calls'[c].state # "over"
         \/ loading' = FALSE /\ N = {} /\ request' = request
            /\ \E c \in DOMAIN calls : NewestLoad(c) /\ calls'[c].state = "over"
  PROVE  Spins'
  <1>1. CASE loading' = TRUE /\ request' = request + 1 /\ \E n \in N : calls'[n].kind = "load"
    <2>1. PICK n \in N : calls'[n].kind = "load"
      BY <1>1
    <2>2. n \in DOMAIN calls' /\ calls'[n].state = "sent" /\ calls'[n].request = request'
      BY <1>1, <2>1 DEF CallsGo, JustSent
    <2>3. NewestLoad(n)'
      BY <2>1, <2>2 DEF NewestLoad, Newest, Reads, InFlight
    <2> QED  BY <1>1, <2>2, <2>3 DEF Spins
  <1>2. CASE /\ loading' = loading /\ request' = request /\ \A n \in N : calls'[n].kind # "load"
             /\ \A c \in DOMAIN calls : NewestLoad(c) => calls'[c].state # "over"
    <2>1. ASSUME NEW c \in DOMAIN calls, NewestLoad(c)  PROVE c \in DOMAIN calls' /\ NewestLoad(c)'
      BY <1>2, <2>1 DEF NewestLoad, Newest, Reads, InFlight, CallsGo, CallKept, KeptName
    <2>2. ASSUME NEW c \in DOMAIN calls', NewestLoad(c)'  PROVE c \in DOMAIN calls /\ NewestLoad(c)
      <3>1. c \in Reads' /\ c \notin N
        BY <1>2, <2>2 DEF NewestLoad
      <3> QED  BY <2>2, <3>1, ReadsGo DEF Reads, InFlight
    <2>3. loading <=> \E c \in DOMAIN calls : NewestLoad(c)
      BY DEF Spins
    <2>4. loading' <=> \E c \in DOMAIN calls' : NewestLoad(c)'
      BY <1>2, <2>1, <2>2, <2>3
    <2> QED  BY <2>4 DEF Spins
  <1>3. CASE /\ loading' = FALSE /\ N = {} /\ request' = request
             /\ \E c \in DOMAIN calls : NewestLoad(c) /\ calls'[c].state = "over"
    <2>1. PICK c \in DOMAIN calls : NewestLoad(c) /\ calls'[c].state = "over"
      BY <1>3
    <2>2. ASSUME NEW d \in DOMAIN calls', NewestLoad(d)'  PROVE FALSE
      <3>1. d \in Reads' /\ d \notin N /\ d # c
        BY <1>3, <2>1, <2>2 DEF NewestLoad, Reads, InFlight
      <3>2. NewestLoad(d)
        BY <2>2, <3>1, ReadsGo
      <3> QED  BY <2>1, <3>1, <3>2 DEF NewestLoad, Newest, Requests
    <2> QED  BY <1>3, <2>2 DEF Spins
  <1> QED  BY <1>1, <1>2, <1>3

(* Together: a step that leaves the list and the selection alone.          *)
LEMMA ContextGoes ==
  ASSUME ContextInv, ContextShape', Spins', NEW N, CallsGo(N), ServerGoes, SeenGoes, N # {} => server' = server,
         \A m \in MenuId : menus'[m] # 0 \/ menuId' = m => Lived(m)',
         LatestStands', appliedLoad' <= sequence',
         \/ \A m \in MenuId : menus'[m] # 0 \/ menuId' = m => menus[m] # 0 \/ menuId = m
         \/ \A c \in Reads : ~NewestLoad(c)'
  PROVE  ContextInv'
  <1>1. Existence' /\ Ages' /\ Chosen'
    BY ExistenceGoes, AgesGo, ChosenGoes DEF ContextInv
  <1>2. Known' /\ Orders' /\ Requests'
    BY KnownGoes, OrdersGo, RequestsGo DEF ContextInv
  <1> QED  BY <1>1, <1>2 DEF ContextInv

LEMMA KnownLived ==
  ASSUME ContextInv, NEW N, CallsGo(N), NEW m \in MenuId, menus[m] # 0 \/ menuId = m
  PROVE  Lived(m)'
  <1>1. Lived(m)
    BY DEF ContextInv, Known
  <1> QED  BY <1>1, LivedStays DEF CallsGo, CallKept

LEMMA BoundsGo ==
  ASSUME ContextInv, NEW N, CallsGo(N), UNCHANGED <<latestMenu, appliedLoad>>
  PROVE  LatestStands' /\ appliedLoad' <= sequence'
  <1>1. \A m \in MenuId : latestMenu[m].number \in Nat
    BY DEF ContextInv, ContextShape
  <1> QED  BY <1>1 DEF ContextInv, ContextShape, Orders, LatestStands, CallsGo

-----------------------------------------------------------------------------
(* The actions, in groups: what only sends, what only takes a call away,   *)
(* what the server does.                                                   *)

LEMMA SendsKeep ==
  ASSUME ContextInv, NEW k \in Kinds, NEW m \in MenuId \cup {NoMenu}, NEW num \in Nat, NEW req \in Nat,
         Begin, calls' = Append(calls, Sent(k, m, num, req)), UNCHANGED <<latestMenu, appliedLoad>>,
         k # "load" => m \in MenuId,
         sequence' \in Nat, sequence <= sequence', request' \in Nat, request <= request',
         k = "load" => num = sequence /\ sequence' = sequence /\ req = request + 1 /\ request' = request + 1,
         k = "refresh" => num = sequence + 1 /\ sequence' = sequence + 1,
         k = "create" => m \notin MenusAtStart /\ \A c \in DOMAIN calls : ~Created(c, m),
         \/ k = "load" /\ loading' = TRUE
         \/ k # "load" /\ loading' = loading /\ request' = request
  PROVE  ContextInv' /\ CallsGo({Len(calls) + 1})
  <1>1. PICK n : n = Len(calls) + 1
    OBVIOUS
  <1>2. ContextShape
    BY DEF ContextInv
  <1>3. /\ CallsGo({n}) /\ calls' \in Seq(CallRecord)
        /\ calls'[n].kind = k
        /\ \A c \in DOMAIN calls : calls'[c] = calls[c]
        /\ \A c \in DOMAIN calls' : calls'[c].kind # "load" => calls'[c].menu \in MenuId
    BY <1>1, <1>2, SendsFrame
  <1>4. ContextShape'
    BY <1>2, <1>3 DEF ContextShape, Begin
  <1>5. ServerGoes /\ SeenGoes /\ server' = server
    BY DEF Begin, ServerGoes, SeenGoes
  <1>6. Spins'
    <2>1. \A c \in DOMAIN calls : NewestLoad(c) => calls'[c].state # "over"
      BY <1>3 DEF NewestLoad, Reads, InFlight
    <2> QED  BY <1>3, <2>1, SpinsGoes DEF ContextInv
  <1>7. \A i \in MenuId : menus'[i] # 0 \/ menuId' = i => menus[i] # 0 \/ menuId = i
    BY DEF Begin
  <1>8. \A i \in MenuId : menus'[i] # 0 \/ menuId' = i => Lived(i)'
    BY <1>3, <1>7, KnownLived
  <1>9. LatestStands' /\ appliedLoad' <= sequence'
    BY <1>3, BoundsGo
  <1> QED  BY <1>1, <1>3, <1>4, <1>5, <1>6, <1>7, <1>8, <1>9, ContextGoes

LEMMA CallsKeep ==
  ASSUME ContextInv, load \/ saveActiveMenu \/ \E m \in MenuId : refreshMenu(m) \/ createMenu(m) \/ deleteMenu(m)
  PROVE  /\ ContextInv' /\ CallsGo({Len(calls) + 1})
         /\ UNCHANGED <<server, menus, menuId, seen, latestMenu, appliedLoad>>
  <1> DEFINE Goal == /\ ContextInv' /\ CallsGo({Len(calls) + 1})
                     /\ UNCHANGED <<server, menus, menuId, seen, latestMenu, appliedLoad>>
  <1>1. /\ request \in Nat /\ sequence \in Nat /\ request + 1 \in Nat /\ sequence + 1 \in Nat /\ 0 \in Nat
        /\ request <= request + 1 /\ sequence <= sequence + 1 /\ request <= request /\ sequence <= sequence
    BY DEF ContextInv, ContextShape
  <1>2. {"load", "refresh", "save", "create", "delete"} \subseteq Kinds
    BY DEF Kinds
  <1>3. CASE load
    <2>1. /\ Begin /\ calls' = Append(calls, Sent("load", NoMenu, sequence, request + 1))
          /\ UNCHANGED <<latestMenu, appliedLoad>> /\ sequence' = sequence /\ request' = request + 1
          /\ loading' = TRUE /\ "load" \in Kinds /\ NoMenu \in MenuId \cup {NoMenu}
      BY <1>2, <1>3 DEF load
    <2>2. ContextInv' /\ CallsGo({Len(calls) + 1})
      BY <1>1, <2>1, SendsKeep
    <2> QED  BY <2>1, <2>2 DEF Begin
  <1>4. ASSUME NEW k \in Kinds \ {"load", "refresh"}, NEW m \in MenuId, Begin,
               calls' = Append(calls, Sent(k, m, 0, 0)), UNCHANGED <<loading, refs>>,
               k = "create" => m \notin MenusAtStart /\ \A c \in DOMAIN calls : ~Created(c, m)
        PROVE  Goal
    <2>1. UNCHANGED <<latestMenu, appliedLoad>> /\ sequence' = sequence /\ request' = request /\ loading' = loading
      BY <1>4 DEF refs
    <2>2. k \in Kinds /\ k # "load" /\ k # "refresh" /\ m \in MenuId \cup {NoMenu}
      BY <1>4
    <2>3. ContextInv' /\ CallsGo({Len(calls) + 1})
      BY <1>1, <1>4, <2>1, <2>2, SendsKeep
    <2> QED  BY <1>4, <2>1, <2>3 DEF Begin
  <1>5. CASE saveActiveMenu
    <2>1. activeMenu \in MenuId
      BY <1>5, PickMenuTyped DEF saveActiveMenu, activeMenu, ContextInv, ContextShape
    <2>2. "save" \in Kinds \ {"load", "refresh"}
      BY <1>2
    <2>3. Begin /\ calls' = Append(calls, Sent("save", activeMenu, 0, 0)) /\ UNCHANGED <<loading, refs>>
      BY <1>5 DEF saveActiveMenu
    <2> QED  BY <1>4, <2>1, <2>2, <2>3
  <1>6. ASSUME NEW m \in MenuId, createMenu(m)  PROVE Goal
    <2>1. "create" \in Kinds \ {"load", "refresh"}
      BY <1>2
    <2>2. /\ Begin /\ calls' = Append(calls, Sent("create", m, 0, 0)) /\ UNCHANGED <<loading, refs>>
          /\ m \notin MenusAtStart /\ \A c \in DOMAIN calls : ~Created(c, m)
      BY <1>6 DEF createMenu, Created
    <2> QED  BY <1>4, <2>1, <2>2
  <1>7. ASSUME NEW m \in MenuId, deleteMenu(m)  PROVE Goal
    <2>1. "delete" \in Kinds \ {"load", "refresh"}
      BY <1>2
    <2>2. Begin /\ calls' = Append(calls, Sent("delete", m, 0, 0)) /\ UNCHANGED <<loading, refs>>
      BY <1>7 DEF deleteMenu
    <2> QED  BY <1>4, <2>1, <2>2
  <1>8. ASSUME NEW m \in MenuId, refreshMenu(m)  PROVE Goal
    <2>1. /\ Begin /\ calls' = Append(calls, Sent("refresh", m, sequence + 1, 0))
          /\ UNCHANGED <<latestMenu, appliedLoad>> /\ sequence' = sequence + 1 /\ request' = request
          /\ loading' = loading /\ "refresh" \in Kinds /\ m \in MenuId \cup {NoMenu}
      BY <1>2, <1>8 DEF refreshMenu
    <2>2. ContextInv' /\ CallsGo({Len(calls) + 1})
      BY <1>1, <2>1, SendsKeep
    <2> QED  BY <2>1, <2>2 DEF Begin
  <1> QED  BY <1>3, <1>5, <1>6, <1>7, <1>8

LEMMA ReloadsKeep ==
  ASSUME ContextInv, NEW c \in DOMAIN calls, CreateLands(c) \/ DeleteLands(c)
  PROVE  /\ ContextInv' /\ CallsGo({Len(calls) + 1})
         /\ UNCHANGED <<server, menus, seen, latestMenu, appliedLoad>>
  <1>1. /\ calls[c].state = "answered" /\ calls[c].kind \in {"create", "delete"}
        /\ calls' = Append(Over(c), Sent("load", NoMenu, sequence, request + 1))
        /\ request' = request + 1 /\ loading' = TRUE
        /\ UNCHANGED <<server, menus, error, sequence, latestMenu, appliedLoad, seen>>
        /\ menuId' \in {calls[c].menu, menuId, NoMenu}
    BY DEF CreateLands, DeleteLands, Arrived
  <1>2. PICK n : n = Len(calls) + 1
    OBVIOUS
  <1>3. ContextShape
    BY DEF ContextInv
  <1>4. /\ CallsGo({n}) /\ calls' \in Seq(CallRecord)
        /\ calls'[n] = Sent("load", NoMenu, sequence, request + 1)
        /\ \A d \in DOMAIN calls' : calls'[d].kind # "load" => calls'[d].menu \in MenuId
    BY <1>1, <1>2, <1>3, ReloadsFrame
  <1>5. calls[c].menu \in MenuId
    BY <1>1, <1>3 DEF ContextShape
  <1>6. ContextShape'
    BY <1>1, <1>3, <1>4, <1>5 DEF ContextShape
  <1>7. ServerGoes /\ SeenGoes /\ server' = server
    BY <1>1 DEF ServerGoes, SeenGoes
  <1>8. calls'[n].kind = "load"
    BY <1>4 DEF Sent
  <1>9. Spins'
    BY <1>1, <1>4, <1>8, SpinsGoes DEF ContextInv
  <1>10. \A d \in Reads : ~NewestLoad(d)'
    <2> SUFFICES ASSUME NEW d \in Reads, NewestLoad(d)'  PROVE FALSE
      OBVIOUS
    <2>1. d \in DOMAIN calls /\ calls[d].kind = calls'[d].kind /\ calls'[d].kind = "load" /\ calls'[d].state # "over"
      BY <1>4 DEF NewestLoad, Reads, InFlight, CallsGo, CallKept, KeptName
    <2>2. calls'[d].request = calls[d].request /\ calls'[d].request = request'
      BY <1>4, <2>1 DEF CallsGo, CallKept, NewestLoad, Newest
    <2>3. calls[d].request <= request /\ calls[d].request \in Nat /\ request \in Nat
      BY <1>3, <2>1, CallTyped DEF ContextInv, Requests, ContextShape
    <2> QED  BY <1>1, <2>2, <2>3
  <1>11. \A i \in MenuId : menus'[i] # 0 \/ menuId' = i => Lived(i)'
    <2> SUFFICES ASSUME NEW i \in MenuId, menus'[i] # 0 \/ menuId' = i  PROVE Lived(i)'
      OBVIOUS
    <2>1. CASE menus[i] # 0 \/ menuId = i
      BY <1>4, <2>1, KnownLived
    <2>2. CASE ~(menus[i] # 0 \/ menuId = i)
      <3>1. menuId' = i /\ i # NoMenu /\ calls[c].menu = i /\ calls[c].kind = "create"
        BY <1>1, <2>2, ContextConstants DEF CreateLands, DeleteLands, Arrived
      <3>2. Lived(i)
        BY <1>1, <3>1 DEF Lived, Created
      <3> QED  BY <1>4, <3>2, LivedStays DEF CallsGo, CallKept
    <2> QED  BY <2>1, <2>2
  <1>12. LatestStands' /\ appliedLoad' <= sequence'
    BY <1>1, <1>4, BoundsGo
  <1> QED  BY <1>1, <1>2, <1>4, <1>6, <1>7, <1>9, <1>10, <1>11, <1>12, ContextGoes

LEMMA SameCalls ==
  ASSUME ContextShape, calls' = calls, sequence' = sequence, request' = request
  PROVE  CallsGo({})
  BY DEF CallsGo, CallKept, KeptName, ContextShape

LEMMA WritesKeep ==
  ASSUME ContextInv, NEW m \in MenuId, OtherWrite(m) \/ OtherDelete(m)
  PROVE  ContextInv' /\ CallsGo({}) /\ ServerGoes
  <1>1. /\ server[m] # 0 /\ UNCHANGED <<menus, menuId, loading, error, refs, calls, seen>>
        /\ \/ server' = [server EXCEPT ![m] = @ + 1] /\ server[m] \in 1..(MaxVersion - 1)
           \/ server' = [server EXCEPT ![m] = 0]
    BY DEF OtherWrite, OtherDelete, MayWrite
  <1>2. ContextShape
    BY DEF ContextInv
  <1>3. MaxVersion \in Nat /\ 0 \in Version /\ \A v \in 1..(MaxVersion - 1) : v + 1 \in Version
    BY ContextConstants DEF Version
  <1>4. server' \in [MenuId -> Version] /\ ServerGoes
    <2>1. server \in [MenuId -> Version] /\ \A i \in MenuId : server[i] \in Nat
      BY <1>2, VersionsCount DEF ContextShape
    <2>2. CASE server' = [server EXCEPT ![m] = @ + 1] /\ server[m] \in 1..(MaxVersion - 1)
      <3>1. PICK v \in Version : v = server[m] + 1
        BY <1>3, <2>2
      <3>2. server' = [server EXCEPT ![m] = v]
        BY <2>1, <2>2, <3>1
      <3>3. server' \in [MenuId -> Version] /\ server'[m] = v /\ \A i \in MenuId : i # m => server'[i] = server[i]
        BY <2>1, <3>2
      <3>4. v >= server[m]
        BY <2>1, <3>1
      <3> QED  BY <1>1, <3>3, <3>4 DEF ServerGoes
    <2>3. CASE server' = [server EXCEPT ![m] = 0]
      <3>1. server' \in [MenuId -> Version] /\ server'[m] = 0 /\ \A i \in MenuId : i # m => server'[i] = server[i]
        BY <1>3, <2>1, <2>3
      <3> QED  BY <1>1, <3>1 DEF ServerGoes
    <2> QED  BY <1>1, <2>2, <2>3
  <1>5. ContextShape'
    BY <1>1, <1>2, <1>4 DEF ContextShape, refs
  <1>6. CallsGo({})
    BY <1>1, <1>2, SameCalls DEF refs
  <1>7. SeenGoes
    BY <1>1 DEF SeenGoes
  <1>8. Spins'
    BY <1>1 DEF ContextInv, Spins, NewestLoad, Newest, Reads, InFlight, refs
  <1>9. \A i \in MenuId : menus'[i] # 0 \/ menuId' = i => menus[i] # 0 \/ menuId = i
    BY <1>1
  <1>10. \A i \in MenuId : menus'[i] # 0 \/ menuId' = i => Lived(i)'
    BY <1>6, <1>9, KnownLived
  <1>11. LatestStands' /\ appliedLoad' <= sequence'
    BY <1>1, <1>6, BoundsGo DEF refs
  <1> QED  BY <1>4, <1>5, <1>6, <1>7, <1>8, <1>9, <1>10, <1>11, ContextGoes

-----------------------------------------------------------------------------
(* The actions.  A quiet step changes nothing but the calls, or nothing     *)
(* but the selection or the error.                                         *)
StandsStill ==
  /\ UNCHANGED <<server, menus, seen, refs>>
  /\ \/ calls' = calls /\ loading' = loading
     \/ \E c \in DOMAIN calls :
          /\ calls[c].state # "sent" /\ calls' = Over(c)
          /\ (NewestLoad(c) /\ loading' = FALSE) \/ (~NewestLoad(c) /\ loading' = loading)
     \/ \E c \in DOMAIN calls : Refuse(c)

LEMMA QuietSteps ==
  ASSUME ContextInv,
         \/ \E m \in MenuId : setActiveMenuId(m)
         \/ \E c \in DOMAIN calls : \/ Refuse(c) \/ LoadFails(c) \/ CallFails(c)
                                    \/ LoadLands(c) /\ ~Newest(c)
         \/ UNCHANGED contextVars
  PROVE  StandsStill /\ \A i \in MenuId : menuId' = i => menus[i] # 0 \/ menuId = i
  <1>1. ASSUME NEW m \in MenuId, setActiveMenuId(m)
        PROVE  StandsStill /\ \A i \in MenuId : menuId' = i => menus[i] # 0 \/ menuId = i
    BY <1>1 DEF setActiveMenuId, StandsStill, Listed
  <1>2. ASSUME NEW c \in DOMAIN calls, Refuse(c)
        PROVE  StandsStill /\ menuId' = menuId
    BY <1>2 DEF Refuse, StandsStill
  <1>3. ASSUME NEW c \in DOMAIN calls, LoadFails(c)
        PROVE  StandsStill /\ menuId' = menuId
    <2>1. /\ UNCHANGED <<server, menus, menuId, refs, seen>> /\ calls' = Over(c) /\ calls[c].state # "sent"
          /\ c \in Reads /\ calls[c].kind = "load"
      BY <1>3 DEF LoadFails, Reads, InFlight
    <2>2. (NewestLoad(c) /\ loading' = FALSE) \/ (~NewestLoad(c) /\ loading' = loading)
      <3>1. CASE Newest(c)
        <4>1. NewestLoad(c)
          BY <2>1, <3>1 DEF NewestLoad
        <4>2. loading' = FALSE
          BY <1>3, <3>1 DEF LoadFails
        <4> QED  BY <4>1, <4>2
      <3>2. CASE ~Newest(c)
        <4>1. ~NewestLoad(c)
          BY <3>2 DEF NewestLoad
        <4>2. loading' = loading
          BY <1>3, <3>2 DEF LoadFails
        <4> QED  BY <4>1, <4>2
      <3> QED  BY <3>1, <3>2
    <2> QED  BY <2>1, <2>2 DEF StandsStill
  <1>4. ASSUME NEW c \in DOMAIN calls, CallFails(c)
        PROVE  StandsStill /\ menuId' = menuId
    BY <1>4 DEF CallFails, StandsStill, NewestLoad
  <1>5. ASSUME NEW c \in DOMAIN calls, LoadLands(c), ~Newest(c)
        PROVE  StandsStill /\ menuId' = menuId
    <2>1. calls[c].state # "sent" /\ calls' = Over(c)
      BY <1>5 DEF LoadLands, Arrived
    <2>2. UNCHANGED <<server, menus, menuId, seen, refs, loading>> /\ ~NewestLoad(c)
      BY <1>5 DEF LoadLands, NewestLoad, refs
    <2> QED  BY <2>1, <2>2 DEF StandsStill
  <1>6. ASSUME UNCHANGED contextVars
        PROVE  StandsStill /\ menuId' = menuId
    BY <1>6 DEF contextVars, StandsStill, refs
  <1> QED  BY <1>1, <1>2, <1>3, <1>4, <1>5, <1>6

LEMMA QuietKeeps ==
  ASSUME ContextInv, StandsStill, menuId' \in MenuId \cup {NoMenu}, error' \in BOOLEAN,
         \A i \in MenuId : menuId' = i => menus[i] # 0 \/ menuId = i
  PROVE  ContextInv' /\ CallsGo({})
  <1>1. ContextShape
    BY DEF ContextInv
  <1>2. /\ CallsGo({}) /\ calls' \in Seq(CallRecord)
        /\ \A c \in DOMAIN calls' : calls'[c].kind # "load" => calls'[c].menu \in MenuId
        /\ loading' \in BOOLEAN /\ Spins'
    <2>1. CASE calls' = calls /\ loading' = loading
      <3>1. CallsGo({}) /\ request' = request
        BY <1>1, <2>1, SameCalls DEF StandsStill, refs
      <3>2. Spins'
        BY <2>1, <3>1 DEF ContextInv, Spins, NewestLoad, Newest, Reads, InFlight
      <3> QED  BY <1>1, <2>1, <3>1, <3>2 DEF ContextShape
    <2>2. ASSUME NEW c \in DOMAIN calls, calls[c].state # "sent", calls' = Over(c),
                 (NewestLoad(c) /\ loading' = FALSE) \/ (~NewestLoad(c) /\ loading' = loading)
          PROVE  /\ CallsGo({}) /\ calls' \in Seq(CallRecord)
                 /\ \A d \in DOMAIN calls' : calls'[d].kind # "load" => calls'[d].menu \in MenuId
                 /\ loading' \in BOOLEAN /\ Spins'
      <3>1. request' = request /\ sequence' = sequence /\ sequence \in Nat
        BY <1>1 DEF StandsStill, refs, ContextShape
      <3>2. CallsGo({}) /\ calls' \in Seq(CallRecord) /\ \A d \in DOMAIN calls : d # c => calls'[d] = calls[d]
        BY <1>1, <2>2, <3>1, LandsFrame
      <3>3. calls'[c].state = "over"
        BY <1>1, <2>2, OverFrame
      <3>4. \A d \in DOMAIN calls : d # c /\ NewestLoad(d) => calls'[d].state # "over"
        BY <3>2 DEF NewestLoad, Reads, InFlight
      <3>5. Spins'
        BY <1>1, <2>2, <3>1, <3>2, <3>3, <3>4, SpinsGoes DEF ContextInv
      <3>6. \A d \in DOMAIN calls' : calls'[d].kind # "load" => calls'[d].menu \in MenuId
        BY <1>1, <3>2 DEF ContextShape, CallsGo, CallKept, KeptName
      <3> QED  BY <1>1, <2>2, <3>2, <3>5, <3>6 DEF ContextShape
    <2>3. ASSUME NEW c \in DOMAIN calls, Refuse(c)
          PROVE  /\ CallsGo({}) /\ calls' \in Seq(CallRecord)
                 /\ \A d \in DOMAIN calls' : calls'[d].kind # "load" => calls'[d].menu \in MenuId
                 /\ loading' \in BOOLEAN /\ Spins'
      <3>1. /\ request' = request /\ sequence' = sequence /\ sequence \in Nat /\ request \in Nat /\ loading' = loading
            /\ calls[c].state = "sent" /\ calls \in Seq(CallRecord)
        BY <1>1, <2>3 DEF Refuse, refs, ContextShape
      <3>2. PICK r \in CallRecord : r = [calls[c] EXCEPT !.state = "refused"]
        BY <1>1, CallTyped DEF CallRecord
      <3>3. /\ r.state = "refused" /\ r.kind = calls[c].kind /\ r.menu = calls[c].menu /\ r.number = calls[c].number
            /\ r.request = calls[c].request /\ r.asOf = calls[c].asOf /\ r.answer = calls[c].answer
        BY <1>1, <3>2, CallTyped DEF CallRecord
      <3>4. calls' = [calls EXCEPT ![c] = r]
        BY <2>3, <3>2 DEF Refuse
      <3>5. /\ calls' \in Seq(CallRecord) /\ DOMAIN calls' = DOMAIN calls
            /\ calls'[c] = r /\ \A d \in DOMAIN calls : d # c => calls'[d] = calls[d]
        BY <3>1, <3>4
      <3>6. \A d \in DOMAIN calls : CallKept(d) /\ (calls[d].state # "over" => calls'[d].state # "over")
        BY <3>1, <3>3, <3>5 DEF CallKept, KeptName
      <3>7. CallsGo({})
        BY <3>1, <3>5, <3>6 DEF CallsGo
      <3>8. Spins'
        BY <1>1, <3>1, <3>6, <3>7, SpinsGoes DEF ContextInv, NewestLoad, Reads, InFlight
      <3>9. \A d \in DOMAIN calls' : calls'[d].kind # "load" => calls'[d].menu \in MenuId
        BY <1>1, <3>7 DEF ContextShape, CallsGo, CallKept, KeptName
      <3> QED  BY <1>1, <3>1, <3>5, <3>7, <3>8, <3>9 DEF ContextShape
    <2> QED  BY <2>1, <2>2, <2>3 DEF StandsStill
  <1>3. ContextShape'
    BY <1>1, <1>2 DEF ContextShape, StandsStill, refs
  <1>4. ServerGoes /\ SeenGoes
    BY DEF StandsStill, ServerGoes, SeenGoes
  <1>5. \A i \in MenuId : menus'[i] # 0 \/ menuId' = i => menus[i] # 0 \/ menuId = i
    BY DEF StandsStill
  <1>6. \A i \in MenuId : menus'[i] # 0 \/ menuId' = i => Lived(i)'
    BY <1>2, <1>5, KnownLived
  <1>7. LatestStands' /\ appliedLoad' <= sequence'
    BY <1>2, BoundsGo DEF StandsStill, refs
  <1> QED  BY <1>2, <1>3, <1>4, <1>5, <1>6, <1>7, ContextGoes

(* The server answers.                                                     *)
LEMMA AnswerFrame ==
  ASSUME ContextInv, NEW c \in DOMAIN calls, Answer(c)
  PROVE  /\ server' \in [MenuId -> Version]
         /\ calls[c].state = "sent" /\ calls' \in Seq(CallRecord) /\ DOMAIN calls' = DOMAIN calls
         /\ \A d \in DOMAIN calls : d # c => calls'[d] = calls[d]
         /\ calls'[c].kind = calls[c].kind /\ calls'[c].menu = calls[c].menu /\ calls'[c].number = calls[c].number
         /\ calls'[c].request = calls[c].request /\ calls'[c].asOf = calls[c].asOf
         /\ calls'[c].state = "answered" /\ calls'[c].answer = server'
         /\ calls[c].kind \in {"load", "refresh"} => server' = server
         /\ calls[c].kind = "refresh" => server[calls[c].menu] # 0
         /\ calls[c].kind = "save" => /\ MayWrite(calls[c].menu) /\ server'[calls[c].menu] = server[calls[c].menu] + 1
                                      /\ \A m \in MenuId : m # calls[c].menu => server'[m] = server[m]
         /\ \A m \in MenuId : \/ server'[m] = server[m]
                              \/ calls[c].kind = "save" /\ calls[c].menu = m /\ server[m] # 0 /\ server'[m] = server[m] + 1
                              \/ calls[c].kind = "delete" /\ server[m] # 0 /\ server'[m] = 0
                              \/ Created(c, m) /\ server'[m] = 1
  <1> DEFINE m == calls[c].menu
             after == CASE calls[c].kind = "save"   -> [server EXCEPT ![m] = @ + 1]
                        [] calls[c].kind = "create" -> [server EXCEPT ![m] = 1]
                        [] calls[c].kind = "delete" -> [server EXCEPT ![m] = 0]
                        [] OTHER                    -> server
  <1>1. /\ ContextShape /\ server \in [MenuId -> Version] /\ calls \in Seq(CallRecord)
        /\ calls[c] \in CallRecord /\ calls[c].kind \in Kinds /\ (calls[c].kind # "load" => m \in MenuId)
        /\ \A i \in MenuId : server[i] \in Nat
    <2>1. ContextShape
      BY DEF ContextInv
    <2> QED  BY <2>1, CallTyped, VersionsCount DEF ContextShape, CallRecord
  <1>2. /\ calls[c].state = "sent" /\ server' = after
        /\ calls' = [calls EXCEPT ![c].state = "answered", ![c].answer = after]
        /\ (calls[c].kind = "save" => MayWrite(m))
        /\ (calls[c].kind \in {"refresh", "delete"} => server[m] # 0)
    BY DEF Answer
  <1>3. MaxVersion \in Nat /\ 0 \in Version /\ 1 \in Version /\ \A v \in 1..(MaxVersion - 1) : v + 1 \in Version
    BY ContextConstants DEF Version
  <1>4. /\ server' \in [MenuId -> Version]
        /\ calls[c].kind \in {"load", "refresh"} => server' = server
        /\ calls[c].kind = "save" => /\ server'[m] = server[m] + 1
                                     /\ \A i \in MenuId : i # m => server'[i] = server[i]
        /\ \A i \in MenuId : \/ server'[i] = server[i]
                             \/ calls[c].kind = "save" /\ m = i /\ server[i] # 0 /\ server'[i] = server[i] + 1
                             \/ calls[c].kind = "delete" /\ server[i] # 0 /\ server'[i] = 0
                             \/ Created(c, i) /\ server'[i] = 1
    <2>1. CASE calls[c].kind = "save"
      <3>1. m \in MenuId /\ server[m] \in 1..(MaxVersion - 1)
        BY <1>1, <1>2, <2>1 DEF MayWrite
      <3>2. PICK v \in Version : v = server[m] + 1
        BY <1>3, <3>1
      <3>3. server' = [server EXCEPT ![m] = v]
        BY <1>1, <1>2, <2>1, <3>2
      <3>4. server' \in [MenuId -> Version] /\ server'[m] = v /\ \A i \in MenuId : i # m => server'[i] = server[i]
        BY <1>1, <3>1, <3>3
      <3> HIDE DEF m
      <3> QED  BY <1>3, <2>1, <3>1, <3>2, <3>4
    <2>2. CASE calls[c].kind = "create"
      <3>1. server' = [server EXCEPT ![m] = 1] /\ m \in MenuId
        BY <1>1, <1>2, <2>2
      <3>2. server' \in [MenuId -> Version] /\ server'[m] = 1 /\ \A i \in MenuId : i # m => server'[i] = server[i]
        BY <1>1, <1>3, <3>1
      <3> QED  BY <2>2, <3>2 DEF Created
    <2>3. CASE calls[c].kind = "delete"
      <3>1. server' = [server EXCEPT ![m] = 0] /\ m \in MenuId /\ server[m] # 0
        BY <1>1, <1>2, <2>3
      <3>2. server' \in [MenuId -> Version] /\ server'[m] = 0 /\ \A i \in MenuId : i # m => server'[i] = server[i]
        BY <1>1, <1>3, <3>1
      <3> QED  BY <2>3, <3>1, <3>2
    <2>4. CASE calls[c].kind \in {"load", "refresh"}
      <3>1. server' = server
        BY <1>2, <2>4
      <3> QED  BY <1>1, <2>4, <3>1
    <2> QED  BY <1>1, <2>1, <2>2, <2>3, <2>4 DEF Kinds
  <1>5. PICK k \in CallRecord : k = [calls[c] EXCEPT !.state = "answered", !.answer = server']
    <2>1. PICK s \in [MenuId -> Version] : s = server'
      BY <1>4
    <2> QED  BY <1>1, <2>1 DEF CallRecord
  <1>6. /\ k.kind = calls[c].kind /\ k.menu = calls[c].menu /\ k.number = calls[c].number
        /\ k.request = calls[c].request /\ k.asOf = calls[c].asOf /\ k.state = "answered" /\ k.answer = server'
    BY <1>1, <1>5 DEF CallRecord
  <1>7. calls' = [calls EXCEPT ![c] = k]
    <2> HIDE DEF after
    <2> QED  BY <1>1, <1>2, <1>5
  <1>8. /\ calls' \in Seq(CallRecord) /\ DOMAIN calls' = DOMAIN calls /\ calls'[c] = k
        /\ \A d \in DOMAIN calls : d # c => calls'[d] = calls[d]
    BY <1>1, <1>7
  <1> QED  BY <1>2, <1>4, <1>6, <1>8

LEMMA AnswerKeeps ==
  ASSUME ContextInv, NEW c \in DOMAIN calls, Answer(c)
  PROVE  /\ ContextInv' /\ \A m \in MenuId : Dead(m) => Dead(m)'
  <1>1. /\ ContextShape /\ Existence /\ Known /\ Ages /\ Orders /\ Requests /\ Spins /\ Chosen
    BY DEF ContextInv
  <1>2. /\ server' \in [MenuId -> Version]
        /\ calls[c].state = "sent" /\ calls' \in Seq(CallRecord) /\ DOMAIN calls' = DOMAIN calls
        /\ \A d \in DOMAIN calls : d # c => calls'[d] = calls[d]
        /\ calls'[c].kind = calls[c].kind /\ calls'[c].menu = calls[c].menu /\ calls'[c].number = calls[c].number
        /\ calls'[c].request = calls[c].request /\ calls'[c].asOf = calls[c].asOf
        /\ calls'[c].state = "answered" /\ calls'[c].answer = server'
    BY AnswerFrame
  <1>3. UNCHANGED <<menus, menuId, loading, error, request, sequence, latestMenu, appliedLoad, seen>>
    BY DEF Answer, refs
  <1>4. \A d \in DOMAIN calls :
          /\ calls'[d].kind = calls[d].kind /\ calls'[d].menu = calls[d].menu /\ calls'[d].number = calls[d].number
          /\ calls'[d].request = calls[d].request /\ calls'[d].asOf = calls[d].asOf
          /\ calls[d].state = "over" <=> calls'[d].state = "over"
          /\ calls[d].state # "sent" => calls'[d].state # "sent"
    BY <1>2
  <1>5. ContextShape'
    BY <1>1, <1>2, <1>3, <1>4 DEF ContextShape
  <1>6. /\ Reads' = Reads /\ Reads \subseteq DOMAIN calls
        /\ \A d \in DOMAIN calls : NewestLoad(d)' <=> NewestLoad(d)
    BY <1>2, <1>3, <1>4 DEF Reads, InFlight, NewestLoad, Newest
  <1>7. \A m \in MenuId : Lived(m) => Lived(m)'
    BY <1>2, <1>4, LivedStays DEF KeptName
  <1>8. \A m \in MenuId : /\ server[m] \in Nat /\ server'[m] \in Nat /\ seen[m] \in Nat
                          /\ server[m] # 0 => Lived(m)
    BY <1>1, <1>5, VersionsCount DEF ContextShape, Existence
  <1>9. \A m \in MenuId : Created(c, m) => ~Lived(m)
    BY <1>1, <1>2 DEF Lived, Existence
  <1>10. \A m \in MenuId : /\ Dead(m) => server'[m] = 0
                           /\ server'[m] >= server[m] \/ (server'[m] = 0 /\ Lived(m))
                           /\ server'[m] # 0 => Lived(m)'
    <2> SUFFICES ASSUME NEW m \in MenuId
                 PROVE  /\ Dead(m) => server'[m] = 0
                        /\ server'[m] >= server[m] \/ (server'[m] = 0 /\ Lived(m))
                        /\ server'[m] # 0 => Lived(m)'
      OBVIOUS
    <2>1. CASE server'[m] = server[m]
      BY <1>7, <1>8, <2>1 DEF Dead
    <2>2. CASE server[m] # 0 /\ server'[m] = server[m] + 1
      BY <1>7, <1>8, <2>2 DEF Dead
    <2>3. CASE server[m] # 0 /\ server'[m] = 0
      BY <1>8, <2>3 DEF Dead
    <2>4. CASE Created(c, m) /\ server'[m] = 1
      <3>1. ~Lived(m) /\ server[m] = 0
        BY <1>8, <1>9, <2>4
      <3>2. Lived(m)'
        BY <1>2, <2>4 DEF Lived, Created
      <3> QED  BY <2>4, <3>1, <3>2 DEF Dead
    <2> QED  BY <2>1, <2>2, <2>3, <2>4, AnswerFrame
  <1>11. \A m \in MenuId : Dead(m) => Dead(m)'
    BY <1>7, <1>10 DEF Dead
  <1>12. \A m \in MenuId, v \in Nat : v <= server[m] \/ Dead(m) => v <= server'[m] \/ Dead(m)'
    <2> SUFFICES ASSUME NEW m \in MenuId, NEW v \in Nat, v <= server[m] \/ Dead(m)
                 PROVE  v <= server'[m] \/ Dead(m)'
      OBVIOUS
    <2>1. CASE Dead(m)
      BY <1>11, <2>1
    <2>2. CASE v <= server[m] /\ server'[m] >= server[m]
      BY <1>8, <2>2
    <2>3. CASE server'[m] = 0 /\ Lived(m)
      BY <1>7, <2>3 DEF Dead
    <2> QED  BY <1>10, <2>1, <2>2, <2>3
  <1>13. Existence'
    BY <1>1, <1>2, <1>4, <1>10 DEF Existence, Created
  <1>14. \A d \in Reads : d # c => calls'[d] = calls[d]
    BY <1>2, <1>6
  <1>15. c \in Reads => server' = server /\ calls'[c].answer = server
    BY <1>2, AnswerFrame DEF Reads
  <1>16. Known'
    <2>1. \A m \in MenuId : menus'[m] # 0 \/ menuId' = m => Lived(m)'
      BY <1>1, <1>3, <1>7 DEF Known
    <2>2. ASSUME NEW d \in Reads, NEW m \in MenuId, calls'[d].answer[m] # 0  PROVE Lived(m)'
      BY <1>1, <1>7, <1>8, <1>14, <1>15, <2>2 DEF Known
    <2> QED  BY <1>6, <2>1, <2>2 DEF Known
  <1>17. Ages'
    <2>1. \A d \in Reads, m \in MenuId : calls[d].asOf[m] \in Nat /\ calls[d].answer[m] \in Nat
      BY <1>1, <1>6, CallTyped
    <2>2. \A m \in MenuId : seen'[m] <= server'[m] \/ Dead(m)'
      BY <1>1, <1>3, <1>8, <1>12 DEF Ages
    <2>3. \A d \in Reads, m \in MenuId : calls'[d].asOf[m] <= server'[m] \/ Dead(m)'
      BY <1>1, <1>4, <1>6, <1>12, <2>1 DEF Ages
    <2>4. ASSUME NEW d \in Reads, NEW m \in MenuId
          PROVE  calls'[d].answer[m] = 0 \/ calls'[d].asOf[m] <= calls'[d].answer[m]
      <3>1. CASE d = c
        BY <1>1, <1>4, <1>6, <1>15, <3>1 DEF Ages, Dead
      <3>2. CASE d # c
        BY <1>1, <1>14, <3>2 DEF Ages
      <3> QED  BY <3>1, <3>2
    <2>5. ASSUME NEW b \in Reads, NEW d \in Reads, NEW m \in MenuId, b < d
          PROVE  calls'[b].asOf[m] <= calls'[d].asOf[m] \/ DeadFor(d, m)'
      <3>1. calls[b].asOf[m] <= calls[d].asOf[m] \/ DeadFor(d, m)
        BY <1>1, <2>5 DEF Ages
      <3>2. DeadFor(d, m) => DeadFor(d, m)'
        BY <1>11, <1>14, <1>15 DEF DeadFor, Dead
      <3> QED  BY <1>4, <1>6, <3>1, <3>2
    <2>6. ASSUME NEW d \in Reads, calls'[d].kind = "refresh", calls'[d].state = "answered"
          PROVE  calls'[d].answer[calls'[d].menu] # 0
      <3>1. CASE d = c
        BY <1>2, <1>15, <2>6, <3>1, AnswerFrame
      <3>2. CASE d # c
        BY <1>1, <1>14, <2>6, <3>2 DEF Ages
      <3> QED  BY <3>1, <3>2
    <2>7. ASSUME NEW s \in DOMAIN calls, NEW m \in MenuId, Stored(s)', calls'[s].menu = m
          PROVE  calls'[s].answer[m] # 0 /\ (calls'[s].answer[m] <= server'[m] \/ Dead(m)')
      <3>1. CASE s = c
        <4>1. calls[c].kind = "save" /\ calls[c].menu = m
          BY <1>2, <2>7, <3>1 DEF Stored
        <4>2. server'[m] = server[m] + 1
          BY <4>1, AnswerFrame
        <4> QED  BY <1>2, <1>8, <3>1, <4>2
      <3>2. CASE s # c
        <4>1. Stored(s) /\ calls[s].menu = m /\ calls'[s] = calls[s] /\ calls[s].answer[m] \in Nat
          BY <1>1, <1>2, <2>7, <3>2, CallTyped DEF Stored
        <4> QED  BY <1>1, <1>12, <4>1 DEF Ages
      <3> QED  BY <3>1, <3>2
    <2> QED  BY <1>2, <1>6, <2>2, <2>3, <2>4, <2>5, <2>6, <2>7 DEF Ages
  <1>18. Orders' /\ Requests'
    BY <1>1, <1>3, <1>4, <1>6 DEF Orders, LatestStands, Requests
  <1>19. Spins'
    BY <1>1, <1>2, <1>3, <1>6 DEF Spins
  <1>20. Chosen'
    <2> SUFFICES ASSUME NEW d \in Reads, NEW m \in MenuId, NewestLoad(d), calls'[d].state = "answered",
                        menus[m] # 0 \/ menuId = m
                 PROVE  calls'[d].answer[m] # 0 \/ Dead(m)'
      BY <1>3, <1>6 DEF Chosen
    <2>1. CASE d = c
      BY <1>1, <1>8, <1>11, <1>15, <2>1 DEF Known, Dead
    <2>2. CASE d # c
      BY <1>1, <1>11, <1>14, <2>2 DEF Chosen
    <2> QED  BY <2>1, <2>2
  <1> QED  BY <1>5, <1>11, <1>13, <1>16, <1>17, <1>18, <1>19, <1>20 DEF ContextInv

(* The answers that change the list.                                        *)
LEMMA LoadLandsKeeps ==
  ASSUME ContextInv, NEW c \in DOMAIN calls, LoadLands(c), Newest(c)
  PROVE  /\ ContextInv' /\ CallsGo({}) /\ NewestLoad(c) /\ \A d \in Reads : ~NewestLoad(d)'
  <1>1. /\ calls[c].state = "answered" /\ calls[c].kind = "load" /\ calls' = Over(c)
        /\ appliedLoad' = Higher(appliedLoad, calls[c].number)
        /\ menus' = Merged(c) /\ menuId' = pickMenu(Merged(c), menuId)
        /\ error' = FALSE /\ loading' = FALSE
        /\ seen' = [m \in MenuId |-> Higher(seen[m], calls[c].asOf[m])]
        /\ UNCHANGED <<server, request, sequence, latestMenu>>
    BY DEF LoadLands, Arrived
  <1>2. /\ ContextShape /\ Known /\ Orders /\ Requests
    BY DEF ContextInv
  <1>3. c \in Reads /\ NewestLoad(c)
    BY <1>1 DEF Reads, InFlight, NewestLoad
  <1>4. /\ CallsGo({}) /\ calls' \in Seq(CallRecord)
        /\ \A d \in DOMAIN calls' : calls'[d].kind # "load" => calls'[d].menu \in MenuId
        /\ calls'[c].state = "over"
    <2>1. sequence \in Nat
      BY <1>2 DEF ContextShape
    <2>2. CallsGo({}) /\ calls' \in Seq(CallRecord) /\ calls'[c].state = "over"
      BY <1>1, <1>2, <2>1, LandsFrame, OverFrame
    <2> QED  BY <1>2, <2>2 DEF ContextShape, CallsGo, CallKept, KeptName
  <1>5. calls[c] \in CallRecord /\ calls[c].number \in Nat /\ calls[c].asOf \in [MenuId -> Version] /\ calls[c].answer \in [MenuId -> Version]
    BY <1>2, CallTyped DEF CallRecord
  <1>6. Merged(c) \in [MenuId -> Version] /\ \A m \in MenuId : Merged(c)[m] # 0 => calls[c].answer[m] # 0
    <2>1. \A m \in MenuId : latestMenu[m].version \in Version
      BY <1>2 DEF ContextShape
    <2> QED  BY <1>5, <2>1 DEF Merged
  <1>7. /\ menuId' \in MenuId \cup {NoMenu}
        /\ menuId' # NoMenu => Merged(c)[menuId'] # 0
    BY <1>1, <1>2, <1>6, PickMenuTyped DEF ContextShape
  <1>8. seen' \in [MenuId -> Version] /\ appliedLoad' \in Nat
    BY <1>1, <1>2, <1>5 DEF ContextShape, Higher
  <1>9. ContextShape'
    BY <1>1, <1>2, <1>4, <1>6, <1>7, <1>8 DEF ContextShape
  <1>10. ServerGoes /\ SeenGoes
    BY <1>1, <1>3 DEF ServerGoes, SeenGoes, Higher
  <1>11. Spins'
    BY <1>1, <1>2, <1>3, <1>4, SpinsGoes DEF ContextInv
  <1>12. \A m \in MenuId : menus'[m] # 0 \/ menuId' = m => Lived(m)'
    <2> SUFFICES ASSUME NEW m \in MenuId, menus'[m] # 0 \/ menuId' = m  PROVE Lived(m)'
      OBVIOUS
    <2>1. calls[c].answer[m] # 0
      BY <1>1, <1>6, <1>7, ContextConstants
    <2>2. Lived(m)
      BY <1>2, <1>3, <2>1 DEF Known
    <2> QED  BY <1>4, <2>2, LivedStays DEF CallsGo, CallKept
  <1>13. LatestStands' /\ appliedLoad' <= sequence'
    BY <1>1, <1>2, <1>3, <1>5 DEF Orders, LatestStands, Higher, ContextShape
  <1>14. \A d \in Reads : ~NewestLoad(d)'
    <2> SUFFICES ASSUME NEW d \in Reads, NewestLoad(d)'  PROVE FALSE
      OBVIOUS
    <2>1. d \in Reads' /\ d # c /\ NewestLoad(d)
      BY <1>2, <1>4, ReadsGo DEF NewestLoad, Reads, InFlight
    <2> QED  BY <1>2, <1>3, <2>1 DEF NewestLoad, Newest, Requests
  <1> QED  BY <1>3, <1>4, <1>9, <1>10, <1>11, <1>12, <1>13, <1>14, ContextGoes

LEMMA ShownTyped ==
  ASSUME ContextShape, NEW m \in MenuId, NEW v \in Version
  PROVE  /\ Shown(m, v) \in [MenuId -> Version]
         /\ \A i \in MenuId : i # m => Shown(m, v)[i] = menus[i]
         /\ Shown(m, v)[m] = IF menus[m] = 0 THEN 0 ELSE v
         /\ \A i \in MenuId : Shown(m, v)[i] # 0 => menus[i] # 0
  <1>1. PICK w \in Version : w = IF menus[m] = 0 THEN 0 ELSE v
    BY ContextConstants DEF Version
  <1>2. Shown(m, v) = [menus EXCEPT ![m] = w] /\ menus \in [MenuId -> Version]
    BY <1>1 DEF Shown, ContextShape
  <1> QED  BY <1>1, <1>2

LEMMA LatestTyped ==
  ASSUME ContextShape, NEW m \in MenuId, NEW k \in Nat, NEW v \in Version,
         latestMenu' = [latestMenu EXCEPT ![m] = [number |-> k, version |-> v]]
  PROVE  /\ latestMenu' \in [MenuId -> [number : Nat, version : Version]]
         /\ latestMenu'[m].number = k /\ latestMenu'[m].version = v
         /\ \A i \in MenuId : i # m => latestMenu'[i] = latestMenu[i]
  <1>1. PICK e \in [number : Nat, version : Version] : e = [number |-> k, version |-> v]
    OBVIOUS
  <1>2. e.number = k /\ e.version = v
    BY <1>1
  <1>3. latestMenu' = [latestMenu EXCEPT ![m] = e] /\ latestMenu \in [MenuId -> [number : Nat, version : Version]]
    BY <1>1 DEF ContextShape
  <1> QED  BY <1>2, <1>3

LEMMA SeenTyped ==
  ASSUME ContextShape, NEW m \in MenuId, NEW v \in Version, seen' = [seen EXCEPT ![m] = Higher(@, v)]
  PROVE  /\ seen' \in [MenuId -> Version] /\ seen'[m] = Higher(seen[m], v)
         /\ seen'[m] = seen[m] \/ seen'[m] = v
         /\ \A i \in MenuId : i # m => seen'[i] = seen[i]
  <1>1. PICK w \in Version : w = Higher(seen[m], v)
    BY DEF Higher, ContextShape
  <1>2. seen' = [seen EXCEPT ![m] = w] /\ seen \in [MenuId -> Version]
    BY <1>1 DEF ContextShape
  <1>3. w = seen[m] \/ w = v
    BY <1>1 DEF Higher
  <1> QED  BY <1>1, <1>2, <1>3

LEMMA RefreshLandsFrame ==
  ASSUME ContextInv, NEW c \in DOMAIN calls, RefreshLands(c), NEW m, m = calls[c].menu
  PROVE  /\ ContextInv' /\ CallsGo({}) /\ c \in Reads /\ m \in MenuId /\ calls'[c].state = "over"
         /\ \A d \in DOMAIN calls : d # c => calls'[d] = calls[d]
         /\ calls[c].kind = "refresh" /\ calls[c].state = "answered"
         /\ UNCHANGED <<server, menuId, request, sequence, appliedLoad>>
         /\ seen'[m] = Higher(seen[m], calls[c].asOf[m]) /\ \A i \in MenuId : i # m => seen'[i] = seen[i]
         /\ \/ OutOfDate(c) /\ UNCHANGED <<menus, latestMenu>>
            \/ /\ ~OutOfDate(c)
               /\ latestMenu'[m].number = calls[c].number /\ latestMenu'[m].version = calls[c].answer[m]
               /\ menus'[m] = IF menus[m] = 0 THEN 0 ELSE calls[c].answer[m]
               /\ \A i \in MenuId : i # m => menus'[i] = menus[i] /\ latestMenu'[i] = latestMenu[i]
  <1>1. /\ calls[c].kind = "refresh" /\ calls[c].state = "answered" /\ calls' = Over(c)
        /\ seen' = [seen EXCEPT ![m] = Higher(@, calls[c].asOf[m])]
        /\ \/ OutOfDate(c) /\ UNCHANGED <<menus, latestMenu>>
           \/ /\ ~OutOfDate(c) /\ menus' = Shown(m, calls[c].answer[m])
              /\ latestMenu' = [latestMenu EXCEPT ![m] = [number |-> calls[c].number, version |-> calls[c].answer[m]]]
        /\ UNCHANGED <<server, menuId, loading, error, request, sequence, appliedLoad>>
    BY DEF RefreshLands, Arrived
  <1>2. /\ ContextShape /\ Known /\ Ages /\ Orders /\ Requests
    BY DEF ContextInv
  <1>3. c \in Reads
    BY <1>1 DEF Reads, InFlight
  <1>4. /\ CallsGo({}) /\ calls' \in Seq(CallRecord) /\ calls'[c].state = "over"
        /\ \A d \in DOMAIN calls : d # c => calls'[d] = calls[d]
        /\ \A d \in DOMAIN calls' : calls'[d].kind # "load" => calls'[d].menu \in MenuId
    <2>1. sequence \in Nat
      BY <1>2 DEF ContextShape
    <2>2. /\ CallsGo({}) /\ calls' \in Seq(CallRecord) /\ calls'[c].state = "over"
          /\ \A d \in DOMAIN calls : d # c => calls'[d] = calls[d]
      BY <1>1, <1>2, <2>1, LandsFrame, OverFrame
    <2> QED  BY <1>2, <2>2 DEF ContextShape, CallsGo, CallKept, KeptName
  <1>5. m \in MenuId /\ calls[c].number \in Nat /\ calls[c].asOf[m] \in Version /\ calls[c].answer[m] \in Version
    BY <1>1, <1>2, CallTyped DEF CallRecord
  <1>6. /\ seen' \in [MenuId -> Version] /\ seen'[m] = Higher(seen[m], calls[c].asOf[m])
        /\ seen'[m] = seen[m] \/ seen'[m] = calls[c].asOf[m]
        /\ \A i \in MenuId : i # m => seen'[i] = seen[i]
    <2>1. PICK v \in Version : v = calls[c].asOf[m]
      BY <1>5
    <2>2. seen' = [seen EXCEPT ![m] = Higher(@, v)]
      BY <1>1, <2>1
    <2> QED  BY <1>2, <1>5, <2>1, <2>2, SeenTyped
  <1>7. /\ menus' \in [MenuId -> Version] /\ \A i \in MenuId : menus'[i] # 0 => menus[i] # 0
    <2>1. CASE menus' = menus
      BY <1>2, <2>1 DEF ContextShape
    <2>2. CASE menus' = Shown(m, calls[c].answer[m])
      BY <1>2, <1>5, <2>2, ShownTyped
    <2> QED  BY <1>1, <2>1, <2>2
  <1>8. /\ latestMenu' \in [MenuId -> [number : Nat, version : Version]]
        /\ \A i \in MenuId : \/ latestMenu'[i] = latestMenu[i]
                             \/ latestMenu'[i].number = calls[c].number /\ latestMenu'[i].version = calls[c].answer[m]
    <2>1. CASE latestMenu' = latestMenu
      BY <1>2, <2>1 DEF ContextShape
    <2>2. CASE latestMenu' = [latestMenu EXCEPT ![m] = [number |-> calls[c].number, version |-> calls[c].answer[m]]]
      BY <1>2, <1>5, <2>2, LatestTyped
    <2> QED  BY <1>1, <2>1, <2>2
  <1>9. ContextShape'
    BY <1>1, <1>2, <1>4, <1>6, <1>7, <1>8 DEF ContextShape
  <1>10. ServerGoes /\ SeenGoes
    BY <1>1, <1>3, <1>6 DEF ServerGoes, SeenGoes
  <1>11. Spins'
    <2>1. \A d \in DOMAIN calls : NewestLoad(d) => calls'[d].state # "over"
      BY <1>1, <1>4 DEF NewestLoad, Reads, InFlight
    <2> QED  BY <1>1, <1>2, <1>4, <2>1, SpinsGoes DEF ContextInv
  <1>12. \A i \in MenuId : menus'[i] # 0 \/ menuId' = i => menus[i] # 0 \/ menuId = i
    BY <1>1, <1>7
  <1>13. \A i \in MenuId : menus'[i] # 0 \/ menuId' = i => Lived(i)'
    BY <1>4, <1>12, KnownLived
  <1>14. LatestStands' /\ appliedLoad' <= sequence'
    <2>1. calls[c].answer[m] # 0 /\ calls[c].number <= sequence
      BY <1>1, <1>2, <1>3 DEF Ages, Orders
    <2>2. LatestStands'
      BY <1>1, <1>2, <1>8, <2>1 DEF Orders, LatestStands
    <2> QED  BY <1>1, <1>2, <2>2 DEF Orders
  <1>15. ContextInv'
    BY <1>4, <1>9, <1>10, <1>11, <1>12, <1>13, <1>14, ContextGoes
  <1>16. \/ OutOfDate(c) /\ UNCHANGED <<menus, latestMenu>>
         \/ /\ ~OutOfDate(c)
            /\ latestMenu'[m].number = calls[c].number /\ latestMenu'[m].version = calls[c].answer[m]
            /\ menus'[m] = IF menus[m] = 0 THEN 0 ELSE calls[c].answer[m]
            /\ \A i \in MenuId : i # m => menus'[i] = menus[i] /\ latestMenu'[i] = latestMenu[i]
    <2>1. CASE OutOfDate(c) /\ UNCHANGED <<menus, latestMenu>>
      BY <2>1
    <2>2. CASE /\ ~OutOfDate(c) /\ menus' = Shown(m, calls[c].answer[m])
               /\ latestMenu' = [latestMenu EXCEPT ![m] = [number |-> calls[c].number, version |-> calls[c].answer[m]]]
      <3>1. /\ menus'[m] = IF menus[m] = 0 THEN 0 ELSE calls[c].answer[m]
            /\ \A i \in MenuId : i # m => menus'[i] = menus[i]
        <4>1. PICK v \in Version : v = calls[c].answer[m]
          BY <1>5
        <4>2. menus' = Shown(m, v)
          BY <2>2, <4>1
        <4>3. /\ Shown(m, v)[m] = IF menus[m] = 0 THEN 0 ELSE v
              /\ \A i \in MenuId : i # m => Shown(m, v)[i] = menus[i]
          BY <1>2, <1>5, ShownTyped
        <4> QED  BY <4>1, <4>2, <4>3
      <3>2. /\ latestMenu'[m].number = calls[c].number /\ latestMenu'[m].version = calls[c].answer[m]
            /\ \A i \in MenuId : i # m => latestMenu'[i] = latestMenu[i]
        BY <1>2, <1>5, <2>2, LatestTyped
      <3> QED  BY <2>2, <3>1, <3>2
    <2> QED  BY <1>1, <2>1, <2>2
  <1> QED  BY <1>1, <1>3, <1>4, <1>5, <1>6, <1>15, <1>16

LEMMA SaveLandsFrame ==
  ASSUME ContextInv, NEW c \in DOMAIN calls, SaveLands(c), NEW m, m = calls[c].menu
  PROVE  /\ ContextInv' /\ CallsGo({}) /\ Stored(c) /\ m \in MenuId /\ calls'[c].state = "over"
         /\ UNCHANGED <<server, menuId, request, appliedLoad>> /\ sequence' = sequence + 1
         /\ seen'[m] = Higher(seen[m], calls[c].answer[m]) /\ \A i \in MenuId : i # m => seen'[i] = seen[i]
         /\ latestMenu'[m].number = sequence + 1 /\ latestMenu'[m].version = calls[c].answer[m]
         /\ menus'[m] = IF menus[m] = 0 THEN 0 ELSE calls[c].answer[m]
         /\ \A i \in MenuId : i # m => menus'[i] = menus[i] /\ latestMenu'[i] = latestMenu[i]
  <1>1. /\ calls[c].kind = "save" /\ calls[c].state = "answered" /\ calls' = Over(c)
        /\ seen' = [seen EXCEPT ![m] = Higher(@, calls[c].answer[m])]
        /\ menus' = Shown(m, calls[c].answer[m])
        /\ latestMenu' = [latestMenu EXCEPT ![m] = [number |-> sequence + 1, version |-> calls[c].answer[m]]]
        /\ UNCHANGED <<server, menuId, loading, error, request, appliedLoad>> /\ sequence' = sequence + 1
    BY DEF SaveLands, Arrived
  <1>2. /\ ContextShape /\ Known /\ Ages /\ Orders /\ Requests
    BY DEF ContextInv
  <1>3. Stored(c)
    BY <1>1 DEF Stored
  <1>4. /\ CallsGo({}) /\ calls' \in Seq(CallRecord) /\ calls'[c].state = "over"
        /\ \A d \in DOMAIN calls : d # c => calls'[d] = calls[d]
        /\ \A d \in DOMAIN calls' : calls'[d].kind # "load" => calls'[d].menu \in MenuId
        /\ sequence \in Nat /\ sequence + 1 \in Nat
    <2>1. sequence \in Nat /\ sequence + 1 \in Nat /\ sequence <= sequence + 1
      BY <1>2 DEF ContextShape
    <2>2. /\ CallsGo({}) /\ calls' \in Seq(CallRecord) /\ calls'[c].state = "over"
          /\ \A d \in DOMAIN calls : d # c => calls'[d] = calls[d]
      BY <1>1, <1>2, <2>1, LandsFrame, OverFrame
    <2> QED  BY <1>2, <2>1, <2>2 DEF ContextShape, CallsGo, CallKept, KeptName
  <1>5. m \in MenuId /\ calls[c].answer[m] \in Version
    BY <1>1, <1>2, CallTyped DEF CallRecord
  <1>6. /\ seen' \in [MenuId -> Version] /\ seen'[m] = Higher(seen[m], calls[c].answer[m])
        /\ seen'[m] = seen[m] \/ seen'[m] = calls[c].answer[m]
        /\ \A i \in MenuId : i # m => seen'[i] = seen[i]
    BY <1>1, <1>2, <1>5, SeenTyped
  <1>7. /\ menus' \in [MenuId -> Version] /\ \A i \in MenuId : menus'[i] # 0 => menus[i] # 0
        /\ menus'[m] = IF menus[m] = 0 THEN 0 ELSE calls[c].answer[m]
        /\ \A i \in MenuId : i # m => menus'[i] = menus[i]
    BY <1>1, <1>2, <1>5, ShownTyped
  <1>8. /\ latestMenu' \in [MenuId -> [number : Nat, version : Version]]
        /\ latestMenu'[m].number = sequence + 1 /\ latestMenu'[m].version = calls[c].answer[m]
        /\ \A i \in MenuId : i # m => latestMenu'[i] = latestMenu[i]
    BY <1>1, <1>2, <1>4, <1>5, LatestTyped
  <1>9. ContextShape'
    BY <1>1, <1>2, <1>4, <1>6, <1>7, <1>8 DEF ContextShape
  <1>10. ServerGoes /\ SeenGoes
    BY <1>1, <1>3, <1>6 DEF ServerGoes, SeenGoes
  <1>11. Spins'
    <2>1. \A d \in DOMAIN calls : NewestLoad(d) => calls'[d].state # "over"
      BY <1>1, <1>4 DEF NewestLoad, Reads, InFlight
    <2> QED  BY <1>1, <1>2, <1>4, <2>1, SpinsGoes DEF ContextInv
  <1>12. \A i \in MenuId : menus'[i] # 0 \/ menuId' = i => menus[i] # 0 \/ menuId = i
    BY <1>1, <1>7
  <1>13. \A i \in MenuId : menus'[i] # 0 \/ menuId' = i => Lived(i)'
    BY <1>4, <1>12, KnownLived
  <1>14. LatestStands' /\ appliedLoad' <= sequence'
    <2>1. \A i \in MenuId : /\ latestMenu[i].number \in Nat /\ latestMenu[i].number <= sequence
                            /\ latestMenu[i].number # 0 => latestMenu[i].version # 0
      BY <1>2 DEF ContextShape, Orders, LatestStands
    <2>2. calls[c].answer[m] # 0
      BY <1>2, <1>3, <1>5 DEF Ages
    <2>3. LatestStands'
      BY <1>1, <1>4, <1>8, <2>1, <2>2 DEF LatestStands
    <2> QED  BY <1>1, <1>2, <1>4, <2>3 DEF Orders, ContextShape
  <1>15. ContextInv'
    BY <1>4, <1>9, <1>10, <1>11, <1>12, <1>13, <1>14, ContextGoes
  <1> QED  BY <1>1, <1>3, <1>4, <1>5, <1>6, <1>7, <1>8, <1>15

-----------------------------------------------------------------------------
(* The initial states, and every step.                                      *)
LEMMA ContextBegins ==
  ASSUME ContextInit
  PROVE  ContextInv
  <1>1. MaxVersion \in Nat /\ 0 \in Version /\ 1 \in Version
    BY ContextConstants DEF Version
  <1>2. /\ server \in [MenuId -> Version] /\ menus \in [MenuId -> Version] /\ seen \in [MenuId -> Version]
        /\ latestMenu \in [MenuId -> [number : Nat, version : Version]]
        /\ \A m \in MenuId : /\ server[m] = (IF m \in MenusAtStart THEN 1 ELSE 0) /\ menus[m] = 0 /\ seen[m] = 0
                             /\ latestMenu[m].number = 0
    BY <1>1 DEF ContextInit, Zero
  <1>3. PICK k \in CallRecord : k = Sent("load", NoMenu, 0, 1)
    <2>1. Zero \in [MenuId -> Version]
      BY <1>1 DEF Zero
    <2> QED  BY <1>2, <2>1 DEF Sent, CallRecord, Kinds
  <1>4. /\ k.kind = "load" /\ k.number = 0 /\ k.request = 1 /\ k.asOf = server /\ k.answer = Zero /\ k.state = "sent"
    BY <1>3 DEF Sent
  <1>5. calls \in Seq(CallRecord) /\ DOMAIN calls = {1} /\ calls[1] = k
    BY <1>3 DEF ContextInit
  <1>6. request = 1 /\ sequence = 0 /\ appliedLoad = 0 /\ loading = TRUE /\ error = FALSE /\ menuId \in MenusAtStart \cup {NoMenu}
    BY DEF ContextInit
  <1>7. ContextShape
    BY <1>2, <1>4, <1>5, <1>6, ContextConstants DEF ContextShape
  <1>8. Reads = {1} /\ NewestLoad(1)
    BY <1>4, <1>5, <1>6 DEF Reads, InFlight, NewestLoad, Newest
  <1>9. Existence
    BY <1>2, <1>4, <1>5 DEF Existence, Created, Lived
  <1>10. Known
    <2>1. \A m \in MenuId : menuId = m => m \in MenusAtStart
      BY <1>6, ContextConstants
    <2>2. \A c \in Reads, m \in MenuId : calls[c].answer[m] = 0
      BY <1>4, <1>5, <1>8 DEF Zero
    <2> QED  BY <1>2, <2>1, <2>2 DEF Known, Lived
  <1>11. Ages
    <2>1. \A c \in Reads : c = 1 /\ calls[c].asOf = server /\ calls[c].kind = "load"
      BY <1>4, <1>5, <1>8
    <2>2. \A c \in Reads, m \in MenuId : calls[c].answer[m] = 0
      BY <1>4, <1>5, <1>8 DEF Zero
    <2>3. \A s \in DOMAIN calls : ~Stored(s)
      BY <1>4, <1>5 DEF Stored
    <2> QED  BY <1>2, <2>1, <2>2, <2>3 DEF Ages
  <1>12. Orders /\ Requests
    BY <1>2, <1>4, <1>5, <1>6, <1>8 DEF Orders, LatestStands, Requests
  <1>13. Spins /\ Chosen
    BY <1>4, <1>5, <1>6, <1>8 DEF Spins, Chosen
  <1> QED  BY <1>7, <1>9, <1>10, <1>11, <1>12, <1>13 DEF ContextInv

LEMMA ContextSteps ==
  ASSUME ContextInv, [ContextNext]_contextVars
  PROVE  ContextInv'
  <1>1. ContextShape
    BY DEF ContextInv
  <1>2. ASSUME \/ \E m \in MenuId : setActiveMenuId(m)
               \/ \E c \in DOMAIN calls : \/ Refuse(c) \/ LoadFails(c) \/ CallFails(c)
                                          \/ LoadLands(c) /\ ~Newest(c)
               \/ UNCHANGED contextVars
        PROVE  ContextInv'
    <2>1. StandsStill /\ \A i \in MenuId : menuId' = i => menus[i] # 0 \/ menuId = i
      BY <1>2, QuietSteps
    <2>2. menuId' \in MenuId \cup {NoMenu} /\ error' \in BOOLEAN
      BY <1>1, <1>2 DEF ContextShape, setActiveMenuId, Refuse, LoadFails, CallFails, LoadLands, contextVars, Listed
    <2> QED  BY <2>1, <2>2, QuietKeeps
  <1>3. CASE load \/ saveActiveMenu \/ \E m \in MenuId : refreshMenu(m) \/ createMenu(m) \/ deleteMenu(m)
    BY <1>3, CallsKeep
  <1>4. ASSUME NEW m \in MenuId, OtherWrite(m) \/ OtherDelete(m)  PROVE ContextInv'
    BY <1>4, WritesKeep
  <1>5. ASSUME NEW c \in DOMAIN calls, Answer(c)  PROVE ContextInv'
    BY <1>5, AnswerKeeps
  <1>6. ASSUME NEW c \in DOMAIN calls, LoadLands(c), Newest(c)  PROVE ContextInv'
    BY <1>6, LoadLandsKeeps
  <1>7. ASSUME NEW c \in DOMAIN calls, RefreshLands(c)  PROVE ContextInv'
    <2>1. PICK m : m = calls[c].menu
      OBVIOUS
    <2> QED  BY <1>7, <2>1, RefreshLandsFrame
  <1>8. ASSUME NEW c \in DOMAIN calls, SaveLands(c)  PROVE ContextInv'
    <2>1. PICK m : m = calls[c].menu
      OBVIOUS
    <2> QED  BY <1>8, <2>1, SaveLandsFrame
  <1>9. ASSUME NEW c \in DOMAIN calls, CreateLands(c) \/ DeleteLands(c)  PROVE ContextInv'
    BY <1>9, ReloadsKeep
  <1> QED  BY <1>2, <1>3, <1>4, <1>5, <1>6, <1>7, <1>8, <1>9 DEF ContextNext, Lands, Finished

(* The numbers, the ages and the menus of the calls and of the list of      *)
(* menuContext.jsx keep their order, whatever order answers land in.        *)
THEOREM ContextKeepsInv == ContextSpec => []ContextInv
  <1>1. ContextInit => ContextInv
    BY ContextBegins
  <1>2. ContextInv /\ [ContextNext]_contextVars => ContextInv'
    BY ContextSteps
  <1> QED  BY <1>1, <1>2, PTL DEF ContextSpec

(* Only a write overtakes a menu.                                           *)
LEMMA OvertakenBy ==
  ASSUME [ContextNext]_contextVars
  PROVE  \/ overtaken' = overtaken
         \/ \E m \in MenuId : OtherWrite(m)
         \/ \E c \in DOMAIN calls : Answer(c)
  <1>1. (load \/ saveActiveMenu) => overtaken' = overtaken
    BY DEF load, saveActiveMenu, Begin
  <1>2. ASSUME NEW m \in MenuId, refreshMenu(m) \/ createMenu(m) \/ deleteMenu(m) \/ setActiveMenuId(m) \/ OtherDelete(m)
        PROVE  overtaken' = overtaken
    BY <1>2 DEF refreshMenu, createMenu, deleteMenu, setActiveMenuId, OtherDelete, Begin
  <1>3. ASSUME NEW c \in DOMAIN calls, Refuse(c) \/ Lands(c)  PROVE overtaken' = overtaken
    BY <1>3 DEF Refuse, Lands, LoadLands, LoadFails, RefreshLands, SaveLands, CreateLands, DeleteLands, CallFails
  <1>4. (Finished \/ UNCHANGED contextVars) => overtaken' = overtaken
    BY DEF Finished, contextVars
  <1> QED  BY <1>1, <1>2, <1>3, <1>4 DEF ContextNext

(* Every variable of the menu context keeps its type.                       *)
THEOREM ContextTyping == ContextSpec => []ContextTypeOK
  <1> DEFINE Overtaken == overtaken \subseteq MenuId
  <1>1. ASSUME ContextInv, Overtaken  PROVE ContextTypeOK
    <2>1. ContextShape /\ Orders
      BY <1>1 DEF ContextInv
    <2>2. latestMenu \in [MenuId -> [number : 0..sequence, version : 0..MaxVersion]]
      <3>1. \A m \in MenuId : latestMenu[m] \in [number : 0..sequence, version : 0..MaxVersion]
        BY <2>1 DEF ContextShape, Orders, LatestStands, Version
      <3> QED  BY <2>1, <3>1 DEF ContextShape
    <2>3. calls \in Seq(Call)
      <3>1. Version \subseteq Nat
        BY VersionsCount
      <3>2. CallRecord \subseteq Call
        BY <3>1 DEF CallRecord, Call
      <3>3. \A c \in 1..Len(calls) : calls[c] \in Call
        BY <2>1, <3>2 DEF ContextShape
      <3> QED  BY <2>1, <3>3 DEF ContextShape
    <2> QED  BY <1>1, <2>1, <2>2, <2>3 DEF ContextTypeOK, ContextShape, Orders, Version
  <1>2. ContextInit => Overtaken
    BY DEF ContextInit
  <1>3. ASSUME ContextInv, Overtaken, [ContextNext]_contextVars  PROVE Overtaken'
    <2>1. CASE overtaken' = overtaken
      BY <1>3, <2>1
    <2>2. ASSUME NEW m \in MenuId, OtherWrite(m)  PROVE Overtaken'
      BY <1>3, <2>2 DEF OtherWrite, Overtaking
    <2>3. ASSUME NEW c \in DOMAIN calls, Answer(c)  PROVE Overtaken'
      <3>1. calls[c].kind = "save" => calls[c].menu \in MenuId
        BY <1>3 DEF ContextInv, ContextShape
      <3>2. overtaken' = overtaken \/ (calls[c].kind = "save" /\ overtaken' = Overtaking(calls[c].menu))
        BY <2>3 DEF Answer
      <3> QED  BY <1>3, <3>1, <3>2 DEF Overtaking
    <2>4. \/ overtaken' = overtaken
          \/ \E m \in MenuId : OtherWrite(m)
          \/ \E c \in DOMAIN calls : Answer(c)
      BY <1>3, OvertakenBy
    <2> QED  BY <2>1, <2>2, <2>3, <2>4
  <1> QED  BY <1>1, <1>2, <1>3, ContextKeepsInv, PTL DEF ContextSpec

(* load: loading is TRUE exactly while the newest load is on its way; its   *)
(* answer and its failure both put it out, and no overtaken load does.      *)
THEOREM SpinnerFollows == ContextSpec => []SpinnerFollowsNewestLoad
  <1>1. ASSUME ContextInv  PROVE SpinnerFollowsNewestLoad
    BY <1>1 DEF ContextInv, Spins, SpinnerFollowsNewestLoad, NewestLoad, Reads, InFlight
  <1> QED  BY <1>1, ContextKeepsInv, PTL

(* load, createMenu, deleteMenu: the selection leaves a menu the server     *)
(* still has only by a choice, a creation or a deletion.  A list that lands *)
(* contains the selected menu, or that menu is gone for good.               *)
THEOREM SelectionKept == ContextSpec => SelectionStays
  <1> DEFINE Moved == (menuId # NoMenu /\ menuId' # menuId /\ server[menuId] # 0) =>
                        \/ \E m \in MenuId : setActiveMenuId(m)
                        \/ \E c \in DOMAIN calls : CreateLands(c) \/ DeleteLands(c)
  <1>1. ASSUME ContextInv, [ContextNext]_contextVars  PROVE [Moved]_contextVars
    <2> SUFFICES ASSUME menuId # NoMenu, menuId' # menuId, server[menuId] # 0,
                        \A m \in MenuId : ~setActiveMenuId(m),
                        \A c \in DOMAIN calls : ~CreateLands(c) /\ ~DeleteLands(c)
                 PROVE  FALSE
      OBVIOUS
    <2>1. PICK c \in DOMAIN calls : LoadLands(c) /\ Newest(c)
      <3>1. menuId' # menuId
        OBVIOUS
      <3> QED  BY <1>1, <3>1 DEF ContextNext, Lands, Finished, contextVars, load, Begin, saveActiveMenu, refreshMenu,
                 createMenu, deleteMenu, OtherWrite, OtherDelete, Answer, Refuse, LoadLands, LoadFails,
                 RefreshLands, SaveLands, CallFails
    <2>2. PICK m \in MenuId : m = menuId
      BY <1>1 DEF ContextInv, ContextShape
    <2>3. NewestLoad(c) /\ c \in Reads /\ calls[c].state = "answered" /\ menuId' = pickMenu(Merged(c), menuId)
      BY <2>1 DEF NewestLoad, Reads, InFlight, LoadLands, Arrived
    <2>4. calls[c].answer[m] # 0
      BY <1>1, <2>2, <2>3 DEF ContextInv, Chosen, Dead
    <2>5. /\ latestMenu \in [MenuId -> [number : Nat, version : Version]] /\ calls[c].number \in Nat
          /\ calls[c].answer \in [MenuId -> Version]
          /\ latestMenu[m].number # 0 => latestMenu[m].version # 0
      BY <1>1, CallTyped DEF ContextInv, ContextShape, Orders, LatestStands, CallRecord
    <2>6. Merged(c) \in [MenuId -> Version] /\ Merged(c)[m] # 0
      BY <2>4, <2>5 DEF Merged
    <2> QED  BY <1>1, <2>2, <2>3, <2>6, PickMenuTyped
  <1> QED  BY <1>1, ContextKeepsInv, PTL DEF ContextSpec, SelectionStays

-----------------------------------------------------------------------------
(* FreshInv.  First what it takes from ContextInv.                          *)
LEMMA ContextTypes ==
  ASSUME ContextInv
  PROVE  /\ ContextShape /\ Reads \subseteq DOMAIN calls
         /\ \A c \in DOMAIN calls : calls[c].number \in Nat /\ c \in Nat
         /\ \A c \in DOMAIN calls, m \in MenuId : calls[c].asOf[m] \in Nat /\ calls[c].answer[m] \in Nat
         /\ \A m \in MenuId : /\ server[m] \in Nat /\ menus[m] \in Nat /\ seen[m] \in Nat
                              /\ latestMenu[m].number \in Nat /\ latestMenu[m].version \in Nat
         /\ sequence \in Nat /\ appliedLoad \in Nat
  <1>1. ContextShape
    BY DEF ContextInv
  <1>2. \A m \in MenuId : /\ server[m] \in Nat /\ menus[m] \in Nat /\ seen[m] \in Nat
                          /\ latestMenu[m].number \in Nat /\ latestMenu[m].version \in Nat
    BY <1>1, VersionsCount DEF ContextShape
  <1> QED  BY <1>1, <1>2, CallTyped DEF ContextShape, Reads, InFlight

(* A menu overtaken stays so.                                               *)
LEMMA SteadyBefore ==
  ASSUME ContextNext
  PROVE  \A m \in MenuId : Steady(m)' => Steady(m)
  <1>1. \A m \in MenuId : OtherWrite(m) => overtaken \subseteq overtaken'
    BY DEF OtherWrite, Overtaking
  <1>2. \A c \in DOMAIN calls : Answer(c) => overtaken \subseteq overtaken'
    BY DEF Answer, Overtaking
  <1> QED  BY <1>1, <1>2, OvertakenBy DEF Steady

(* A step of the calls that leaves the list alone.                          *)
LEMMA FreshGoes ==
  ASSUME FreshInv, ContextInv', NEW N, CallsGo(N), ServerGoes, N # {} => server' = server,
         UNCHANGED <<menus, seen, latestMenu, appliedLoad>>,
         \A s \in DOMAIN calls, m \in MenuId :
           Steady(m)' /\ Stored(s) /\ calls[s].menu = m => server'[m] <= server[m],
         \A m \in MenuId : Steady(m)' => Steady(m)
  PROVE  Fresh'
  <1>1. /\ ContextInv /\ ContextShape /\ Ages /\ Orders /\ Requests
        /\ LoadStands /\ RefreshStands /\ SaveStands /\ SteadyStays
        /\ \A m \in MenuId : Steady(m)' => Steady(m)
    BY DEF FreshInv, Fresh, ContextInv
  <1>2. \A m \in MenuId : Dead(m) => Dead(m)'
    BY <1>1, DeadStays DEF ContextInv
  <1>3. ASSUME NEW c \in Reads', c \notin N
        PROVE  /\ c \in Reads /\ c \in DOMAIN calls
               /\ calls'[c].kind = calls[c].kind /\ calls'[c].menu = calls[c].menu /\ calls'[c].number = calls[c].number
               /\ calls'[c].asOf = calls[c].asOf /\ calls'[c].answer = calls[c].answer
    BY <1>1, <1>3, ReadsGo DEF Reads, InFlight
  <1>4. ASSUME NEW c \in Reads', c \in N
        PROVE  /\ calls'[c].asOf = server /\ \A m \in MenuId : calls'[c].answer[m] = 0
               /\ calls'[c].number >= sequence /\ calls'[c].number \in Nat
               /\ calls'[c].kind = "refresh" => calls'[c].number > sequence
    <2>1. calls'[c].kind \in {"load", "refresh"} /\ JustSent(c) /\ sequence \in Nat
      BY <1>1, <1>4 DEF Reads, CallsGo, ContextShape
    <2> QED  BY <2>1 DEF JustSent, Zero
  <1>5. \A m \in MenuId : /\ latestMenu[m].number <= sequence /\ appliedLoad <= sequence
                          /\ latestMenu[m].number \in Nat /\ appliedLoad \in Nat /\ sequence \in Nat
                          /\ seen[m] <= server[m] \/ Dead(m)
    BY <1>1, ContextTypes DEF Orders, LatestStands, Ages
  <1>6. LoadStands'
    <2> SUFFICES ASSUME NEW c \in Reads', NewestLoad(c)', NEW m \in MenuId, Steady(m)'
                 PROVE  /\ appliedLoad <= calls'[c].number
                        /\ seen[m] <= calls'[c].asOf[m] \/ latestMenu[m].number > calls'[c].number \/ DeadFor(c, m)'
                        /\ latestMenu[m].number > calls'[c].number =>
                             latestMenu[m].version >= seen[m] /\ latestMenu[m].version >= calls'[c].asOf[m]
      <3>1. ASSUME NEW c \in Reads', NewestLoad(c)'  PROVE appliedLoad <= calls'[c].number
        <4>1. CASE c \in N
          BY <1>1, <1>4, <4>1, ContextTypes DEF Orders
        <4>2. CASE c \notin N
          BY <1>1, <1>3, <3>1, <4>2, ReadsGo DEF LoadStands
        <4> QED  BY <4>1, <4>2
      <3> QED  BY <3>1 DEF LoadStands
    <2>1. CASE c \in N
      BY <1>2, <1>4, <1>5, <2>1 DEF DeadFor
    <2>2. CASE c \notin N
      <3>1. c \in Reads /\ NewestLoad(c)
        BY <1>1, <2>2, ReadsGo
      <3>2. DeadFor(c, m) => DeadFor(c, m)'
        BY <1>2, <1>3, <2>2 DEF DeadFor
      <3> QED  BY <1>1, <1>3, <2>2, <3>1, <3>2 DEF LoadStands
    <2> QED  BY <2>1, <2>2
  <1>7. RefreshStands'
    <2> SUFFICES ASSUME NEW c \in Reads', NEW m \in MenuId, Steady(m)', calls'[c].kind = "refresh", calls'[c].menu = m
                 PROVE  /\ seen[m] <= calls'[c].asOf[m] \/ OutOfDate(c)' \/ DeadFor(c, m)'
                        /\ latestMenu[m].number > calls'[c].number => latestMenu[m].version >= calls'[c].asOf[m]
                        /\ OutOfDate(c)' /\ menus[m] # 0 => menus[m] >= calls'[c].asOf[m]
      BY DEF RefreshStands
    <2>1. CASE c \in N
      <3>1. ~OutOfDate(c)'
        BY <1>4, <1>5, <2>1 DEF OutOfDate
      <3> QED  BY <1>2, <1>4, <1>5, <2>1, <3>1 DEF DeadFor
    <2>2. CASE c \notin N
      <3>1. c \in Reads /\ calls[c].kind = "refresh" /\ calls[c].menu = m
        BY <1>3, <2>2
      <3>2. DeadFor(c, m) => DeadFor(c, m)'
        BY <1>2, <1>3, <2>2 DEF DeadFor
      <3>3. OutOfDate(c)' <=> OutOfDate(c)
        BY <1>3, <2>2 DEF OutOfDate
      <3> QED  BY <1>1, <1>3, <2>2, <3>1, <3>2, <3>3 DEF RefreshStands
    <2> QED  BY <2>1, <2>2
  <1>8. SaveStands'
    <2>1. \A s \in DOMAIN calls' : Stored(s)' =>
            s \in DOMAIN calls /\ Stored(s) /\ calls'[s].menu = calls[s].menu /\ calls'[s].answer = calls[s].answer
      BY <1>1, ReadsGo
    <2>2. ASSUME NEW s \in DOMAIN calls', NEW z \in DOMAIN calls',
                 Stored(s)', Stored(z)', calls'[s].menu = calls'[z].menu, Steady(calls[s].menu)'
          PROVE  s = z
      <3>1. /\ s \in DOMAIN calls /\ z \in DOMAIN calls /\ Stored(s) /\ Stored(z)
            /\ calls[s].menu = calls[z].menu /\ calls'[s].menu = calls[s].menu /\ calls[s].menu \in MenuId
        BY <1>1, <2>1, <2>2 DEF ContextShape, Stored
      <3> QED  BY <1>1, <2>2, <3>1 DEF SaveStands
    <2>3. ASSUME NEW s \in DOMAIN calls', NEW m \in MenuId, Steady(m)', Stored(s)', calls'[s].menu = m
          PROVE  /\ server'[m] <= calls'[s].answer[m] /\ seen[m] <= calls'[s].answer[m]
                 /\ \A c \in Reads' : calls'[c].asOf[m] <= calls'[s].answer[m]
      <3>1. /\ s \in DOMAIN calls /\ Stored(s) /\ calls[s].menu = m /\ calls'[s].answer = calls[s].answer
            /\ server[m] \in Nat /\ server'[m] \in Nat /\ calls[s].answer[m] \in Nat
        <4>1. s \in DOMAIN calls /\ Stored(s) /\ calls[s].menu = m /\ calls'[s].answer = calls[s].answer
          BY <2>1, <2>3
        <4>2. server'[m] \in Nat
          BY VersionsCount DEF ContextInv, ContextShape
        <4> QED  BY <1>1, <4>1, <4>2, ContextTypes
      <3>2. /\ server[m] <= calls[s].answer[m] /\ seen[m] <= calls[s].answer[m]
            /\ \A c \in Reads : calls[c].asOf[m] <= calls[s].answer[m]
        BY <2>3, <1>1, <3>1 DEF SaveStands
      <3>3. server'[m] <= calls[s].answer[m]
        BY <1>1, <2>3, <3>1, <3>2
      <3>4. ASSUME NEW c \in Reads'  PROVE calls'[c].asOf[m] <= calls[s].answer[m]
        BY <1>3, <1>4, <3>2
      <3> QED  BY <3>1, <3>2, <3>3, <3>4
    <2> QED  BY <2>2, <2>3 DEF SaveStands
  <1>9. SteadyStays'
    BY <1>1 DEF SteadyStays, Listed
  <1> QED  BY <1>6, <1>7, <1>8, <1>9 DEF Fresh

(* An answer from the server; then each landing.                            *)
LEMMA FreshAnswer ==
  ASSUME FreshInv, NEW c \in DOMAIN calls, Answer(c)
  PROVE  Fresh'
  <1>1. /\ ContextInv /\ ContextShape /\ Existence /\ Ages /\ Orders /\ Requests
        /\ LoadStands /\ RefreshStands /\ SaveStands /\ SteadyStays
    BY DEF FreshInv, Fresh, ContextInv
  <1>2. /\ calls[c].state = "sent" /\ DOMAIN calls' = DOMAIN calls
        /\ \A d \in DOMAIN calls : d # c => calls'[d] = calls[d]
        /\ calls'[c].kind = calls[c].kind /\ calls'[c].menu = calls[c].menu /\ calls'[c].number = calls[c].number
        /\ calls'[c].request = calls[c].request /\ calls'[c].asOf = calls[c].asOf
        /\ calls'[c].state = "answered" /\ calls'[c].answer = server'
        /\ (calls[c].kind \in {"load", "refresh"} => server' = server)
    BY <1>1, AnswerFrame
  <1>3. UNCHANGED <<menus, request, sequence, latestMenu, appliedLoad, seen>>
    BY DEF Answer, refs
  <1>4. \A m \in MenuId : Dead(m) => Dead(m)'
    BY <1>1, AnswerKeeps
  <1>5. \A d \in DOMAIN calls :
          /\ calls'[d].kind = calls[d].kind /\ calls'[d].menu = calls[d].menu /\ calls'[d].number = calls[d].number
          /\ calls'[d].request = calls[d].request /\ calls'[d].asOf = calls[d].asOf
          /\ calls[d].state = "over" <=> calls'[d].state = "over"
    BY <1>2
  <1>6. /\ Reads' = Reads /\ Reads \subseteq DOMAIN calls
        /\ \A d \in DOMAIN calls : NewestLoad(d)' <=> NewestLoad(d)
        /\ \A m \in MenuId : Steady(m)' => Steady(m)
    <2>1. ContextNext
      BY DEF ContextNext
    <2> QED  BY <1>2, <1>3, <1>5, <2>1, SteadyBefore DEF Reads, InFlight, NewestLoad, Newest
  <1>7. ASSUME NEW d \in Reads, NEW m \in MenuId, DeadFor(d, m)  PROVE DeadFor(d, m)'
    <2>1. CASE d = c
      BY <1>2, <1>4, <1>7, <2>1 DEF DeadFor, Dead
    <2>2. CASE d # c
      BY <1>2, <1>4, <1>6, <1>7, <2>2 DEF DeadFor
    <2> QED  BY <2>1, <2>2
  <1>8. LoadStands'
    BY <1>1, <1>3, <1>5, <1>6, <1>7 DEF LoadStands
  <1>9. RefreshStands'
    <2>1. \A d \in Reads : OutOfDate(d)' <=> OutOfDate(d)
      BY <1>3, <1>5, <1>6 DEF OutOfDate
    <2> QED  BY <1>1, <1>3, <1>5, <1>6, <1>7, <2>1 DEF RefreshStands
  <1>10. ASSUME NEW s \in DOMAIN calls, Stored(s)', s # c  PROVE Stored(s) /\ calls'[s] = calls[s]
    BY <1>2, <1>10 DEF Stored
  <1>11. ASSUME NEW s \in DOMAIN calls, Stored(s), calls[s].menu = calls[c].menu, Steady(calls[c].menu)'
         PROVE  calls[c].kind # "save"
    <2> SUFFICES ASSUME calls[c].kind = "save"  PROVE FALSE
      OBVIOUS
    <2>1. overtaken' = Overtaking(calls[c].menu)
      BY DEF Answer
    <2>2. SaveUnderWay(calls[c].menu)
      BY <1>11 DEF SaveUnderWay, Stored
    <2> QED  BY <1>2, <1>11, <2>1, <2>2 DEF Overtaking, Steady
  <1>12. ASSUME NEW s \in DOMAIN calls, NEW z \in DOMAIN calls,
                Stored(s)', Stored(z)', calls'[s].menu = calls'[z].menu, Steady(calls[s].menu)'
         PROVE  s = z
    <2>1. /\ calls'[s].menu = calls[s].menu /\ calls'[z].menu = calls[z].menu /\ calls[s].menu = calls[z].menu
          /\ calls[s].menu \in MenuId /\ Steady(calls[s].menu) /\ Steady(calls[s].menu)'
      <3>1. calls'[s].menu = calls[s].menu /\ calls'[z].menu = calls[z].menu /\ calls[s].kind # "load"
        BY <1>5, <1>12 DEF Stored
      <3>2. calls[s].menu \in MenuId
        BY <1>1, <3>1 DEF ContextShape
      <3> QED  BY <1>6, <1>12, <3>1, <3>2
    <2>2. CASE s # c /\ z # c
      <3>1. Stored(s) /\ Stored(z)
        BY <1>10, <1>12, <2>2
      <3> QED  BY <1>1, <2>1, <3>1 DEF SaveStands
    <2>3. CASE s = c /\ z # c
      <3>1. Stored(z) /\ calls[z].menu = calls[c].menu /\ calls[c].kind = "save"
        BY <1>2, <1>10, <1>12, <2>3, <2>1 DEF Stored
      <3> QED  BY <1>11, <2>3, <2>1, <3>1
    <2>4. CASE s # c /\ z = c
      <3>1. Stored(s) /\ calls[s].menu = calls[c].menu /\ calls[c].kind = "save"
        BY <1>2, <1>10, <1>12, <2>4, <2>1 DEF Stored
      <3> QED  BY <1>11, <2>4, <2>1, <3>1
    <2> QED  BY <2>2, <2>3, <2>4
  <1>13. ASSUME NEW s \in DOMAIN calls, NEW m \in MenuId, Steady(m), Steady(m)', Stored(s)', calls'[s].menu = m
         PROVE  /\ server'[m] <= calls'[s].answer[m] /\ seen[m] <= calls'[s].answer[m]
                /\ \A d \in Reads : calls'[d].asOf[m] <= calls'[s].answer[m]
    <2>1. /\ server[m] \in Nat /\ seen[m] \in Nat /\ \A d \in Reads : calls[d].asOf[m] \in Nat
          /\ server'[m] \in Nat
      <3>1. server' \in [MenuId -> Version]
        BY <1>1, AnswerFrame
      <3> QED  BY <1>1, <1>6, <3>1, ContextTypes, VersionsCount
    <2>2. CASE s = c
      <3>1. calls[c].kind = "save" /\ calls[c].menu = m
        BY <1>2, <1>13, <2>2 DEF Stored
      <3>2. server'[m] = server[m] + 1 /\ MayWrite(m)
        BY <1>1, <3>1, AnswerFrame
      <3>3. server[m] # 0 /\ ~Dead(m)
        BY <3>2 DEF MayWrite, Dead
      <3>4. seen[m] <= server[m] /\ \A d \in Reads : calls[d].asOf[m] <= server[m]
        BY <1>1, <3>3 DEF Ages
      <3> QED  BY <1>2, <1>5, <1>6, <2>1, <2>2, <3>2, <3>4
    <2>3. CASE s # c
      <3>1. Stored(s) /\ calls'[s] = calls[s] /\ calls[s].menu = m
        BY <1>10, <1>13, <2>3
      <3>2. /\ server[m] <= calls[s].answer[m] /\ seen[m] <= calls[s].answer[m] /\ calls[s].answer[m] # 0
            /\ \A d \in Reads : calls[d].asOf[m] <= calls[s].answer[m]
            /\ calls[s].answer[m] \in Nat
        BY <1>13, <1>1, <3>1, ContextTypes DEF SaveStands, Ages
      <3>3. server'[m] <= calls[s].answer[m]
        <4>1. ~(calls[c].kind = "save" /\ calls[c].menu = m)
          BY <1>2, <1>13, <1>11, <3>1 DEF Steady
        <4>2. server'[m] = server[m] \/ server'[m] = 0 \/ server'[m] = 1
          BY <1>1, <4>1, AnswerFrame
        <4> QED  BY <2>1, <3>2, <4>2
      <3> QED  BY <1>5, <1>6, <3>1, <3>2, <3>3
    <2> QED  BY <2>2, <2>3
  <1>14. SaveStands'
    BY <1>2, <1>3, <1>6, <1>12, <1>13 DEF SaveStands
  <1>15. SteadyStays'
    BY <1>1, <1>3, <1>6 DEF SteadyStays, Listed
  <1> QED  BY <1>8, <1>9, <1>14, <1>15 DEF Fresh

LEMMA FreshLoad ==
  ASSUME FreshInv, NEW c \in DOMAIN calls, LoadLands(c), Newest(c)
  PROVE  Fresh'
  <1>1. /\ ContextInv /\ ContextShape /\ Ages /\ Orders /\ Requests
        /\ LoadStands /\ RefreshStands /\ SaveStands /\ SteadyStays
    BY DEF FreshInv, Fresh, ContextInv
  <1>2. /\ appliedLoad' = Higher(appliedLoad, calls[c].number)
        /\ menus' = Merged(c) /\ seen' = [m \in MenuId |-> Higher(seen[m], calls[c].asOf[m])]
        /\ UNCHANGED <<server, request, sequence, latestMenu>>
    BY DEF LoadLands, Arrived
  <1>3. CallsGo({}) /\ NewestLoad(c) /\ c \in Reads /\ (\A d \in Reads : ~NewestLoad(d)') /\ ServerGoes
    BY <1>1, <1>2, LoadLandsKeeps DEF NewestLoad, ServerGoes
  <1>4. ASSUME NEW d \in Reads'
        PROVE  /\ d \in Reads /\ d \in DOMAIN calls /\ d # c
               /\ calls'[d].kind = calls[d].kind /\ calls'[d].menu = calls[d].menu /\ calls'[d].number = calls[d].number
               /\ calls'[d].asOf = calls[d].asOf /\ calls'[d].answer = calls[d].answer
    <2>1. /\ d \in Reads /\ calls'[d].kind = calls[d].kind /\ calls'[d].menu = calls[d].menu
          /\ calls'[d].number = calls[d].number /\ calls'[d].asOf = calls[d].asOf /\ calls'[d].answer = calls[d].answer
      BY <1>1, <1>3, ReadsGo
    <2>2. d # c
      <3>1. calls'[c].state = "over"
        BY <1>1, OverFrame DEF LoadLands, Arrived
      <3> QED  BY <3>1 DEF Reads, InFlight
    <2> QED  BY <2>1, <2>2 DEF Reads, InFlight
  <1>5. \A m \in MenuId : (Dead(m) => Dead(m)') /\ (Steady(m)' => Steady(m))
    <2>1. ContextShape'
      BY LoadLandsKeeps, <1>1 DEF ContextInv
    <2>2. ContextNext
      BY DEF ContextNext, Lands
    <2> QED  BY <1>1, <1>3, <2>1, <2>2, DeadStays, SteadyBefore
  <1>6. ASSUME NEW m \in MenuId, Steady(m)
        PROVE  /\ seen'[m] = Higher(seen[m], calls[c].asOf[m])
               /\ menus'[m] = IF calls[c].answer[m] # 0 /\ latestMenu[m].number > calls[c].number
                              THEN latestMenu[m].version ELSE calls[c].answer[m]
               /\ appliedLoad <= calls[c].number /\ appliedLoad' = calls[c].number
               /\ seen[m] <= calls[c].asOf[m] \/ latestMenu[m].number > calls[c].number \/ DeadFor(c, m)
               /\ latestMenu[m].number > calls[c].number =>
                    latestMenu[m].version >= seen[m] /\ latestMenu[m].version >= calls[c].asOf[m]
               /\ calls[c].answer[m] = 0 \/ calls[c].asOf[m] <= calls[c].answer[m]
               /\ seen[m] \in Nat /\ calls[c].asOf[m] \in Nat /\ calls[c].answer[m] \in Nat
               /\ latestMenu[m].number \in Nat /\ latestMenu[m].version \in Nat
               /\ calls[c].number \in Nat /\ appliedLoad \in Nat
    <2>1. /\ seen[m] \in Nat /\ calls[c].asOf[m] \in Nat /\ calls[c].answer[m] \in Nat
          /\ latestMenu[m].number \in Nat /\ latestMenu[m].version \in Nat
          /\ calls[c].number \in Nat /\ appliedLoad \in Nat
      BY <1>1, ContextTypes
    <2>2. /\ appliedLoad <= calls[c].number
          /\ seen[m] <= calls[c].asOf[m] \/ latestMenu[m].number > calls[c].number \/ DeadFor(c, m)
          /\ latestMenu[m].number > calls[c].number =>
               latestMenu[m].version >= seen[m] /\ latestMenu[m].version >= calls[c].asOf[m]
          /\ calls[c].answer[m] = 0 \/ calls[c].asOf[m] <= calls[c].answer[m]
      BY <1>6, <1>1, <1>3 DEF LoadStands, Ages
    <2>3. appliedLoad' = calls[c].number
      BY <1>2, <2>1, <2>2 DEF Higher
    <2> QED  BY <1>2, <2>1, <2>2, <2>3 DEF Merged
  <1>7. LoadStands'
    BY <1>3, <1>4 DEF LoadStands
  <1>8. ASSUME NEW r \in Reads', NEW m \in MenuId, Steady(m), calls'[r].kind = "refresh", calls'[r].menu = m
        PROVE  /\ seen'[m] <= calls'[r].asOf[m] \/ OutOfDate(r)' \/ DeadFor(r, m)'
               /\ latestMenu'[m].number > calls'[r].number => latestMenu'[m].version >= calls'[r].asOf[m]
               /\ OutOfDate(r)' /\ menus'[m] # 0 => menus'[m] >= calls'[r].asOf[m]
    <2>1. /\ r \in Reads /\ r \in DOMAIN calls /\ r # c /\ calls[r].kind = "refresh" /\ calls[r].menu = m
          /\ calls'[r].number = calls[r].number /\ calls'[r].asOf = calls[r].asOf /\ calls'[r].answer = calls[r].answer
          /\ calls[r].number \in Nat /\ calls[r].asOf[m] \in Nat /\ r \in Nat /\ c \in Nat
      BY <1>1, <1>4, <1>8, ContextTypes
    <2>2. /\ seen[m] <= calls[r].asOf[m] \/ OutOfDate(r) \/ DeadFor(r, m)
          /\ latestMenu[m].number > calls[r].number => latestMenu[m].version >= calls[r].asOf[m]
      BY <1>8, <1>1, <2>1 DEF RefreshStands
    <2>3. OutOfDate(r)' <=> calls[c].number >= calls[r].number \/ latestMenu[m].number > calls[r].number
      BY <1>2, <1>6, <1>8, <2>1 DEF OutOfDate
    <2>4. OutOfDate(r) => OutOfDate(r)'
      BY <1>8, <1>6, <2>1, <2>3 DEF OutOfDate
    <2>5. DeadFor(r, m) => DeadFor(r, m)'
      BY <1>5, <2>1 DEF DeadFor
    <2>6. CASE c < r
      <3>1. /\ calls[c].asOf[m] <= calls[r].asOf[m] \/ DeadFor(r, m)
            /\ calls[c].number < calls[r].number
        BY <1>1, <1>3, <2>1, <2>6 DEF Ages, Orders
      <3>2. seen'[m] <= calls[r].asOf[m] \/ OutOfDate(r)' \/ DeadFor(r, m)'
        BY <1>8, <1>6, <2>1, <2>2, <2>4, <2>5, <3>1 DEF Higher
      <3>3. OutOfDate(r)' /\ menus'[m] # 0 => menus'[m] >= calls[r].asOf[m]
        BY <1>8, <1>6, <2>1, <2>2, <2>3, <3>1
      <3> QED  BY <1>2, <2>1, <2>2, <3>2, <3>3
    <2>7. CASE r < c
      <3>1. /\ calls[r].asOf[m] <= calls[c].asOf[m] \/ DeadFor(c, m)
            /\ calls[r].number <= calls[c].number
        BY <1>1, <1>3, <2>1, <2>7 DEF Ages, Orders
      <3>2. OutOfDate(r)'
        BY <1>6, <2>1, <2>3, <3>1
      <3>3. menus'[m] # 0 => menus'[m] >= calls[r].asOf[m]
        BY <1>8, <1>6, <2>1, <2>2, <3>1 DEF DeadFor
      <3> QED  BY <1>2, <2>1, <2>2, <3>2, <3>3
    <2> QED  BY <2>1, <2>6, <2>7
  <1>9. RefreshStands'
    BY <1>5, <1>8 DEF RefreshStands
  <1>10. SaveStands'
    <2>1. \A s \in DOMAIN calls' : Stored(s)' =>
            s \in DOMAIN calls /\ Stored(s) /\ calls'[s].menu = calls[s].menu /\ calls'[s].answer = calls[s].answer
      BY <1>1, <1>3, ReadsGo
    <2>2. ASSUME NEW s \in DOMAIN calls', NEW z \in DOMAIN calls',
                 Stored(s)', Stored(z)', calls'[s].menu = calls'[z].menu, Steady(calls[s].menu)'
          PROVE  s = z
      <3>1. /\ s \in DOMAIN calls /\ z \in DOMAIN calls /\ Stored(s) /\ Stored(z)
            /\ calls[s].menu = calls[z].menu /\ calls'[s].menu = calls[s].menu /\ calls[s].menu \in MenuId
        BY <1>1, <2>1, <2>2 DEF ContextShape, Stored
      <3> QED  BY <1>1, <1>5, <2>2, <3>1 DEF SaveStands
    <2>3. ASSUME NEW s \in DOMAIN calls', NEW m \in MenuId, Steady(m)', Stored(s)', calls'[s].menu = m
          PROVE  /\ server'[m] <= calls'[s].answer[m] /\ seen'[m] <= calls'[s].answer[m]
                 /\ \A d \in Reads' : calls'[d].asOf[m] <= calls'[s].answer[m]
      <3>1. s \in DOMAIN calls /\ Stored(s) /\ calls[s].menu = m /\ calls'[s].answer = calls[s].answer
        BY <2>1, <2>3
      <3>2. /\ server[m] <= calls[s].answer[m] /\ seen[m] <= calls[s].answer[m]
            /\ \A d \in Reads : calls[d].asOf[m] <= calls[s].answer[m]
        BY <1>1, <1>5, <2>3, <3>1 DEF SaveStands
      <3> QED  BY <1>2, <1>3, <1>4, <1>6, <3>1, <3>2 DEF Higher
    <2> QED  BY <2>2, <2>3 DEF SaveStands
  <1>11. ASSUME NEW m \in MenuId, Steady(m), menus'[m] # 0  PROVE menus'[m] >= seen'[m]
    <2>1. calls[c].answer[m] # 0
      BY <1>6, <1>11
    <2>2. CASE latestMenu[m].number > calls[c].number
      BY <1>11, <1>6, <2>1, <2>2 DEF Higher
    <2>3. CASE ~(latestMenu[m].number > calls[c].number)
      <3>1. seen[m] <= calls[c].asOf[m] /\ calls[c].asOf[m] <= calls[c].answer[m]
        BY <1>11, <1>6, <2>1, <2>3 DEF DeadFor
      <3> QED  BY <1>11, <1>6, <2>3, <3>1 DEF Higher
    <2> QED  BY <2>2, <2>3
  <1>12. SteadyStays'
    BY <1>5, <1>11 DEF SteadyStays, Listed
  <1> QED  BY <1>7, <1>9, <1>10, <1>12 DEF Fresh

LEMMA FreshRefresh ==
  ASSUME FreshInv, NEW q \in DOMAIN calls, RefreshLands(q)
  PROVE  Fresh'
  <1>1. /\ ContextInv /\ ContextShape /\ Ages /\ Orders /\ Requests
        /\ LoadStands /\ RefreshStands /\ SaveStands /\ SteadyStays
    BY DEF FreshInv, Fresh, ContextInv
  <1>2. PICK i : i = calls[q].menu
    OBVIOUS
  <1>3. /\ ContextInv' /\ CallsGo({}) /\ q \in Reads /\ i \in MenuId /\ calls'[q].state = "over"
        /\ calls[q].kind = "refresh" /\ calls[q].state = "answered"
        /\ UNCHANGED <<server, menuId, request, sequence, appliedLoad>>
        /\ seen'[i] = Higher(seen[i], calls[q].asOf[i]) /\ \A m \in MenuId : m # i => seen'[m] = seen[m]
        /\ \/ OutOfDate(q) /\ UNCHANGED <<menus, latestMenu>>
           \/ /\ ~OutOfDate(q)
              /\ latestMenu'[i].number = calls[q].number /\ latestMenu'[i].version = calls[q].answer[i]
              /\ menus'[i] = IF menus[i] = 0 THEN 0 ELSE calls[q].answer[i]
              /\ \A m \in MenuId : m # i => menus'[m] = menus[m] /\ latestMenu'[m] = latestMenu[m]
    BY <1>1, <1>2, RefreshLandsFrame
  <1>4. ASSUME NEW d \in Reads'
        PROVE  /\ d \in Reads /\ d \in DOMAIN calls /\ d # q
               /\ calls'[d].kind = calls[d].kind /\ calls'[d].menu = calls[d].menu /\ calls'[d].number = calls[d].number
               /\ calls'[d].asOf = calls[d].asOf /\ calls'[d].answer = calls[d].answer
               /\ NewestLoad(d)' => NewestLoad(d)
    <2>1. /\ d \in Reads /\ calls'[d].kind = calls[d].kind /\ calls'[d].menu = calls[d].menu
          /\ calls'[d].number = calls[d].number /\ calls'[d].asOf = calls[d].asOf /\ calls'[d].answer = calls[d].answer
          /\ NewestLoad(d)' => NewestLoad(d)
      BY <1>1, <1>3, ReadsGo
    <2> QED  BY <1>3, <2>1 DEF Reads, InFlight
  <1>5. \A m \in MenuId : (Dead(m) => Dead(m)') /\ (Steady(m)' => Steady(m))
    <2>1. ContextShape' /\ ServerGoes
      BY <1>3 DEF ContextInv, ServerGoes
    <2>2. ContextNext
      BY DEF ContextNext, Lands
    <2> QED  BY <1>1, <1>3, <2>1, <2>2, DeadStays, SteadyBefore
  <1>6. /\ calls[q].number \in Nat /\ calls[q].asOf[i] \in Nat /\ calls[q].answer[i] \in Nat /\ q \in Nat
        /\ seen[i] \in Nat /\ menus[i] \in Nat /\ latestMenu[i].number \in Nat /\ latestMenu[i].version \in Nat
        /\ appliedLoad \in Nat
    BY <1>1, <1>3, ContextTypes
  <1>7. calls[q].answer[i] # 0 /\ calls[q].asOf[i] <= calls[q].answer[i]
    BY <1>1, <1>2, <1>3 DEF Ages
  <1>8. Steady(i) /\ ~OutOfDate(q) => seen[i] <= calls[q].asOf[i] /\ latestMenu[i].number <= calls[q].number /\ appliedLoad < calls[q].number
    <2>1. Steady(i) => seen[i] <= calls[q].asOf[i] \/ OutOfDate(q) \/ DeadFor(q, i)
      BY <1>1, <1>2, <1>3 DEF RefreshStands
    <2> QED  BY <1>2, <1>6, <1>7, <2>1 DEF DeadFor, OutOfDate
  <1>9. ASSUME NEW d \in Reads'
        PROVE  /\ d \in Nat /\ calls[d].number \in Nat /\ calls[d].asOf[i] \in Nat
               /\ d < q => calls[d].number < calls[q].number /\ calls[d].asOf[i] <= calls[q].answer[i]
               /\ q < d => /\ calls[q].number <= calls[d].number
                           /\ calls[d].kind = "refresh" => calls[q].number < calls[d].number
                           /\ calls[q].asOf[i] <= calls[d].asOf[i] \/ DeadFor(d, i)
    <2>1. /\ d \in Reads /\ d \in Nat /\ calls[d].number \in Nat /\ calls[d].asOf[i] \in Nat
      BY <1>1, <1>3, <1>4, ContextTypes
    <2>2. d < q => calls[d].number < calls[q].number /\ (calls[d].asOf[i] <= calls[q].asOf[i] \/ DeadFor(q, i))
      BY <1>1, <1>3, <2>1 DEF Ages, Orders
    <2>3. q < d => /\ calls[q].number <= calls[d].number
                   /\ calls[d].kind = "refresh" => calls[q].number < calls[d].number
                   /\ calls[q].asOf[i] <= calls[d].asOf[i] \/ DeadFor(d, i)
      BY <1>1, <1>3, <2>1 DEF Ages, Orders
    <2> QED  BY <1>6, <1>7, <2>1, <2>2, <2>3 DEF DeadFor
  <1>10. \A d \in Reads', m \in MenuId : DeadFor(d, m) => DeadFor(d, m)'
    BY <1>4, <1>5 DEF DeadFor
  <1>11. ASSUME NEW d \in Reads', NewestLoad(d)', NEW m \in MenuId, Steady(m)
         PROVE  /\ appliedLoad' <= calls'[d].number
                /\ seen'[m] <= calls'[d].asOf[m] \/ latestMenu'[m].number > calls'[d].number \/ DeadFor(d, m)'
                /\ latestMenu'[m].number > calls'[d].number =>
                     latestMenu'[m].version >= seen'[m] /\ latestMenu'[m].version >= calls'[d].asOf[m]
    <2>1. /\ appliedLoad <= calls[d].number
          /\ seen[m] <= calls[d].asOf[m] \/ latestMenu[m].number > calls[d].number \/ DeadFor(d, m)
          /\ latestMenu[m].number > calls[d].number =>
               latestMenu[m].version >= seen[m] /\ latestMenu[m].version >= calls[d].asOf[m]
      BY <1>1, <1>4, <1>11 DEF LoadStands
    <2>2. CASE m # i
      BY <1>3, <1>4, <1>10, <2>1, <2>2
    <2>3. CASE m = i /\ OutOfDate(q)
      <3>1. latestMenu' = latestMenu
        BY <1>3, <2>3
      <3>2. latestMenu[i].number > calls[q].number => latestMenu[i].version >= calls[q].asOf[i]
        BY <1>1, <1>2, <1>3, <1>11, <2>3 DEF RefreshStands
      <3>3. appliedLoad >= calls[q].number \/ latestMenu[i].number > calls[q].number
        BY <1>2, <2>3 DEF OutOfDate
      <3>4. latestMenu[i].number > calls[d].number => latestMenu[i].version >= calls[q].asOf[i]
        BY <1>6, <1>9, <2>1, <3>2, <3>3
      <3>5. seen'[i] <= calls[d].asOf[i] \/ latestMenu[i].number > calls[d].number \/ DeadFor(d, i)
        <4>1. CASE d < q
          BY <1>6, <1>9, <2>1, <3>3, <4>1
        <4>2. CASE q < d
          BY <1>3, <1>6, <1>9, <2>1, <2>3, <4>2 DEF Higher
        <4> QED  BY <1>4, <1>6, <1>9, <4>1, <4>2
      <3> QED  BY <1>3, <1>4, <1>6, <1>10, <2>1, <2>3, <3>1, <3>4, <3>5 DEF Higher
    <2>4. CASE m = i /\ ~OutOfDate(q)
      <3>1. latestMenu'[i].number = calls[q].number /\ latestMenu'[i].version = calls[q].answer[i]
        BY <1>3, <2>4
      <3>2. calls[q].answer[i] >= seen'[i]
        BY <1>11, <1>3, <1>6, <1>7, <1>8, <2>4 DEF Higher
      <3>3. calls[q].number > calls[d].number => d < q
        BY <1>4, <1>6, <1>9
      <3>4. calls[q].number > calls[d].number => calls[q].answer[i] >= calls[d].asOf[i]
        BY <1>6, <1>9, <3>3
      <3>5. seen'[i] <= calls[d].asOf[i] \/ calls[q].number > calls[d].number \/ DeadFor(d, i)
        <4>1. CASE d < q
          BY <1>6, <1>9, <4>1
        <4>2. CASE q < d
          BY <1>11, <1>3, <1>6, <1>8, <1>9, <2>4, <4>2 DEF Higher
        <4> QED  BY <1>4, <1>6, <1>9, <4>1, <4>2
      <3> QED  BY <1>3, <1>4, <1>10, <2>1, <2>4, <3>1, <3>2, <3>4, <3>5
    <2> QED  BY <2>2, <2>3, <2>4
  <1>12. LoadStands'
    <2>1. ASSUME NEW d \in Reads', NewestLoad(d)'  PROVE appliedLoad' <= calls'[d].number
      BY <1>1, <1>3, <1>4, <2>1 DEF LoadStands
    <2> QED  BY <1>5, <1>11, <2>1 DEF LoadStands
  <1>13. ASSUME NEW d \in Reads', NEW m \in MenuId, Steady(m), calls'[d].kind = "refresh", calls'[d].menu = m
         PROVE  /\ seen'[m] <= calls'[d].asOf[m] \/ OutOfDate(d)' \/ DeadFor(d, m)'
                /\ latestMenu'[m].number > calls'[d].number => latestMenu'[m].version >= calls'[d].asOf[m]
                /\ OutOfDate(d)' /\ menus'[m] # 0 => menus'[m] >= calls'[d].asOf[m]
    <2>1. /\ d \in Reads /\ d # q /\ calls[d].kind = "refresh" /\ calls[d].menu = m
          /\ calls'[d].number = calls[d].number /\ calls'[d].asOf = calls[d].asOf
      BY <1>4, <1>13
    <2>2. /\ seen[m] <= calls[d].asOf[m] \/ OutOfDate(d) \/ DeadFor(d, m)
          /\ latestMenu[m].number > calls[d].number => latestMenu[m].version >= calls[d].asOf[m]
          /\ OutOfDate(d) /\ menus[m] # 0 => menus[m] >= calls[d].asOf[m]
      BY <1>13, <1>1, <2>1 DEF RefreshStands
    <2>3. /\ OutOfDate(d) <=> appliedLoad >= calls[d].number \/ latestMenu[m].number > calls[d].number
          /\ OutOfDate(d)' <=> appliedLoad >= calls[d].number \/ latestMenu'[m].number > calls[d].number
      BY <1>3, <1>13, <2>1 DEF OutOfDate
    <2>4. CASE m # i
      <3>1. menus'[m] = menus[m] /\ latestMenu'[m] = latestMenu[m] /\ seen'[m] = seen[m]
        BY <1>3, <2>4
      <3> QED  BY <1>10, <2>1, <2>2, <2>3, <3>1
    <2>5. CASE m = i /\ OutOfDate(q)
      <3>1. menus' = menus /\ latestMenu' = latestMenu
        BY <1>3, <2>5
      <3>2. appliedLoad >= calls[q].number \/ latestMenu[i].number > calls[q].number
        BY <1>2, <2>5 DEF OutOfDate
      <3>3. seen'[i] <= calls[d].asOf[i] \/ OutOfDate(d) \/ DeadFor(d, i)
        <4>1. CASE d < q
          BY <1>6, <1>9, <2>3, <2>5, <3>2, <4>1
        <4>2. CASE q < d
          BY <1>3, <1>6, <1>9, <2>2, <2>5, <4>2 DEF Higher
        <4> QED  BY <1>4, <1>6, <1>9, <4>1, <4>2
      <3> QED  BY <1>10, <2>1, <2>2, <2>3, <2>5, <3>1, <3>3
    <2>6. CASE m = i /\ ~OutOfDate(q)
      <3>1. /\ latestMenu'[i].number = calls[q].number /\ latestMenu'[i].version = calls[q].answer[i]
            /\ menus'[i] # 0 => menus'[i] = calls[q].answer[i]
        BY <1>3, <2>6
      <3>2. CASE d < q
        BY <1>6, <1>9, <2>1, <2>3, <2>6, <3>1, <3>2
      <3>3. CASE q < d
        <4>1. calls[q].number < calls[d].number
          BY <1>9, <2>1, <3>3
        <4>2. ~(latestMenu'[i].number > calls[d].number) /\ ~(latestMenu[i].number > calls[d].number)
          BY <1>13, <1>6, <1>8, <1>9, <2>6, <3>1, <4>1
        <4>3. ~OutOfDate(d)'
          BY <1>13, <1>6, <1>8, <1>9, <2>3, <2>6, <4>1, <4>2
        <4>4. seen'[i] <= calls[d].asOf[i] \/ DeadFor(d, i)
          BY <1>13, <1>3, <1>6, <1>8, <1>9, <2>6, <3>3 DEF Higher
        <4> QED  BY <1>10, <2>1, <2>6, <4>2, <4>3, <4>4
      <3> QED  BY <1>6, <1>9, <2>1, <3>2, <3>3
    <2> QED  BY <2>4, <2>5, <2>6
  <1>14. RefreshStands'
    BY <1>5, <1>13 DEF RefreshStands
  <1>15. SaveStands'
    <2>1. \A s \in DOMAIN calls' : Stored(s)' =>
            s \in DOMAIN calls /\ Stored(s) /\ calls'[s].menu = calls[s].menu /\ calls'[s].answer = calls[s].answer
      BY <1>1, <1>3, ReadsGo
    <2>2. ASSUME NEW s \in DOMAIN calls', NEW z \in DOMAIN calls',
                 Stored(s)', Stored(z)', calls'[s].menu = calls'[z].menu, Steady(calls[s].menu)'
          PROVE  s = z
      <3>1. /\ s \in DOMAIN calls /\ z \in DOMAIN calls /\ Stored(s) /\ Stored(z)
            /\ calls[s].menu = calls[z].menu /\ calls'[s].menu = calls[s].menu /\ calls[s].menu \in MenuId
        BY <1>1, <2>1, <2>2 DEF ContextShape, Stored
      <3> QED  BY <1>1, <1>5, <2>2, <3>1 DEF SaveStands
    <2>3. ASSUME NEW s \in DOMAIN calls', NEW m \in MenuId, Steady(m)', Stored(s)', calls'[s].menu = m
          PROVE  /\ server'[m] <= calls'[s].answer[m] /\ seen'[m] <= calls'[s].answer[m]
                 /\ \A d \in Reads' : calls'[d].asOf[m] <= calls'[s].answer[m]
      <3>1. s \in DOMAIN calls /\ Stored(s) /\ calls[s].menu = m /\ calls'[s].answer = calls[s].answer
        BY <2>1, <2>3
      <3>2. /\ server[m] <= calls[s].answer[m] /\ seen[m] <= calls[s].answer[m]
            /\ \A d \in Reads : calls[d].asOf[m] <= calls[s].answer[m]
        BY <1>1, <1>5, <2>3, <3>1 DEF SaveStands
      <3>3. seen'[m] <= calls[s].answer[m]
        BY <1>3, <3>2 DEF Higher
      <3> QED  BY <1>3, <1>4, <3>1, <3>2, <3>3
    <2> QED  BY <2>2, <2>3 DEF SaveStands
  <1>16. ASSUME NEW m \in MenuId, Steady(m), menus'[m] # 0  PROVE menus'[m] >= seen'[m]
    <2>1. menus[m] # 0 => menus[m] >= seen[m]
      BY <1>16, <1>1 DEF SteadyStays, Listed
    <2>2. CASE m # i
      <3>1. menus'[m] = menus[m] /\ seen'[m] = seen[m]
        BY <1>3, <2>2
      <3> QED  BY <1>16, <2>1, <3>1
    <2>3. CASE m = i /\ OutOfDate(q)
      <3>1. menus' = menus
        BY <1>3, <2>3
      <3>2. menus[i] # 0 => menus[i] >= calls[q].asOf[i]
        BY <1>16, <1>1, <1>2, <1>3, <2>3 DEF RefreshStands
      <3> QED  BY <1>3, <1>16, <2>1, <2>3, <3>1, <3>2 DEF Higher
    <2>4. CASE m = i /\ ~OutOfDate(q)
      <3>1. menus'[i] = calls[q].answer[i]
        BY <1>3, <1>16, <2>4
      <3> QED  BY <1>16, <1>3, <1>6, <1>7, <1>8, <2>4, <3>1 DEF Higher
    <2> QED  BY <2>2, <2>3, <2>4
  <1>17. SteadyStays'
    BY <1>5, <1>16 DEF SteadyStays, Listed
  <1> QED  BY <1>12, <1>14, <1>15, <1>17 DEF Fresh

LEMMA FreshSave ==
  ASSUME FreshInv, NEW q \in DOMAIN calls, SaveLands(q)
  PROVE  Fresh'
  <1>1. /\ ContextInv /\ ContextShape /\ Ages /\ Orders /\ Requests
        /\ LoadStands /\ RefreshStands /\ SaveStands /\ SteadyStays
    BY DEF FreshInv, Fresh, ContextInv
  <1>2. PICK i : i = calls[q].menu
    OBVIOUS
  <1>3. /\ ContextInv' /\ CallsGo({}) /\ Stored(q) /\ i \in MenuId /\ calls'[q].state = "over"
        /\ UNCHANGED <<server, menuId, request, appliedLoad>> /\ sequence' = sequence + 1
        /\ seen'[i] = Higher(seen[i], calls[q].answer[i]) /\ \A m \in MenuId : m # i => seen'[m] = seen[m]
        /\ latestMenu'[i].number = sequence + 1 /\ latestMenu'[i].version = calls[q].answer[i]
        /\ menus'[i] = IF menus[i] = 0 THEN 0 ELSE calls[q].answer[i]
        /\ \A m \in MenuId : m # i => menus'[m] = menus[m] /\ latestMenu'[m] = latestMenu[m]
    BY <1>1, <1>2, SaveLandsFrame
  <1>4. ASSUME NEW d \in Reads'
        PROVE  /\ d \in Reads
               /\ calls'[d].kind = calls[d].kind /\ calls'[d].menu = calls[d].menu /\ calls'[d].number = calls[d].number
               /\ calls'[d].asOf = calls[d].asOf /\ calls'[d].answer = calls[d].answer
               /\ NewestLoad(d)' => NewestLoad(d)
    BY <1>1, <1>3, ReadsGo
  <1>5. \A m \in MenuId : (Dead(m) => Dead(m)') /\ (Steady(m)' => Steady(m))
    <2>1. ContextShape' /\ ServerGoes
      BY <1>3 DEF ContextInv, ServerGoes
    <2>2. ContextNext
      BY DEF ContextNext, Lands
    <2> QED  BY <1>1, <1>3, <2>1, <2>2, DeadStays, SteadyBefore
  <1>6. \A d \in Reads', m \in MenuId : DeadFor(d, m) => DeadFor(d, m)'
    BY <1>4, <1>5 DEF DeadFor
  <1>7. /\ calls[q].answer[i] \in Nat /\ seen[i] \in Nat /\ sequence \in Nat
        /\ Steady(i) => seen[i] <= calls[q].answer[i] /\ seen'[i] = calls[q].answer[i]
    <2>1. calls[q].answer[i] \in Nat /\ seen[i] \in Nat /\ sequence \in Nat
      BY <1>1, <1>3, ContextTypes
    <2>2. Steady(i) => seen[i] <= calls[q].answer[i]
      BY <1>1, <1>2, <1>3 DEF SaveStands
    <2> QED  BY <1>3, <2>1, <2>2 DEF Higher
  <1>8. ASSUME NEW d \in Reads'
        PROVE  /\ calls[d].number \in Nat /\ calls[d].number < sequence + 1 /\ calls[d].asOf[i] \in Nat
               /\ Steady(i) => calls[d].asOf[i] <= calls[q].answer[i]
    <2>1. calls[d].number \in Nat /\ calls[d].number <= sequence /\ calls[d].asOf[i] \in Nat
      BY <1>1, <1>3, <1>4, ContextTypes DEF Orders
    <2>2. Steady(i) => calls[d].asOf[i] <= calls[q].answer[i]
      BY <1>1, <1>2, <1>3, <1>4 DEF SaveStands
    <2> QED  BY <1>7, <2>1, <2>2
  <1>9. LoadStands'
    <2>1. ASSUME NEW d \in Reads', NewestLoad(d)'  PROVE appliedLoad' <= calls'[d].number
      BY <1>1, <1>3, <1>4, <2>1 DEF LoadStands
    <2>2. ASSUME NEW d \in Reads', NewestLoad(d)', NEW m \in MenuId, Steady(m)
          PROVE  /\ seen'[m] <= calls'[d].asOf[m] \/ latestMenu'[m].number > calls'[d].number \/ DeadFor(d, m)'
                 /\ latestMenu'[m].number > calls'[d].number =>
                      latestMenu'[m].version >= seen'[m] /\ latestMenu'[m].version >= calls'[d].asOf[m]
      <3>1. CASE m = i
        BY <1>3, <1>4, <1>7, <1>8, <2>2, <3>1
      <3>2. CASE m # i
        <4>1. /\ seen[m] <= calls[d].asOf[m] \/ latestMenu[m].number > calls[d].number \/ DeadFor(d, m)
              /\ latestMenu[m].number > calls[d].number =>
                   latestMenu[m].version >= seen[m] /\ latestMenu[m].version >= calls[d].asOf[m]
          BY <1>1, <1>4, <2>2 DEF LoadStands
        <4> QED  BY <1>3, <1>4, <1>6, <3>2, <4>1
      <3> QED  BY <3>1, <3>2
    <2> QED  BY <1>5, <2>1, <2>2 DEF LoadStands
  <1>10. ASSUME NEW d \in Reads', NEW m \in MenuId, Steady(m), calls'[d].kind = "refresh", calls'[d].menu = m
         PROVE  /\ seen'[m] <= calls'[d].asOf[m] \/ OutOfDate(d)' \/ DeadFor(d, m)'
                /\ latestMenu'[m].number > calls'[d].number => latestMenu'[m].version >= calls'[d].asOf[m]
                /\ OutOfDate(d)' /\ menus'[m] # 0 => menus'[m] >= calls'[d].asOf[m]
    <2>1. d \in Reads /\ calls[d].kind = "refresh" /\ calls[d].menu = m
      BY <1>4, <1>10
    <2>2. CASE m = i
      <3>1. OutOfDate(d)'
        BY <1>3, <1>4, <1>8, <1>10, <2>2 DEF OutOfDate
      <3>2. menus'[m] # 0 => menus'[m] = calls[q].answer[i]
        BY <1>3, <2>2
      <3> QED  BY <1>3, <1>4, <1>7, <1>8, <1>10, <2>2, <3>1, <3>2
    <2>3. CASE m # i
      <3>1. menus'[m] = menus[m] /\ latestMenu'[m] = latestMenu[m] /\ seen'[m] = seen[m] /\ appliedLoad' = appliedLoad
        BY <1>3, <2>3
      <3>2. OutOfDate(d)' <=> OutOfDate(d)
        BY <1>4, <1>10, <2>1, <3>1 DEF OutOfDate
      <3>3. /\ seen[m] <= calls[d].asOf[m] \/ OutOfDate(d) \/ DeadFor(d, m)
            /\ latestMenu[m].number > calls[d].number => latestMenu[m].version >= calls[d].asOf[m]
            /\ OutOfDate(d) /\ menus[m] # 0 => menus[m] >= calls[d].asOf[m]
        BY <1>10, <1>1, <2>1 DEF RefreshStands
      <3> QED  BY <1>4, <1>6, <3>1, <3>2, <3>3
    <2> QED  BY <2>2, <2>3
  <1>11. RefreshStands'
    BY <1>5, <1>10 DEF RefreshStands
  <1>12. SaveStands'
    <2>1. \A s \in DOMAIN calls' : Stored(s)' =>
            /\ s \in DOMAIN calls /\ Stored(s) /\ s # q
            /\ calls'[s].menu = calls[s].menu /\ calls'[s].answer = calls[s].answer
      <3>1. ~Stored(q)'
        BY <1>3 DEF Stored
      <3> QED  BY <1>1, <1>3, <3>1, ReadsGo
    <2>2. ASSUME NEW s \in DOMAIN calls', NEW z \in DOMAIN calls',
                 Stored(s)', Stored(z)', calls'[s].menu = calls'[z].menu, Steady(calls[s].menu)'
          PROVE  s = z
      <3>1. /\ s \in DOMAIN calls /\ z \in DOMAIN calls /\ Stored(s) /\ Stored(z)
            /\ calls[s].menu = calls[z].menu /\ calls'[s].menu = calls[s].menu /\ calls[s].menu \in MenuId
        BY <1>1, <2>1, <2>2 DEF ContextShape, Stored
      <3> QED  BY <1>1, <1>5, <2>2, <3>1 DEF SaveStands
    <2>3. ASSUME NEW s \in DOMAIN calls', NEW m \in MenuId, Steady(m)', Stored(s)', calls'[s].menu = m
          PROVE  /\ server'[m] <= calls'[s].answer[m] /\ seen'[m] <= calls'[s].answer[m]
                 /\ \A d \in Reads' : calls'[d].asOf[m] <= calls'[s].answer[m]
      <3>1. s \in DOMAIN calls /\ Stored(s) /\ s # q /\ calls[s].menu = m /\ calls'[s].answer = calls[s].answer
        BY <2>1, <2>3
      <3>2. m # i
        BY <1>1, <1>2, <1>3, <1>5, <2>3, <3>1 DEF SaveStands
      <3>3. /\ server[m] <= calls[s].answer[m] /\ seen[m] <= calls[s].answer[m]
            /\ \A d \in Reads : calls[d].asOf[m] <= calls[s].answer[m]
        BY <1>1, <1>5, <2>3, <3>1 DEF SaveStands
      <3> QED  BY <1>3, <1>4, <3>1, <3>2, <3>3
    <2> QED  BY <2>2, <2>3 DEF SaveStands
  <1>13. ASSUME NEW m \in MenuId, Steady(m), menus'[m] # 0  PROVE menus'[m] >= seen'[m]
    <2>1. CASE m = i
      BY <1>3, <1>7, <1>13, <2>1
    <2>2. CASE m # i
      <3>1. menus'[m] = menus[m] /\ seen'[m] = seen[m]
        BY <1>3, <2>2
      <3> QED  BY <1>1, <1>13, <3>1 DEF SteadyStays, Listed
    <2> QED  BY <2>1, <2>2
  <1>14. SteadyStays'
    BY <1>5, <1>13 DEF SteadyStays, Listed
  <1> QED  BY <1>9, <1>11, <1>12, <1>14 DEF Fresh

LEMMA FreshBegins ==
  ASSUME ContextInit
  PROVE  Fresh
  <1>1. ContextInv
    BY ContextBegins
  <1>2. \A m \in MenuId : seen[m] = 0 /\ menus[m] = 0 /\ latestMenu[m].number = 0
    BY DEF ContextInit, Zero
  <1>3. /\ calls[1].kind = "load" /\ calls[1].state = "sent" /\ calls[1].number = 0 /\ DOMAIN calls = {1}
        /\ appliedLoad = 0
    BY DEF ContextInit, Sent
  <1>4. \A m \in MenuId : calls[1].asOf[m] \in Nat
    BY <1>1, <1>3, ContextTypes
  <1>5. LoadStands
    BY <1>2, <1>3, <1>4 DEF LoadStands, Reads, InFlight
  <1>6. RefreshStands /\ SaveStands
    BY <1>3 DEF RefreshStands, SaveStands, Stored, Reads, InFlight
  <1>7. SteadyStays
    BY <1>2 DEF SteadyStays, Listed
  <1> QED  BY <1>5, <1>6, <1>7 DEF Fresh

LEMMA FreshSteps ==
  ASSUME FreshInv, [ContextNext]_contextVars
  PROVE  FreshInv'
  <1>1. ContextInv /\ ContextInv' /\ ContextShape
    BY ContextSteps DEF FreshInv, ContextInv
  <1>0. \A m \in MenuId : Steady(m)' => Steady(m)
    BY SteadyBefore DEF Steady, contextVars
  <1>2. ASSUME NEW N, CallsGo(N), server' = server, UNCHANGED <<menus, seen, latestMenu, appliedLoad>>
        PROVE  Fresh'
    <2>1. ServerGoes
      BY <1>2 DEF ServerGoes
    <2>2. \A m \in MenuId : server'[m] <= server[m]
      BY <1>1, <1>2, ContextTypes
    <2> QED  BY <1>0, <1>1, <1>2, <2>1, <2>2, FreshGoes
  <1>3. ASSUME \/ \E m \in MenuId : setActiveMenuId(m)
               \/ \E c \in DOMAIN calls : \/ Refuse(c) \/ LoadFails(c) \/ CallFails(c)
                                          \/ LoadLands(c) /\ ~Newest(c)
               \/ UNCHANGED contextVars
        PROVE  Fresh'
    <2>1. StandsStill /\ \A i \in MenuId : menuId' = i => menus[i] # 0 \/ menuId = i
      BY <1>1, <1>3, QuietSteps
    <2>2. menuId' \in MenuId \cup {NoMenu} /\ error' \in BOOLEAN
      BY <1>1, <1>3 DEF ContextShape, setActiveMenuId, Refuse, LoadFails, CallFails, LoadLands, contextVars, Listed
    <2>3. CallsGo({})
      BY <1>1, <2>1, <2>2, QuietKeeps
    <2> QED  BY <1>2, <2>1, <2>3 DEF StandsStill, refs
  <1>4. ASSUME load \/ saveActiveMenu \/ \E m \in MenuId : refreshMenu(m) \/ createMenu(m) \/ deleteMenu(m)
        PROVE  Fresh'
    <2>1. PICK n : n = Len(calls) + 1
      OBVIOUS
    <2>2. CallsGo({n}) /\ server' = server /\ UNCHANGED <<menus, seen, latestMenu, appliedLoad>>
      BY <1>1, <1>4, <2>1, CallsKeep
    <2> QED  BY <1>2, <2>2
  <1>5. ASSUME NEW m \in MenuId, OtherWrite(m) \/ OtherDelete(m)  PROVE Fresh'
    <2>1. CallsGo({}) /\ ServerGoes /\ UNCHANGED <<menus, seen, latestMenu, appliedLoad>>
      BY <1>1, <1>5, WritesKeep DEF OtherWrite, OtherDelete, refs
    <2>2. ASSUME NEW s \in DOMAIN calls, NEW i \in MenuId, Steady(i)', Stored(s), calls[s].menu = i
          PROVE  server'[i] <= server[i]
      <3>1. server \in [MenuId -> Version] /\ server[i] \in Nat
        BY <1>1, ContextTypes DEF ContextShape
      <3>2. CASE OtherDelete(m)
        <4>1. server' = [server EXCEPT ![m] = 0]
          BY <3>2 DEF OtherDelete
        <4> QED  BY <3>1, <4>1
      <3>3. CASE OtherWrite(m)
        <4>1. server' = [server EXCEPT ![m] = @ + 1] /\ overtaken' = Overtaking(m)
          BY <3>3 DEF OtherWrite
        <4>2. i # m
          BY <2>2, <4>1 DEF Overtaking, SaveUnderWay, Stored, Steady
        <4> QED  BY <3>1, <4>1, <4>2
      <3> QED  BY <1>5, <3>2, <3>3
    <2> QED  BY <1>0, <1>1, <2>1, <2>2, FreshGoes
  <1>6. ASSUME NEW c \in DOMAIN calls, Answer(c)  PROVE Fresh'
    BY <1>6, FreshAnswer
  <1>7. ASSUME NEW c \in DOMAIN calls, LoadLands(c), Newest(c)  PROVE Fresh'
    BY <1>7, FreshLoad
  <1>8. ASSUME NEW c \in DOMAIN calls, RefreshLands(c)  PROVE Fresh'
    BY <1>8, FreshRefresh
  <1>9. ASSUME NEW c \in DOMAIN calls, SaveLands(c)  PROVE Fresh'
    BY <1>9, FreshSave
  <1>10. ASSUME NEW c \in DOMAIN calls, CreateLands(c) \/ DeleteLands(c)  PROVE Fresh'
    <2>1. PICK n : n = Len(calls) + 1
      OBVIOUS
    <2>2. CallsGo({n}) /\ server' = server /\ UNCHANGED <<menus, seen, latestMenu, appliedLoad>>
      BY <1>1, <1>10, <2>1, ReloadsKeep
    <2> QED  BY <1>2, <2>2
  <1>11. Fresh'
    BY <1>3, <1>4, <1>5, <1>6, <1>7, <1>8, <1>9, <1>10 DEF ContextNext, Lands, Finished
  <1> QED  BY <1>1, <1>11 DEF FreshInv

(* Every answer on its way is newer than what the list must show of a       *)
(* steady menu, or it will be refused or merged under a newer one, by the   *)
(* numbers of menuContext.jsx.                                              *)
THEOREM ContextKeepsFresh == ContextSpec => []FreshInv
  <1>1. ContextInit => FreshInv
    BY ContextBegins, FreshBegins DEF FreshInv
  <1>2. FreshInv /\ [ContextNext]_contextVars => FreshInv'
    BY FreshSteps
  <1> QED  BY <1>1, <1>2, PTL DEF ContextSpec

(* ORDERING in menuContext.jsx: no answer that lands late puts back a       *)
(* version older than a refresh, an applied load or a save must have shown, *)
(* but of a menu overtaken, that was written between a save of it and the   *)
(* landing of the answer: a save takes its number when it lands, so its     *)
(* answer is taken for the newest whatever was stored since.                *)
THEOREM OlderNeverReturns == ContextSpec => []OlderDataNeverReturns
  <1>1. FreshInv => OlderDataNeverReturns
    BY DEF FreshInv, Fresh, SteadyStays, Steady, Listed, OlderDataNeverReturns
  <1> QED  BY <1>1, ContextKeepsFresh, PTL

-----------------------------------------------------------------------------
(* The menu editor: what it is made of.                                     *)

EditorKinds ==
  {"load", "reorderCategories", "reorderProducts", "price", "active", "saveCategory", "saveProduct",
   "deleteCategory", "deleteProduct", "bulkPrice"}
RowTable == [Product -> Row \cup {None}]
ListsBefore == [list: Seq(Product), rows: RowTable]

EditorRequest ==
  [kind: EditorKinds, menu: Menu, category: Category \cup {None}, product: Product \cup {None},
   row: Row \cup [price: Price] \cup {None}, list: Seq(Category) \cup Seq(Product),
   undo: {None} \cup Seq(Category) \cup ListsBefore \cup Price \cup BOOLEAN,
   phase: {"sent", "done", "gone", "failed"}, answer: {None} \cup Row \cup Seq(Category),
   products: {None} \cup RowTable, alone: BOOLEAN]

Rearranged(s, t, S) == s \in Seq(S) /\ t \in Seq(S) /\ ToSet(s) = ToSet(t) /\ Len(s) = Len(t)

(* Each kind of request carries what its handler and its rollback need.      *)
KindOK(r) ==
  /\ r.alone => r.kind = "load"
  /\ r.kind = "load" =>
       /\ r.phase \in {"sent", "failed"}
       /\ (r.answer # None => r.answer \in Seq(Category)) /\ (r.products # None => r.products \in RowTable)
  /\ r.kind = "reorderCategories" => Rearranged(r.list, r.undo, Category)
  /\ r.kind = "reorderProducts" =>
       /\ r.category \in Category /\ r.undo \in ListsBefore /\ Rearranged(r.list, r.undo.list, Product)
       /\ \A p \in ToSet(r.undo.list) : r.undo.rows[p] # None
  /\ r.kind \in {"price", "active"} =>
       r.product \in Product /\ r.row \in Row /\ (r.phase = "done" => r.answer \in Row)
  /\ r.kind = "price" => r.undo \in Price
  /\ r.kind = "active" => r.undo \in BOOLEAN
  /\ r.kind \in {"saveCategory", "deleteCategory"} => r.category \in Category /\ r.product = None
  /\ r.kind = "saveProduct" =>
       /\ r.product \in Product /\ r.category \in Category /\ r.row \in Row /\ r.row.category = r.category
       /\ r.phase = "done" => r.answer \in Row /\ r.answer.category = r.category
  /\ r.kind = "deleteProduct" => r.product \in Product
  /\ r.kind = "bulkPrice" => r.row \in [price: Price] /\ r.product = None

StoreShape(s) ==
  /\ s \in [order: Seq(Category), menuOf: [Category -> Menu \cup {None}], rows: RowTable]
  /\ ToSet(s.order) = {c \in Category : s.menuOf[c] # None}
StoreOK == StoreShape(stored)
PageOK ==
  /\ page \in [menu: Menu \cup {None}, loading: BOOLEAN, categories: Seq(Category), rows: RowTable,
               lists: [Category -> Seq(Product)], count: [Menu -> Nat]]
  /\ \A c \in Category : \A p \in ToSet(page.lists[c]) : page.rows[p] # None
RequestsOK == requests \in Seq(EditorRequest) /\ \A i \in DOMAIN requests : KindOK(requests[i])
RestOK ==
  /\ dialog \in {"none", "category", "product", "bulk", "deleteCategory", "deleteProduct"}
  /\ deleting \in BOOLEAN /\ inSync \in BOOLEAN

(* A load that is alone reads what is stored.                               *)
AloneOK ==
  \A i \in DOMAIN requests : requests[i].alone =>
    /\ Len(requests) = 1
    /\ requests[i].answer = None \/ requests[i].answer = CategoriesOf(stored, requests[i].menu)
    /\ requests[i].products = None \/ requests[i].products = stored.rows

PreviewContent == [categories: Seq(Category), rows: RowTable]
PreviewRecord ==
  [waiting: {"no", "sent", "answered", "failed"}, answer: {None} \cup PreviewContent,
   payload: [menu: Menu \cup {None}, content: {None} \cup PreviewContent], failure: Menu \cup {None}, stale: BOOLEAN]

(* The phone has what is stored of a menu, or is about to show it ...          *)
PhoneKept(v, s, m) ==
  /\ v.waiting = "answered" => v.answer = PreviewMenu(s, m)
  /\ v.waiting = "no" /\ Phone!HasPayload(v, m) /\ ~Phone!ShowsOldNote(v, m) => v.payload.content = PreviewMenu(s, m)

(* ... or the page will tell it to ask again.                                *)
PreviewOK == preview \in PreviewRecord
Unannounced == ~preview.stale /\ \A i \in DOMAIN requests : requests[i].phase # "done"
PreviewKept == Unannounced => PhoneKept(preview, stored, page.menu)

-----------------------------------------------------------------------------
(* What a request works on: the order of the categories, the list of a       *)
(* category, a product.  Requests that do not overlap share none of it.      *)

TakesOrder(r) == r.kind \in {"load", "reorderCategories", "saveCategory", "deleteCategory", "bulkPrice"}
TakesList(r, c) ==
  \/ r.kind \in {"load", "bulkPrice", "saveProduct"}
  \/ r.kind \in {"reorderProducts", "deleteCategory"} /\ r.category = c
TakesProduct(r, p) ==
  \/ r.kind \in {"load", "bulkPrice", "deleteCategory"}
  \/ r.kind = "reorderProducts" /\ p \in ToSet(r.list)
  \/ r.kind \in {"price", "active", "saveProduct", "deleteProduct"} /\ r.product = p

Apart(r, s) ==
  /\ ~(TakesOrder(r) /\ TakesOrder(s))
  /\ \A c \in Category : ~(TakesList(r, c) /\ TakesList(s, c))
  /\ \A p \in Product : ~(TakesProduct(r, p) /\ TakesProduct(s, p))

(* What database and page say of the order and of a product is the same ...  *)
OrderAgrees(s, g) == g.categories = CategoriesOf(s, g.menu)
InCategory(p, c, s) == s.rows[p] # None /\ s.rows[p].category = c
Placed(p, s, g) == \A c \in Category : p \in ToSet(g.lists[c]) <=> InCategory(p, c, s)
SameRow(a, b) == a.price = b.price /\ a.active = b.active
ProductAgrees(p, s, g) == Placed(p, s, g) /\ (s.rows[p] # None => SameRow(g.rows[p], s.rows[p]))

(* ... or it is not, and the answer to the request that took it will make it  *)
(* so, whatever it is.                                                      *)
Pending(r, kind) == r.kind = kind /\ r.phase # "done"
Done(r, kind) == r.kind = kind /\ r.phase = "done"

OrderClaim(r, s, g) ==
  /\ Pending(r, "reorderCategories") => g.categories = r.list /\ r.undo = CategoriesOf(s, g.menu)
  /\ Pending(r, "saveCategory") => r.category \in ToSet(g.categories) \/ s.menuOf[r.category] = None
  /\ Done(r, "saveCategory") =>
       CategoriesOf(s, g.menu) =
         IF r.category \in ToSet(g.categories) THEN g.categories ELSE Append(g.categories, r.category)
  /\ Done(r, "deleteCategory") => CategoriesOf(s, g.menu) = Filtered(g.categories, Category \ {r.category})
  /\ \/ Pending(r, "reorderCategories") \/ Done(r, "saveCategory") \/ Done(r, "deleteCategory")
     \/ OrderAgrees(s, g)

ProductClaim(r, p, s, g) ==
  LET row == s.rows[p] IN
  /\ r.kind = "reorderProducts" => row # None /\ SameRow(r.undo.rows[p], row)
  /\ r.kind \in {"price", "active"} => Placed(p, s, g)
  /\ Pending(r, "price") /\ row # None => r.undo = row.price /\ g.rows[p].active = row.active
  /\ Pending(r, "active") /\ row # None => r.undo = row.active /\ g.rows[p].price = row.price
  /\ (Done(r, "price") \/ Done(r, "active")) /\ row # None => SameRow(r.answer, row)
  /\ Done(r, "deleteProduct") => row = None
  /\ Done(r, "saveProduct") => row = r.answer
  /\ Done(r, "deleteCategory") =>
       /\ \A c \in Category : p \in ToSet(g.lists[c]) /\ c # r.category <=> InCategory(p, c, s)
       /\ row # None => SameRow(g.rows[p], row)
  /\ \/ r.kind \in {"price", "active"} \/ Done(r, "deleteProduct") \/ Done(r, "saveProduct")
     \/ Done(r, "deleteCategory") \/ Done(r, "bulkPrice")
     \/ ProductAgrees(p, s, g)

ListClaim(r, g) == r.kind = "reorderProducts" => ToSet(g.lists[r.category]) = ToSet(r.list)

Claims(r, s, g) ==
  /\ r.menu = g.menu /\ ListClaim(r, g)
  /\ TakesOrder(r) => OrderClaim(r, s, g)
  /\ \A p \in Product : TakesProduct(r, p) => ProductClaim(r, p, s, g)

ClaimsHold(q, s, g) ==
  /\ \A i, j \in DOMAIN q : i # j => Apart(q[i], q[j])
  /\ \A i \in DOMAIN q : Claims(q[i], s, g)
  /\ g.count[g.menu] = Len(g.categories)
  /\ (\A i \in DOMAIN q : ~TakesOrder(q[i])) => OrderAgrees(s, g)
  /\ \A p \in Product : (\A i \in DOMAIN q : ~TakesProduct(q[i], p)) => ProductAgrees(p, s, g)

(* Nothing has happened that explains a difference, and no load is on its    *)
(* way that would settle it.                                                *)
Loading == \E i \in DOMAIN requests : requests[i].kind = "load"
Claimed == inSync /\ page.menu # None /\ ~Loading

EditorInv ==
  /\ StoreOK /\ PageOK /\ RequestsOK /\ RestOK /\ AloneOK /\ PreviewOK /\ PreviewKept
  /\ Claimed => ClaimsHold(requests, stored, page)
-----------------------------------------------------------------------------
(* Lists of requests and of rows.                                           *)

(* A row that is dragged is put in at its new place.                        *)
LEMMA MoveKeeps ==
  ASSUME NEW S, NEW s \in Seq(S), NEW i \in DOMAIN s, NEW j \in DOMAIN s
  PROVE  Rearranged(arrayMove(s, i, j), s, S)
<1> DEFINE r == RemoveAt(s, i)
           a == SubSeq(r, 1, j - 1)
           b == SubSeq(r, j, Len(r))
           c == <<s[i]>>
<1>1. Len(s) \in Nat /\ DOMAIN s = 1..Len(s) /\ i \in 1..Len(s) /\ j \in 1..Len(s) /\ s[i] \in S
  BY LenProperties
<1>2. /\ r \in Seq(S) /\ Len(r) = Len(s) - 1 /\ DOMAIN r = 1..(Len(s) - 1)
      /\ \A k \in DOMAIN r : (IF k < i THEN k ELSE k + 1) \in DOMAIN s \ {i} /\ r[k] = s[IF k < i THEN k ELSE k + 1]
      /\ \A m \in DOMAIN s \ {i} : \E k \in DOMAIN r : m = IF k < i THEN k ELSE k + 1
  BY Removed, LenProperties
<1> HIDE DEF r
<1>3. /\ a \in Seq(S) /\ Len(a) = j - 1
      /\ \A k \in 1..(j - 1) : a[k] = r[k]
  <2>1. \A k \in 1..(j - 1) : r[k] \in S
    BY <1>1, <1>2
  <2>2. /\ a \in Seq(S) /\ Len(a) = (IF 1 <= j - 1 THEN j - 1 - 1 + 1 ELSE 0)
        /\ \A k \in 1..(j - 1 - 1 + 1) : a[k] = r[1 + k - 1]
    BY <1>1, <2>1, SubSeqProperties
  <2> HIDE DEF a
  <2> QED BY <1>1, <2>2
<1>4. /\ b \in Seq(S) /\ Len(b) = Len(s) - j
      /\ \A k \in 1..(Len(s) - j) : b[k] = r[j + k - 1]
  <2>1. \A k \in j..Len(r) : r[k] \in S
    BY <1>1, <1>2
  <2>2. /\ b \in Seq(S) /\ Len(b) = (IF j <= Len(r) THEN Len(r) - j + 1 ELSE 0)
        /\ \A k \in 1..(Len(r) - j + 1) : b[k] = r[j + k - 1]
    BY <1>1, <1>2, <2>1, SubSeqProperties
  <2> HIDE DEF b
  <2> QED BY <1>1, <1>2, <2>2
<1>5. arrayMove(s, i, j) = a \o c \o b
  BY DEF arrayMove, InsertAt, r
<1>6. c \in Seq(S) /\ Len(c) = 1 /\ c[1] = s[i]
  BY <1>1
<1> DEFINE t == a \o c \o b
<1> HIDE DEF a, b, c
<1>7. /\ t \in Seq(S) /\ Len(t) = Len(s)
      /\ \A k \in 1..Len(s) : t[k] = IF k <= j - 1 THEN r[k] ELSE IF k = j THEN s[i] ELSE r[k - 1]
  <2>1. /\ a \o c \in Seq(S) /\ Len(a \o c) = j
        /\ \A k \in 1..j : (a \o c)[k] = IF k <= j - 1 THEN a[k] ELSE c[k - (j - 1)]
    <3>1. Len(a) + Len(c) = j
      BY <1>1, <1>3, <1>6
    <3>2. /\ a \o c \in Seq(S) /\ Len(a \o c) = Len(a) + Len(c)
          /\ \A k \in 1..(Len(a) + Len(c)) : (a \o c)[k] = IF k <= Len(a) THEN a[k] ELSE c[k - Len(a)]
      BY <1>3, <1>6, ConcatProperties
    <3> QED BY <1>3, <3>1, <3>2
  <2>2. /\ t \in Seq(S) /\ Len(t) = Len(s)
        /\ \A k \in 1..Len(s) : t[k] = IF k <= j THEN (a \o c)[k] ELSE b[k - j]
    <3>1. Len(a \o c) = j /\ Len(b) = Len(s) - j /\ Len(a \o c) + Len(b) = Len(s)
      <4>1. Len(a \o c) = j /\ Len(b) = Len(s) - j
        BY <1>4, <2>1
      <4> QED BY <1>1, <4>1
    <3>2. /\ t \in Seq(S) /\ Len(t) = Len(a \o c) + Len(b)
          /\ \A k \in 1..(Len(a \o c) + Len(b)) : t[k] = IF k <= Len(a \o c) THEN (a \o c)[k] ELSE b[k - Len(a \o c)]
      <4> DEFINE ac == a \o c
      <4>1. ac \in Seq(S) /\ b \in Seq(S)
        BY <1>4, <2>1
      <4> HIDE DEF ac
      <4>2. /\ ac \o b \in Seq(S) /\ Len(ac \o b) = Len(ac) + Len(b)
            /\ \A k \in 1..(Len(ac) + Len(b)) : (ac \o b)[k] = IF k <= Len(ac) THEN ac[k] ELSE b[k - Len(ac)]
        BY <4>1, ConcatProperties
      <4>3. t = ac \o b
        BY DEF ac
      <4> HIDE DEF t
      <4> QED BY <4>2, <4>3 DEF ac
    <3> HIDE DEF t
    <3> QED BY <3>1, <3>2
  <2> HIDE DEF t
  <2>3. ASSUME NEW k \in 1..Len(s)
        PROVE  t[k] = IF k <= j - 1 THEN r[k] ELSE IF k = j THEN s[i] ELSE r[k - 1]
    <3>1. CASE k <= j - 1
      <4>1. k \in 1..j /\ k \in 1..(j - 1) /\ k <= j
        BY <1>1, <3>1
      <4> QED BY <1>3, <2>1, <2>2, <3>1, <4>1
    <3>2. CASE k = j
      <4>1. k \in 1..j /\ k <= j /\ ~(k <= j - 1) /\ k - (j - 1) = 1
        BY <1>1, <3>2
      <4> QED BY <1>6, <2>1, <2>2, <3>2, <4>1
    <3>3. CASE k > j
      <4>1. ~(k <= j) /\ ~(k <= j - 1) /\ k # j /\ k - j \in 1..(Len(s) - j) /\ j + (k - j) - 1 = k - 1
        BY <1>1, <3>3
      <4> QED BY <1>4, <2>2, <4>1
    <3> QED BY <1>1, <3>1, <3>2, <3>3
  <2> QED BY <2>2, <2>3
<1> HIDE DEF t
<1>8. ASSUME NEW k \in 1..Len(s) PROVE \E m \in 1..Len(s) : t[k] = s[m]
  <2>1. CASE k <= j - 1
    <3>1. k \in DOMAIN r
      BY <1>1, <1>2, <2>1
    <3> QED BY <1>1, <1>2, <1>7, <2>1, <3>1
  <2>2. CASE k = j
    BY <1>1, <1>7, <2>2
  <2>3. CASE k > j
    <3>1. k - 1 \in DOMAIN r /\ ~(k <= j - 1) /\ k # j
      BY <1>1, <1>2, <2>3
    <3> QED BY <1>1, <1>2, <1>7, <3>1
  <2> QED BY <1>1, <2>1, <2>2, <2>3
<1>9. ASSUME NEW m \in 1..Len(s) PROVE \E k \in 1..Len(s) : t[k] = s[m]
  <2>1. CASE m = i
    <3>1. t[j] = s[i]
      <4>1. ~(j <= j - 1)
        BY <1>1
      <4> QED BY <1>1, <1>7, <4>1
    <3> QED BY <1>1, <2>1, <3>1
  <2>2. CASE m # i
    <3>1. PICK k \in DOMAIN r : m = IF k < i THEN k ELSE k + 1
      BY <1>1, <1>2, <2>2
    <3>2. r[k] = s[m] /\ k \in 1..(Len(s) - 1)
      BY <1>2, <3>1
    <3>3. CASE k <= j - 1
      <4>1. k \in 1..Len(s)
        BY <1>1, <3>2
      <4> QED BY <1>7, <3>2, <3>3, <4>1
    <3>4. CASE ~(k <= j - 1)
      <4>1. k + 1 \in 1..Len(s) /\ ~(k + 1 <= j - 1) /\ k + 1 # j /\ (k + 1) - 1 = k
        BY <1>1, <3>2, <3>4
      <4> QED BY <1>7, <3>2, <4>1
    <3> QED BY <3>3, <3>4
  <2> QED BY <2>1, <2>2
<1>10. ToSet(t) = ToSet(s)
  <2>1. (\A x : x \in ToSet(t) <=> \E k \in 1..Len(s) : x = t[k]) /\ (\A x : x \in ToSet(s) <=> \E k \in 1..Len(s) : x = s[k])
    <3>1. DOMAIN t = 1..Len(s)
      BY <1>7, LenProperties
    <3> QED BY <1>1, <3>1 DEF ToSet
  <2> QED BY <1>8, <1>9, <2>1
<1> QED BY <1>5, <1>7, <1>10 DEF Rearranged, t

-----------------------------------------------------------------------------
(* One request moves on, the others stay as they are: their claims hold on.  *)

SameWork(a, b) ==
  /\ a.kind = b.kind /\ a.menu = b.menu /\ a.category = b.category /\ a.product = b.product
  /\ a.list = b.list /\ a.undo = b.undo /\ a.phase = b.phase /\ a.answer = b.answer

SameTakes(a, b) == a.kind = b.kind /\ a.category = b.category /\ a.product = b.product /\ a.list = b.list

(* A step of r changes no more than what r has taken.                        *)
OnlyTaken(r, s, g, s2, g2) ==
  /\ g2.menu = g.menu
  /\ ~TakesOrder(r) => /\ g2.categories = g.categories /\ CategoriesOf(s2, g.menu) = CategoriesOf(s, g.menu)
                       /\ s2.menuOf = s.menuOf
  /\ \A p \in Product : ~TakesProduct(r, p) =>
       /\ g2.rows[p] = g.rows[p] /\ s2.rows[p] = s.rows[p]
       /\ \A c \in Category : p \in ToSet(g2.lists[c]) <=> p \in ToSet(g.lists[c])
  /\ \A c \in Category : ~TakesList(r, c) => ToSet(g2.lists[c]) \subseteq ToSet(g.lists[c])

LEMMA OrderClaimGoes ==
  ASSUME NEW r, NEW x, NEW y, NEW s, NEW g, NEW s2, NEW g2,
         OnlyTaken(r, s, g, s2, g2), ~TakesOrder(r), SameWork(y, x), OrderClaim(x, s, g)
  PROVE  OrderClaim(y, s2, g2)
  BY DEF OnlyTaken, SameWork, OrderClaim, OrderAgrees, Pending, Done

LEMMA ProductAgreesOn ==
  ASSUME NEW r, NEW s, NEW g, NEW s2, NEW g2, OnlyTaken(r, s, g, s2, g2),
         NEW p \in Product, ~TakesProduct(r, p)
  PROVE  /\ Placed(p, s, g) <=> Placed(p, s2, g2)
         /\ ProductAgrees(p, s, g) <=> ProductAgrees(p, s2, g2)
  BY DEF OnlyTaken, Placed, InCategory, ProductAgrees

LEMMA ProductClaimGoes ==
  ASSUME NEW r, NEW x, NEW y, NEW s, NEW g, NEW s2, NEW g2, NEW p \in Product,
         OnlyTaken(r, s, g, s2, g2), ~TakesProduct(r, p), SameWork(y, x), ProductClaim(x, p, s, g)
  PROVE  ProductClaim(y, p, s2, g2)
<1>1. /\ Placed(p, s, g) <=> Placed(p, s2, g2)
      /\ ProductAgrees(p, s, g) <=> ProductAgrees(p, s2, g2)
  BY ProductAgreesOn
<1>2. /\ g2.rows[p] = g.rows[p] /\ s2.rows[p] = s.rows[p]
      /\ \A c \in Category : p \in ToSet(g2.lists[c]) <=> p \in ToSet(g.lists[c])
      /\ \A c \in Category : InCategory(p, c, s) <=> InCategory(p, c, s2)
  BY DEF OnlyTaken, InCategory
<1> QED BY <1>1, <1>2 DEF SameWork, ProductClaim, Pending, Done

LEMMA ClaimGoes ==
  ASSUME NEW r, NEW x, NEW y, NEW s, NEW g, NEW s2, NEW g2,
         OnlyTaken(r, s, g, s2, g2), Apart(r, x), SameWork(y, x), Claims(x, s, g),
         x.kind = "reorderProducts" => x.category \in Category /\ ToSet(x.list) \subseteq Product,
         \A c \in Category : ToSet(g.lists[c]) \subseteq Product
  PROVE  Claims(y, s2, g2)
<1>1. y.menu = g2.menu
  BY DEF OnlyTaken, SameWork, Claims
<1>2. TakesOrder(y) => OrderClaim(y, s2, g2)
  <2> SUFFICES ASSUME TakesOrder(y) PROVE OrderClaim(y, s2, g2)
    OBVIOUS
  <2>1. TakesOrder(x)
    BY DEF TakesOrder, SameWork
  <2> QED BY <2>1, OrderClaimGoes DEF Apart, Claims
<1>3. ASSUME NEW p \in Product, TakesProduct(y, p) PROVE ProductClaim(y, p, s2, g2)
  <2>1. TakesProduct(x, p)
    BY <1>3 DEF TakesProduct, SameWork
  <2> QED BY <2>1, ProductClaimGoes DEF Apart, Claims
<1>4. ASSUME y.kind = "reorderProducts" PROVE ToSet(g2.lists[y.category]) = ToSet(y.list)
  <2> DEFINE c == x.category
  <2>1. x.kind = "reorderProducts" /\ c \in Category /\ y.category = c /\ y.list = x.list /\ ToSet(x.list) \subseteq Product
    BY <1>4 DEF SameWork
  <2>2. ToSet(g.lists[c]) = ToSet(x.list) /\ ~TakesList(r, c)
    BY <2>1 DEF Claims, ListClaim, Apart, TakesList
  <2>3. \A p \in ToSet(x.list) : ~TakesProduct(r, p)
    BY <2>1 DEF Apart, TakesProduct
  <2>4. \A p \in ToSet(x.list) : p \in ToSet(g2.lists[c])
    BY <2>1, <2>2, <2>3 DEF OnlyTaken
  <2>5. ToSet(g2.lists[c]) \subseteq ToSet(g.lists[c])
    BY <2>1, <2>2 DEF OnlyTaken
  <2> QED BY <2>1, <2>2, <2>4, <2>5
<1> QED BY <1>1, <1>2, <1>3, <1>4 DEF Claims, ListClaim

LEMMA ApartTakes ==
  ASSUME NEW a, NEW b, NEW c, NEW d, SameTakes(c, a), SameTakes(d, b), Apart(a, b)
  PROVE  Apart(c, d) /\ Apart(d, c)
  BY DEF SameTakes, Apart, TakesOrder, TakesList, TakesProduct

ListedProducts(q, g) ==
  /\ \A c \in Category : ToSet(g.lists[c]) \subseteq Product
  /\ \A i \in DOMAIN q : q[i].kind = "reorderProducts" => q[i].category \in Category /\ ToSet(q[i].list) \subseteq Product

(* r moves on: of what is under way now, `here` was under way before, with   *)
(* its number then in `from`; the rest is r itself.                          *)
GoesOn(q, s, g, q2, s2, g2, r, here, from) ==
  /\ ClaimsHold(q, s, g) /\ ListedProducts(q, g) /\ OnlyTaken(r, s, g, s2, g2)
  /\ here \subseteq DOMAIN q2
  /\ \A k \in here : from[k] \in DOMAIN q /\ SameWork(q2[k], q[from[k]]) /\ Apart(r, q[from[k]])
  /\ \A k, l \in here : from[k] = from[l] => k = l
  /\ \A j \in DOMAIN q : SameTakes(q[j], r) \/ \E k \in here : from[k] = j
  /\ \A k \in DOMAIN q2 \ here : SameTakes(q2[k], r) /\ Claims(q2[k], s2, g2)
  /\ \A k, l \in DOMAIN q2 \ here : k = l
  /\ g2.count[g2.menu] = Len(g2.categories)
  /\ here = DOMAIN q2 => /\ TakesOrder(r) => OrderAgrees(s2, g2)
                         /\ \A p \in Product : TakesProduct(r, p) => ProductAgrees(p, s2, g2)

LEMMA ClaimsGo ==
  ASSUME NEW q, NEW s, NEW g, NEW q2, NEW s2, NEW g2, NEW r, NEW here, NEW from,
         GoesOn(q, s, g, q2, s2, g2, r, here, from)
  PROVE  ClaimsHold(q2, s2, g2)
<1> USE DEF GoesOn
<1>0. \A k \in here : SameTakes(q2[k], q[from[k]])
  BY DEF SameWork, SameTakes
<1>1. ASSUME NEW k \in DOMAIN q2, NEW l \in DOMAIN q2, k # l PROVE Apart(q2[k], q2[l])
  <2>1. CASE k \in here /\ l \in here
    <3>1. Apart(q[from[k]], q[from[l]])
      BY <1>1, <2>1 DEF ClaimsHold
    <3> QED BY <1>0, <2>1, <3>1, ApartTakes
  <2>2. CASE k \in here /\ l \notin here
    <3>1. Apart(r, q[from[k]]) /\ SameTakes(q2[l], r)
      BY <2>2
    <3> QED BY <1>0, <2>2, <3>1, ApartTakes
  <2>3. CASE k \notin here /\ l \in here
    <3>1. Apart(r, q[from[l]]) /\ SameTakes(q2[k], r)
      BY <2>3
    <3> QED BY <1>0, <2>3, <3>1, ApartTakes
  <2> QED BY <1>1, <2>1, <2>2, <2>3
<1>2. ASSUME NEW k \in DOMAIN q2 PROVE Claims(q2[k], s2, g2)
  <2>1. CASE k \in here
    <3>1. from[k] \in DOMAIN q /\ SameWork(q2[k], q[from[k]]) /\ Apart(r, q[from[k]])
      BY <2>1
    <3>2. Claims(q[from[k]], s, g)
      BY <3>1 DEF ClaimsHold
    <3>3. /\ q[from[k]].kind = "reorderProducts" => q[from[k]].category \in Category /\ ToSet(q[from[k]].list) \subseteq Product
          /\ \A c \in Category : ToSet(g.lists[c]) \subseteq Product
      BY <3>1 DEF ListedProducts
    <3> QED BY <3>1, <3>2, <3>3, ClaimGoes
  <2> QED BY <2>1
<1>3. ASSUME \A k \in DOMAIN q2 : ~TakesOrder(q2[k]) PROVE OrderAgrees(s2, g2)
  <2>1. CASE TakesOrder(r)
    <3>1. here = DOMAIN q2
      BY <1>3, <2>1 DEF SameTakes, TakesOrder
    <3> QED BY <2>1, <3>1
  <2>2. CASE ~TakesOrder(r)
    <3>1. \A j \in DOMAIN q : ~TakesOrder(q[j])
      BY <1>0, <1>3, <2>2 DEF SameTakes, TakesOrder
    <3>2. OrderAgrees(s, g)
      BY <3>1 DEF ClaimsHold
    <3> QED BY <2>2, <3>2 DEF OnlyTaken, OrderAgrees
  <2> QED BY <2>1, <2>2
<1>4. ASSUME NEW p \in Product, \A k \in DOMAIN q2 : ~TakesProduct(q2[k], p) PROVE ProductAgrees(p, s2, g2)
  <2>1. CASE TakesProduct(r, p)
    <3>1. here = DOMAIN q2
      BY <1>4, <2>1 DEF SameTakes, TakesProduct
    <3> QED BY <2>1, <3>1
  <2>2. CASE ~TakesProduct(r, p)
    <3>1. \A j \in DOMAIN q : ~TakesProduct(q[j], p)
      BY <1>0, <1>4, <2>2 DEF SameTakes, TakesProduct
    <3>2. ProductAgrees(p, s, g)
      BY <3>1 DEF ClaimsHold
    <3> QED BY <2>2, <3>2, ProductAgreesOn
  <2> QED BY <2>1, <2>2
<1> QED BY <1>1, <1>2, <1>3, <1>4 DEF ClaimsHold

-----------------------------------------------------------------------------
(* A request is sent, answered, and over.                                   *)

LEMMA TakesTouches ==
  ASSUME NEW r, r.kind \in EditorKinds
  PROVE  /\ TakesOrder(r) => order \in Touches(r)
         /\ \A c \in Category : TakesList(r, c) => <<"category", c>> \in Touches(r)
         /\ \A p \in Product : TakesProduct(r, p) => <<"product", p>> \in Touches(r)
<1>1. CASE r.kind \in {"load", "bulkPrice"}
  BY <1>1 DEF Touches, categoriesOf, productsOf
<1>2. CASE r.kind \in {"reorderCategories", "saveCategory"}
  BY <1>2 DEF Touches, TakesList, TakesProduct
<1>3. CASE r.kind = "reorderProducts"
  BY <1>3 DEF Touches, categoriesOf, productsOf, TakesOrder, TakesList, TakesProduct
<1>4. CASE r.kind \in {"price", "active", "deleteProduct"}
  BY <1>4 DEF Touches, productsOf, TakesOrder, TakesList, TakesProduct
<1>5. CASE r.kind = "saveProduct"
  BY <1>5 DEF Touches, categoriesOf, productsOf, TakesOrder, TakesList, TakesProduct
<1>6. CASE r.kind = "deleteCategory"
  BY <1>6 DEF Touches, categoriesOf, productsOf, TakesOrder, TakesList, TakesProduct
<1> QED BY <1>1, <1>2, <1>3, <1>4, <1>5, <1>6 DEF EditorKinds

LEMMA TouchesMeet ==
  ASSUME NEW r, r.kind \in EditorKinds, ~Overlaps(r), NEW i \in DOMAIN requests, requests[i].kind \in EditorKinds
  PROVE  Apart(r, requests[i])
<1> DEFINE x == requests[i]
<1>1. Touches(x) \cap Touches(r) = {}
  BY DEF Overlaps, UnderWay
<1>2. /\ TakesOrder(r) => order \in Touches(r)
      /\ \A c \in Category : TakesList(r, c) => <<"category", c>> \in Touches(r)
      /\ \A p \in Product : TakesProduct(r, p) => <<"product", p>> \in Touches(r)
  BY TakesTouches
<1>3. /\ TakesOrder(x) => order \in Touches(x)
      /\ \A c \in Category : TakesList(x, c) => <<"category", c>> \in Touches(x)
      /\ \A p \in Product : TakesProduct(x, p) => <<"product", p>> \in Touches(x)
  <2> HIDE DEF x
  <2> QED BY TakesTouches DEF x
<1> HIDE DEF x
<1>4. Apart(r, x)
  BY <1>1, <1>2, <1>3, Zenon DEF Apart
<1> QED BY <1>4 DEF x

Agreed(r, s, g) ==
  /\ TakesOrder(r) => OrderAgrees(s, g)
  /\ \A p \in Product : TakesProduct(r, p) => ProductAgrees(p, s, g)

LEMMA AgreedBefore ==
  ASSUME NEW q, NEW s, NEW g, NEW r, ClaimsHold(q, s, g), \A i \in DOMAIN q : Apart(r, q[i])
  PROVE  Agreed(r, s, g)
  BY DEF Agreed, ClaimsHold, Apart

LEMMA InvListed ==
  ASSUME PageOK, RequestsOK
  PROVE  ListedProducts(requests, page)
<1>1. \A c \in Category : ToSet(page.lists[c]) \subseteq Product
  <2>1. \A c \in Category : page.lists[c] \in Seq(Product)
    BY DEF PageOK
  <2>2. \A c \in Category : \A k \in DOMAIN page.lists[c] : page.lists[c][k] \in Product
    BY <2>1, ElementOfSeq, LenProperties
  <2> QED BY <2>2 DEF ToSet
<1>2. ASSUME NEW i \in DOMAIN requests, requests[i].kind = "reorderProducts"
      PROVE  requests[i].category \in Category /\ ToSet(requests[i].list) \subseteq Product
  <2>1. requests[i].category \in Category /\ requests[i].list \in Seq(Product)
    BY <1>2 DEF RequestsOK, KindOK, Rearranged
  <2>2. \A k \in DOMAIN requests[i].list : requests[i].list[k] \in Product
    BY <2>1, ElementOfSeq, LenProperties
  <2> QED BY <2>1, <2>2 DEF ToSet
<1> QED BY <1>1, <1>2 DEF ListedProducts

(* A handler sends r: what r takes was as it is stored until now.            *)
LEMMA SendHolds ==
  ASSUME PageOK, RequestsOK, NEW r \in EditorRequest, r.kind # "load", Send(r), stored' = stored,
         Claimed => ClaimsHold(requests, stored, page),
         OnlyTaken(r, stored, page, stored, page'),
         Agreed(r, stored, page) => Claims(r, stored, page'),
         page.count[page.menu] = Len(page.categories) => page'.count[page.menu] = Len(page'.categories)
  PROVE  Claimed' => ClaimsHold(requests', stored', page')
<1> SUFFICES ASSUME Claimed' PROVE ClaimsHold(requests', stored', page')
  OBVIOUS
<1>1. r.kind \in EditorKinds /\ \A i \in DOMAIN requests : requests[i] \in EditorRequest /\ requests[i].kind \in EditorKinds
  <2>1. r.kind \in EditorKinds
    BY DEF EditorRequest
  <2>2. \A i \in DOMAIN requests : requests[i] \in EditorRequest
    BY ElementOfSeq, LenProperties DEF RequestsOK
  <2> QED BY <2>1, <2>2 DEF EditorRequest
<1>2. /\ Disturbed \in Seq(EditorRequest) /\ DOMAIN Disturbed = DOMAIN requests /\ Len(Disturbed) = Len(requests)
      /\ \A i \in DOMAIN requests : Disturbed[i] = [requests[i] EXCEPT !.alone = FALSE]
  <2>1. requests \in Seq(EditorRequest) /\ DOMAIN requests = 1..Len(requests) /\ Len(requests) \in Nat
    BY LenProperties DEF RequestsOK
  <2>2. \A i \in 1..Len(requests) : [requests[i] EXCEPT !.alone = FALSE] \in EditorRequest
    BY <1>1, <2>1 DEF EditorRequest
  <2>3. Disturbed = [i \in 1..Len(requests) |-> [requests[i] EXCEPT !.alone = FALSE]]
    BY <2>1 DEF Disturbed
  <2>4. Disturbed \in [1..Len(requests) -> EditorRequest]
    BY <2>2, <2>3
  <2>5. Disturbed \in Seq(EditorRequest)
    BY <2>1, <2>4, IsASeq
  <2>6. Len(Disturbed) = Len(requests)
    BY <2>1, <2>3, <2>5, LenProperties
  <2> QED BY <2>1, <2>3, <2>5, <2>6
<1>3. /\ requests' = Append(Disturbed, r) /\ Len(requests) \in Nat
      /\ DOMAIN requests' = DOMAIN requests \cup {Len(requests) + 1} /\ Len(requests) + 1 \notin DOMAIN requests
      /\ requests'[Len(requests) + 1] = r
      /\ \A i \in DOMAIN requests : requests'[i] = [requests[i] EXCEPT !.alone = FALSE]
  <2>1. requests' = Append(Disturbed, r)
    BY DEF Send
  <2> HIDE DEF Disturbed
  <2>2. /\ Len(Disturbed) \in Nat
        /\ DOMAIN Append(Disturbed, r) = DOMAIN Disturbed \cup {Len(Disturbed) + 1} /\ Len(Disturbed) + 1 \notin DOMAIN Disturbed
        /\ Append(Disturbed, r)[Len(Disturbed) + 1] = r
        /\ \A i \in DOMAIN Disturbed : Append(Disturbed, r)[i] = Disturbed[i]
    BY <1>2, Appended
  <2> QED BY <1>2, <2>1, <2>2
<1>4. inSync /\ ~Overlaps(r)
  BY DEF Claimed, Send
<1>5. Claimed
  <2>1. page.menu # None
    BY DEF Claimed, OnlyTaken
  <2>2. \A i \in DOMAIN requests : i \in DOMAIN requests' /\ requests'[i].kind = requests[i].kind
    BY <1>1, <1>3 DEF EditorRequest
  <2> QED BY <1>4, <2>1, <2>2 DEF Claimed, Loading
<1>6. ClaimsHold(requests, stored, page)
  BY <1>5
<1>7. \A i \in DOMAIN requests : Apart(r, requests[i])
  BY <1>1, <1>4, TouchesMeet
<1>8. Claims(r, stored, page')
  BY <1>6, <1>7, AgreedBefore
<1> DEFINE here == DOMAIN requests
           from == [k \in DOMAIN requests |-> k]
<1>9. here \in SUBSET DOMAIN requests'
  BY <1>3
<1>10. \A k \in here : from[k] \in DOMAIN requests /\ SameWork(requests'[k], requests[from[k]]) /\ Apart(r, requests[from[k]])
  <2>1. ASSUME NEW k \in here PROVE SameWork(requests'[k], requests[k])
    <3> DEFINE x == requests[k]
    <3>1. x \in EditorRequest /\ requests'[k] = [x EXCEPT !.alone = FALSE]
      BY <1>1, <1>3
    <3> HIDE DEF x
    <3>2. SameWork([x EXCEPT !.alone = FALSE], x)
      BY <3>1 DEF SameWork, EditorRequest
    <3> QED BY <3>1, <3>2 DEF x
  <2> QED BY <1>7, <2>1
<1>11. /\ \A k, l \in here : from[k] = from[l] => k = l
       /\ \A j \in DOMAIN requests : \E k \in here : from[k] = j
       /\ \A k, l \in DOMAIN requests' \ here : k = l
       /\ here # DOMAIN requests'
  BY <1>3
<1>12. \A k \in DOMAIN requests' \ here : SameTakes(requests'[k], r) /\ Claims(requests'[k], stored', page')
  <2>1. \A k \in DOMAIN requests' \ here : requests'[k] = r
    BY <1>3
  <2> QED BY <1>8, <2>1 DEF SameTakes
<1>13. page'.count[page'.menu] = Len(page'.categories)
  <2>1. page.count[page.menu] = Len(page.categories) /\ page'.menu = page.menu
    BY <1>6 DEF ClaimsHold, OnlyTaken
  <2> QED BY <2>1
<1>14. OnlyTaken(r, stored, page, stored', page')
  OBVIOUS
<1>15. /\ \A j \in DOMAIN requests : SameTakes(requests[j], r) \/ \E k \in here : from[k] = j
       /\ here = DOMAIN requests' => /\ TakesOrder(r) => OrderAgrees(stored', page')
                                     /\ \A p \in Product : TakesProduct(r, p) => ProductAgrees(p, stored', page')
  BY <1>11
<1>16. ListedProducts(requests, page)
  BY InvListed
<1> HIDE DEF here, from
<1>17. GoesOn(requests, stored, page, requests', stored', page', r, here, from)
  BY <1>6, <1>9, <1>10, <1>11, <1>12, <1>13, <1>14, <1>15, <1>16 DEF GoesOn
<1> QED BY ONLY <1>17, ClaimsGo

(* The server answers a request: the page stays as it is.                    *)
LEMMA AnswerHolds ==
  ASSUME PageOK, RequestsOK, NEW i \in DOMAIN requests, NEW phase, NEW answer, AnswerWith(i, phase, answer),
         page' = page, ClaimsHold(requests, stored, page),
         OnlyTaken(requests[i], stored, page, stored', page),
         Claims([requests[i] EXCEPT !.phase = phase, !.answer = answer], stored', page)
  PROVE  ClaimsHold(requests', stored', page')
<1> DEFINE r == requests[i]
           here == DOMAIN requests \ {i}
           from == [k \in DOMAIN requests |-> k]
<1>1. requests \in Seq(EditorRequest) /\ r \in EditorRequest
  BY ElementOfSeq, LenProperties DEF RequestsOK
<1>2. /\ DOMAIN requests' = DOMAIN requests
      /\ requests'[i] = [r EXCEPT !.phase = phase, !.answer = answer]
      /\ \A k \in here : requests'[k] = requests[k]
  BY <1>1 DEF AnswerWith
<1>3. here \in SUBSET DOMAIN requests'
  BY <1>2
<1>4. \A k \in here : from[k] \in DOMAIN requests /\ SameWork(requests'[k], requests[from[k]]) /\ Apart(r, requests[from[k]])
  BY <1>2 DEF SameWork, ClaimsHold
<1>5. SameTakes(r, r) /\ SameTakes(requests'[i], r)
  BY <1>1, <1>2 DEF SameTakes, EditorRequest
<1>6. /\ \A k, l \in here : from[k] = from[l] => k = l
      /\ \A j \in DOMAIN requests : SameTakes(requests[j], r) \/ \E k \in here : from[k] = j
      /\ \A k, l \in DOMAIN requests' \ here : k = l
      /\ here # DOMAIN requests'
  BY <1>2, <1>5
<1>7. \A k \in DOMAIN requests' \ here : SameTakes(requests'[k], r) /\ Claims(requests'[k], stored', page')
  <2>1. \A k \in DOMAIN requests' \ here : k = i
    BY <1>2
  <2> QED BY <1>2, <1>5, <2>1
<1>8. page'.count[page'.menu] = Len(page'.categories)
  BY DEF ClaimsHold
<1>9. OnlyTaken(r, stored, page, stored', page')
  OBVIOUS
<1>10. here = DOMAIN requests' => /\ TakesOrder(r) => OrderAgrees(stored', page')
                                  /\ \A p \in Product : TakesProduct(r, p) => ProductAgrees(p, stored', page')
  BY <1>6
<1>11. ListedProducts(requests, page)
  BY InvListed
<1> HIDE DEF here, from, r
<1>12. GoesOn(requests, stored, page, requests', stored', page', r, here, from)
  BY <1>3, <1>4, <1>6, <1>7, <1>8, <1>9, <1>10, <1>11 DEF GoesOn
<1> QED BY ONLY <1>12, ClaimsGo

(* The answer lands: what the request took is as it is stored from now on.   *)
LEMMA OverHolds ==
  ASSUME PageOK, RequestsOK, NEW i \in DOMAIN requests, requests' = RemoveAt(requests, i),
         stored' = stored, ClaimsHold(requests, stored, page),
         OnlyTaken(requests[i], stored, page, stored, page'),
         Agreed(requests[i], stored, page'), page'.count[page'.menu] = Len(page'.categories)
  PROVE  ClaimsHold(requests', stored', page')
<1> DEFINE r == requests[i]
           here == DOMAIN requests'
           from == [k \in DOMAIN requests' |-> IF k < i THEN k ELSE k + 1]
<1>1. requests \in Seq(EditorRequest) /\ DOMAIN requests = 1..Len(requests) /\ Len(requests) \in Nat
  BY LenProperties DEF RequestsOK
<1>2. /\ Len(requests') = Len(requests) - 1 /\ requests' \in Seq(EditorRequest)
      /\ \A k \in DOMAIN requests' :
           /\ (IF k < i THEN k ELSE k + 1) \in DOMAIN requests \ {i}
           /\ requests'[k] = requests[IF k < i THEN k ELSE k + 1]
      /\ \A j \in DOMAIN requests \ {i} : \E k \in DOMAIN requests' : j = IF k < i THEN k ELSE k + 1
  <2> DEFINE q == RemoveAt(requests, i)
  <2>1. /\ Len(q) = Len(requests) - 1 /\ q \in Seq(EditorRequest)
        /\ \A k \in DOMAIN q :
             /\ (IF k < i THEN k ELSE k + 1) \in DOMAIN requests \ {i}
             /\ q[k] = requests[IF k < i THEN k ELSE k + 1]
        /\ \A j \in DOMAIN requests \ {i} : \E k \in DOMAIN q : j = IF k < i THEN k ELSE k + 1
    <3>1. requests \in Seq(EditorRequest)
      BY <1>1
    <3> QED BY ONLY <3>1, i \in DOMAIN requests, Removed
  <2> HIDE DEF q
  <2>2. requests' = q
    BY DEF q
  <2> QED BY <2>1, <2>2
<1>3. \A k \in here : from[k] \in DOMAIN requests \ {i} /\ requests'[k] = requests[from[k]]
  BY <1>2
<1>4. \A k \in here : from[k] \in DOMAIN requests /\ SameWork(requests'[k], requests[from[k]]) /\ Apart(r, requests[from[k]])
  <2>1. \A k \in here : Apart(r, requests[from[k]])
    BY <1>3 DEF ClaimsHold
  <2> QED BY <1>3, <2>1 DEF SameWork
<1>5. \A k, l \in here : from[k] = from[l] => k = l
  <2>1. here = 1..(Len(requests) - 1) /\ i \in 1..Len(requests)
    BY <1>1, <1>2, LenProperties
  <2> QED BY <1>1, <2>1
<1>6. \A j \in DOMAIN requests : SameTakes(requests[j], r) \/ \E k \in here : from[k] = j
  BY <1>2 DEF SameTakes
<1>7. here \in SUBSET DOMAIN requests' /\ DOMAIN requests' \ here = {}
  OBVIOUS
<1>8. OnlyTaken(r, stored, page, stored', page')
  OBVIOUS
<1>9. /\ TakesOrder(r) => OrderAgrees(stored', page')
      /\ \A p \in Product : TakesProduct(r, p) => ProductAgrees(p, stored', page')
  BY DEF Agreed
<1> HIDE DEF here, from, r
<1>10. ListedProducts(requests, page)
  BY InvListed
<1>11. GoesOn(requests, stored, page, requests', stored', page', r, here, from)
  BY <1>4, <1>5, <1>6, <1>7, <1>8, <1>9, <1>10 DEF GoesOn
<1> QED BY ONLY <1>11, ClaimsGo

-----------------------------------------------------------------------------
(* The database keeps its shape.                                            *)

LEMMA JoinedLists ==
  ASSUME NEW S, NEW s \in Seq(S), NEW t \in Seq(S)
  PROVE  s \o t \in Seq(S) /\ ToSet(s \o t) = ToSet(s) \cup ToSet(t)
<1> DEFINE u == s \o t
<1>1. /\ DOMAIN s = 1..Len(s) /\ DOMAIN t = 1..Len(t) /\ Len(s) \in Nat /\ Len(t) \in Nat
  BY LenProperties
<1>2. /\ u \in Seq(S) /\ Len(u) = Len(s) + Len(t)
      /\ \A k \in 1..(Len(s) + Len(t)) : u[k] = IF k <= Len(s) THEN s[k] ELSE t[k - Len(s)]
  BY ConcatProperties
<1>3. DOMAIN u = 1..(Len(s) + Len(t))
  BY <1>2, LenProperties
<1> HIDE DEF u
<1>4. \A k \in DOMAIN u : u[k] \in ToSet(s) \cup ToSet(t)
  <2>1. ASSUME NEW k \in DOMAIN u PROVE u[k] \in ToSet(s) \cup ToSet(t)
    <3>1. CASE k <= Len(s)
      BY <1>1, <1>2, <1>3, <3>1 DEF ToSet
    <3>2. CASE ~(k <= Len(s))
      <4>1. k - Len(s) \in 1..Len(t)
        BY <1>1, <1>3, <3>2
      <4> QED BY <1>1, <1>2, <1>3, <3>2, <4>1 DEF ToSet
    <3> QED BY <3>1, <3>2
  <2> QED BY <2>1
<1>5. \A k \in DOMAIN s : k \in DOMAIN u /\ u[k] = s[k]
  BY <1>1, <1>2, <1>3
<1>6. \A k \in DOMAIN t : k + Len(s) \in DOMAIN u /\ u[k + Len(s)] = t[k]
  <2>1. ASSUME NEW k \in DOMAIN t PROVE k + Len(s) \in DOMAIN u /\ u[k + Len(s)] = t[k]
    <3>1. k + Len(s) \in 1..(Len(s) + Len(t)) /\ ~(k + Len(s) <= Len(s)) /\ (k + Len(s)) - Len(s) = k
      BY <1>1
    <3> QED BY <1>2, <1>3, <3>1
  <2> QED BY <2>1
<1>7. ToSet(u) = ToSet(s) \cup ToSet(t)
  BY <1>4, <1>5, <1>6, Zenon DEF ToSet
<1> QED BY <1>2, <1>7 DEF u

LEMMA PositionTyped ==
  ASSUME NEW S, NEW s \in Seq(S), NEW e \in ToSet(s)
  PROVE  PositionIn(s, e) \in 1..Len(s) /\ s[PositionIn(s, e)] = e /\ PositionIn(s, e) - 1 \in Nat
<1>1. \E k \in DOMAIN s : s[k] = e
  BY DEF ToSet
<1>2. PositionIn(s, e) \in DOMAIN s /\ s[PositionIn(s, e)] = e
  BY <1>1 DEF PositionIn
<1>3. DOMAIN s = 1..Len(s) /\ Len(s) \in Nat
  BY LenProperties
<1> QED BY <1>2, <1>3

LEMMA NextPositionTyped ==
  ASSUME StoreOK, NEW c \in Category
  PROVE  NextPosition(stored.rows, c) \in Nat
<1> DEFINE rows == stored.rows
           P == ProductsOf(rows, c)
           used == {rows[p].position : p \in P}
           f == [p \in P |-> rows[p].position]
<1>1. P \in SUBSET Product /\ IsFiniteSet(P) /\ \A p \in P : rows[p] \in Row /\ rows[p].position \in Nat
  <2>1. P \in SUBSET Product
    BY DEF ProductsOf
  <2>2. IsFiniteSet(P)
    BY <2>1, EditorConstants, FS_Subset
  <2>3. \A p \in P : rows[p] \in Row
    BY <2>1 DEF ProductsOf, StoreOK, StoreShape, RowTable
  <2> QED BY <2>1, <2>2, <2>3 DEF Row
<1> HIDE DEF P
<1>2. used \in SUBSET Nat
  BY <1>1
<1>3. f \in Surjection(P, used)
  <2>1. f \in [P -> used]
    OBVIOUS
  <2>2. \A u \in used : \E p \in P : f[p] = u
    OBVIOUS
  <2> QED BY <2>1, <2>2 DEF Surjection
<1>4. IsFiniteSet(used)
  <2> HIDE DEF used, f
  <2> QED BY <1>1, <1>3, FS_Surjection
<1>5. used # {} => \E n \in used : \A k \in used : k <= n
  <2> HIDE DEF used
  <2> QED BY <1>2, <1>4, LargestExists
<1>6. NextPosition(rows, c) = IF used = {} THEN 0 ELSE 1 + CHOOSE n \in used : \A k \in used : k <= n
  BY DEF NextPosition, P
<1> HIDE DEF used
<1> DEFINE top == CHOOSE n \in used : \A k \in used : k <= n
<1>7. used # {} => top \in used
  BY <1>5
<1>8. NextPosition(rows, c) = IF used = {} THEN 0 ELSE 1 + top
  BY <1>6
<1> HIDE DEF top
<1>9. used = {} => NextPosition(rows, c) = 0
  BY <1>8
<1>10. used # {} => NextPosition(rows, c) = 1 + top /\ top \in Nat
  BY <1>2, <1>7, <1>8
<1> HIDE DEF rows
<1> QED BY <1>9, <1>10 DEF rows

LEMMA WithoutTyped ==
  ASSUME StoreOK, NEW c \in Category
  PROVE  StoreShape(WithoutCategory(stored, c))
<1> DEFINE s2 == WithoutCategory(stored, c)
           order2 == Filtered(stored.order, Category \ {c})
           menuOf2 == [stored.menuOf EXCEPT ![c] = None]
           rows2 == [p \in Product |-> IF stored.rows[p] # None /\ stored.rows[p].category = c THEN None ELSE stored.rows[p]]
<1>1. s2 = [order |-> order2, menuOf |-> menuOf2, rows |-> rows2]
  BY DEF WithoutCategory
<1>2. order2 \in Seq(Category) /\ ToSet(order2) = ToSet(stored.order) \cap (Category \ {c})
  BY FilterKeeps DEF StoreOK, StoreShape
<1>3. menuOf2 \in [Category -> Menu \cup {None}] /\ \A d \in Category : menuOf2[d] = IF d = c THEN None ELSE stored.menuOf[d]
  BY DEF StoreOK, StoreShape
<1>4. rows2 \in RowTable
  BY DEF StoreOK, StoreShape, RowTable
<1>5. ToSet(order2) = {d \in Category : menuOf2[d] # None}
  <2>1. ToSet(stored.order) = {d \in Category : stored.menuOf[d] # None}
    BY DEF StoreOK, StoreShape
  <2> QED BY <1>2, <1>3, <2>1
<1> HIDE DEF order2, menuOf2, rows2
<1> QED BY <1>1, <1>2, <1>3, <1>4, <1>5 DEF StoreShape

LEMMA AfterTyped ==
  ASSUME StoreOK, NEW r \in EditorRequest, KindOK(r), r.phase = "sent", r.kind # "load",
         ~MissingCategory(r), ~MissingProduct(r)
  PROVE  StoreShape(After(r))
<1> DEFINE s2 == After(r)
<1>0. /\ stored \in [order: Seq(Category), menuOf: [Category -> Menu \cup {None}], rows: RowTable]
      /\ ToSet(stored.order) = {c \in Category : stored.menuOf[c] # None}
      /\ stored.order \in Seq(Category) /\ stored.menuOf \in [Category -> Menu \cup {None}] /\ stored.rows \in RowTable
  BY DEF StoreOK, StoreShape
<1>1. CASE r.kind = "reorderCategories"
  <2> DEFINE rest == Filtered(stored.order, Category \ ToSet(r.list))
  <2>1. s2 = [stored EXCEPT !.order = r.list \o rest]
    BY <1>1 DEF After
  <2>2. r.list \in Seq(Category)
    BY <1>1 DEF KindOK, Rearranged
  <2>3. rest \in Seq(Category) /\ ToSet(rest) = ToSet(stored.order) \cap (Category \ ToSet(r.list))
    BY <1>0, FilterKeeps
  <2>4. ToSet(r.list) \subseteq ToSet(stored.order)
    <3>1. \A c \in ToSet(r.list) : stored.menuOf[c] # None
      BY <1>1 DEF MissingCategory
    <3>2. ToSet(r.list) \subseteq Category
      BY <2>2, LenProperties, ElementOfSeq DEF ToSet
    <3> QED BY <1>0, <3>1, <3>2
  <2> HIDE DEF rest
  <2>5. r.list \o rest \in Seq(Category) /\ ToSet(r.list \o rest) = ToSet(r.list) \cup ToSet(rest)
    BY <2>2, <2>3, JoinedLists
  <2>6. ToSet(r.list \o rest) = ToSet(stored.order)
    <3>1. ToSet(stored.order) \subseteq Category
      BY <1>0
    <3> QED BY <2>3, <2>4, <2>5, <3>1
  <2> QED BY <1>0, <2>1, <2>5, <2>6 DEF StoreShape
<1>2. CASE r.kind = "reorderProducts"
  <2> DEFINE rows2 == [p \in Product |-> IF p \in ToSet(r.list)
                THEN [stored.rows[p] EXCEPT !.category = r.category, !.position = PositionIn(r.list, p) - 1]
                ELSE stored.rows[p]]
  <2>1. s2 = [stored EXCEPT !.rows = rows2]
    BY <1>2 DEF After
  <2>2. r.list \in Seq(Product) /\ r.category \in Category
    BY <1>2 DEF KindOK, Rearranged
  <2>3. ASSUME NEW p \in Product PROVE rows2[p] \in Row \cup {None}
    <3>1. CASE p \in ToSet(r.list)
      <4>1. stored.rows[p] # None
        BY <1>2, <3>1 DEF MissingProduct
      <4>2. stored.rows[p] \in Row
        BY <1>0, <4>1 DEF RowTable
      <4>3. PositionIn(r.list, p) - 1 \in Nat
        BY <2>2, <3>1, PositionTyped
      <4> QED BY <2>2, <3>1, <4>2, <4>3 DEF Row
    <3>2. CASE p \notin ToSet(r.list)
      BY <1>0, <3>2 DEF RowTable
    <3> QED BY <3>1, <3>2
  <2>4. rows2 \in RowTable
    BY <2>3 DEF RowTable
  <2> HIDE DEF rows2
  <2> QED BY <1>0, <2>1, <2>4 DEF StoreShape
<1>3. CASE r.kind = "price"
  <2>1. stored.rows[r.product] \in Row /\ r.product \in Product /\ r.row \in Row
    BY <1>0, <1>3 DEF MissingProduct, RowTable, KindOK
  <2>2. s2 = [stored EXCEPT !.rows[r.product].price = r.row.price]
    BY <1>3 DEF After
  <2>3. [stored.rows[r.product] EXCEPT !.price = r.row.price] \in Row
    BY <2>1 DEF Row
  <2>4. [stored.rows EXCEPT ![r.product].price = r.row.price] \in RowTable
    BY <1>0, <2>1, <2>3 DEF RowTable
  <2> QED BY <1>0, <2>2, <2>4 DEF StoreShape
<1>4. CASE r.kind = "active"
  <2>1. stored.rows[r.product] \in Row /\ r.product \in Product /\ r.row \in Row
    BY <1>0, <1>4 DEF MissingProduct, RowTable, KindOK
  <2>2. s2 = [stored EXCEPT !.rows[r.product].active = r.row.active]
    BY <1>4 DEF After
  <2>3. [stored.rows[r.product] EXCEPT !.active = r.row.active] \in Row
    BY <2>1 DEF Row
  <2>4. [stored.rows EXCEPT ![r.product].active = r.row.active] \in RowTable
    BY <1>0, <2>1, <2>3 DEF RowTable
  <2> QED BY <1>0, <2>2, <2>4 DEF StoreShape
<1>5. CASE r.kind = "saveCategory"
  <2>1. r.category \in Category /\ r.menu \in Menu
    BY <1>5 DEF KindOK, EditorRequest
  <2>2. CASE stored.menuOf[r.category] # None
    BY <1>5, <2>2 DEF After, StoreOK
  <2>3. CASE stored.menuOf[r.category] = None
    <3>1. s2 = [stored EXCEPT !.order = Append(@, r.category), !.menuOf[r.category] = r.menu]
      BY <1>5, <2>3 DEF After
    <3>2. Append(stored.order, r.category) \in Seq(Category)
          /\ ToSet(Append(stored.order, r.category)) = ToSet(stored.order) \cup {r.category}
      BY <1>0, <2>1, AppendProperties, MembersAppend
    <3>3. r.menu # None
      BY <2>1, EditorConstants
    <3>4. /\ s2.order = Append(stored.order, r.category) /\ s2.rows = stored.rows
          /\ s2.menuOf = [stored.menuOf EXCEPT ![r.category] = r.menu]
          /\ s2 \in [order: Seq(Category), menuOf: [Category -> Menu \cup {None}], rows: RowTable]
      <4>1. [stored.menuOf EXCEPT ![r.category] = r.menu] \in [Category -> Menu \cup {None}]
        BY <1>0, <2>1
      <4>2. /\ s2.order = Append(stored.order, r.category) /\ s2.rows = stored.rows
            /\ s2.menuOf = [stored.menuOf EXCEPT ![r.category] = r.menu]
        BY <1>0, <3>1
      <4>3. s2 = [order |-> Append(stored.order, r.category), menuOf |-> [stored.menuOf EXCEPT ![r.category] = r.menu],
                  rows |-> stored.rows]
        BY <1>0, <3>1
      <4> HIDE DEF s2
      <4> QED BY <1>0, <3>2, <4>1, <4>2, <4>3
    <3>5. {c \in Category : s2.menuOf[c] # None} = {c \in Category : stored.menuOf[c] # None} \cup {r.category}
      <4> HIDE DEF s2
      <4> QED BY <1>0, <2>1, <3>3, <3>4
    <3> HIDE DEF s2
    <3> QED BY <1>0, <3>2, <3>4, <3>5 DEF StoreShape, s2
  <2> QED BY <2>2, <2>3
<1>6. CASE r.kind = "saveProduct"
  <2> DEFINE position == IF stored.rows[r.product] = None THEN NextPosition(stored.rows, r.category)
                         ELSE stored.rows[r.product].position
  <2>1. r.product \in Product /\ r.category \in Category /\ r.row \in Row
    BY <1>6 DEF KindOK
  <2>2. s2 = [stored EXCEPT !.rows[r.product] = [r.row EXCEPT !.position = position]]
    BY <1>6 DEF After
  <2>3. position \in Nat
    <3>1. stored.rows[r.product] # None => stored.rows[r.product].position \in Nat
      BY <1>0, <2>1 DEF RowTable, Row
    <3> QED BY <2>1, <3>1, NextPositionTyped
  <2> HIDE DEF position
  <2>4. [r.row EXCEPT !.position = position] \in Row
    BY <2>1, <2>3 DEF Row
  <2>5. [stored.rows EXCEPT ![r.product] = [r.row EXCEPT !.position = position]] \in RowTable
    BY <1>0, <2>1, <2>4 DEF RowTable
  <2> QED BY <1>0, <2>2, <2>5 DEF StoreShape
<1>7. CASE r.kind = "deleteCategory"
  <2>1. r.category \in Category /\ s2 = WithoutCategory(stored, r.category)
    BY <1>7 DEF KindOK, After
  <2> QED BY <2>1, WithoutTyped
<1>8. CASE r.kind = "deleteProduct"
  <2>1. r.product \in Product /\ s2 = [stored EXCEPT !.rows[r.product] = None]
    BY <1>8 DEF KindOK, After
  <2>2. [stored.rows EXCEPT ![r.product] = None] \in RowTable
    BY <1>0, <2>1 DEF RowTable
  <2> QED BY <1>0, <2>1, <2>2 DEF StoreShape
<1>9. CASE r.kind = "bulkPrice"
  <2> DEFINE rows2 == [p \in Product |->
            IF stored.rows[p] # None /\ stored.menuOf[stored.rows[p].category] = r.menu
            THEN [stored.rows[p] EXCEPT !.price = r.row.price] ELSE stored.rows[p]]
  <2>1. s2 = [stored EXCEPT !.rows = rows2] /\ r.row \in [price: Price]
    BY <1>9 DEF After, KindOK
  <2>2. rows2 \in RowTable
    BY <1>0, <2>1 DEF RowTable, Row
  <2> HIDE DEF rows2
  <2> QED BY <1>0, <2>1, <2>2 DEF StoreShape
<1> QED BY <1>1, <1>2, <1>3, <1>4, <1>5, <1>6, <1>7, <1>8, <1>9 DEF EditorRequest, EditorKinds

-----------------------------------------------------------------------------
(* What the server does with a request, and what the page then knows.        *)

Executes(r) ==
  /\ r \in EditorRequest /\ KindOK(r) /\ r.phase = "sent" /\ r.kind # "load"
  /\ ~MissingCategory(r) /\ ~MissingProduct(r)
  /\ Claims(r, stored, page) /\ page.menu # None
AnswerOf(r) == IF r.product # None THEN After(r).rows[r.product] ELSE None
DoneWith(r) == [r EXCEPT !.phase = "done", !.answer = AnswerOf(r)]
Executed(r) == OnlyTaken(r, stored, page, After(r), page) /\ Claims(DoneWith(r), After(r), page)

LEMMA DoneFields ==
  ASSUME NEW r, Executes(r)
  PROVE  LET d == DoneWith(r) IN
         /\ d.kind = r.kind /\ d.menu = r.menu /\ d.category = r.category /\ d.product = r.product
         /\ d.list = r.list /\ d.undo = r.undo /\ d.row = r.row /\ d.phase = "done" /\ d.answer = AnswerOf(r)
  BY DEF Executes, DoneWith, EditorRequest

(* The categories of a menu, by their places in the whole order.             *)
LEMMA CategoriesTyped ==
  ASSUME StoreOK, NEW m \in Menu
  PROVE  /\ CategoriesOf(stored, m) \in Seq(Category)
         /\ ToSet(CategoriesOf(stored, m)) = {c \in Category : stored.menuOf[c] = m}
<1> DEFINE W == {c \in Category : stored.menuOf[c] = m}
<1>1. stored.order \in Seq(Category) /\ ToSet(stored.order) = {c \in Category : stored.menuOf[c] # None}
  BY DEF StoreOK, StoreShape
<1>2. Filtered(stored.order, W) \in Seq(Category) /\ ToSet(Filtered(stored.order, W)) = ToSet(stored.order) \cap W
  <2> HIDE DEF W
  <2> QED BY <1>1, FilterKeeps
<1>3. W \subseteq ToSet(stored.order)
  BY <1>1, EditorConstants
<1>4. CategoriesOf(stored, m) = Filtered(stored.order, W)
  BY DEF CategoriesOf
<1> HIDE DEF W
<1>5. ToSet(stored.order) \cap W = W
  BY <1>3
<1>6. CategoriesOf(stored, m) \in Seq(Category) /\ ToSet(CategoriesOf(stored, m)) = W
  BY <1>2, <1>4, <1>5
<1> QED BY <1>6 DEF W

LEMMA ExecutedCategoryOrder ==
  ASSUME StoreOK, PageOK, NEW r, Executes(r), r.kind = "reorderCategories"
  PROVE  Executed(r)
<1> DEFINE s2 == After(r)
           m == page.menu
           W == {c \in Category : stored.menuOf[c] = m}
           rest == Filtered(stored.order, Category \ ToSet(r.list))
<1>1. /\ s2 = [stored EXCEPT !.order = r.list \o rest]
      /\ s2.order = r.list \o rest /\ s2.menuOf = stored.menuOf /\ s2.rows = stored.rows
  BY DEF After, StoreOK, StoreShape
<1>2. m \in Menu
  BY DEF PageOK, Executes
<1>3. page.categories = r.list /\ r.undo = CategoriesOf(stored, m) /\ r.menu = m
  BY DEF Executes, Claims, OrderClaim, TakesOrder, Pending
<1>4. r.list \in Seq(Category) /\ ToSet(r.list) = ToSet(r.undo)
  BY DEF Executes, KindOK, Rearranged
<1>5. ToSet(r.list) = W
  BY <1>2, <1>3, <1>4, CategoriesTyped
<1>6. rest \in Seq(Category) /\ ToSet(rest) \cap W = {}
  <2>1. rest \in Seq(Category) /\ ToSet(rest) = ToSet(stored.order) \cap (Category \ ToSet(r.list))
    BY FilterKeeps DEF StoreOK, StoreShape
  <2> QED BY <1>5, <2>1
<1>7. CategoriesOf(s2, m) = Filtered(r.list \o rest, W)
  BY <1>1 DEF CategoriesOf
<1> HIDE DEF rest, W
<1>8. Filtered(r.list \o rest, W) = Filtered(r.list, W)
  BY <1>4, <1>6, FilterTail
<1>9. Filtered(r.list, W) = r.list
  BY <1>4, <1>5, FilterKeeps
<1>10. OrderAgrees(s2, page)
  BY <1>3, <1>7, <1>8, <1>9 DEF OrderAgrees
<1> HIDE DEF s2
<1>11. OnlyTaken(r, stored, page, s2, page)
  BY <1>1 DEF OnlyTaken, TakesOrder
<1>12. Claims(DoneWith(r), s2, page)
  BY <1>3, <1>10, DoneFields DEF Claims, ListClaim, OrderClaim, Pending, Done, TakesProduct
<1> QED BY <1>11, <1>12 DEF Executed, s2

LEMMA ExecutedProductOrder ==
  ASSUME StoreOK, PageOK, NEW r, Executes(r), r.kind = "reorderProducts"
  PROVE  Executed(r)
<1> DEFINE s2 == After(r)
           d == DoneWith(r)
<1>1. /\ s2.order = stored.order /\ s2.menuOf = stored.menuOf
      /\ \A p \in Product : s2.rows[p] = IF p \in ToSet(r.list)
           THEN [stored.rows[p] EXCEPT !.category = r.category, !.position = PositionIn(r.list, p) - 1]
           ELSE stored.rows[p]
  BY DEF After, StoreOK, StoreShape
<1>2. r.menu = page.menu /\ ToSet(page.lists[r.category]) = ToSet(r.list) /\ r.category \in Category
  BY DEF Executes, Claims, ListClaim, KindOK
<1>3. \A p \in Product : p \in ToSet(r.list) => ProductClaim(r, p, stored, page)
  BY DEF Executes, Claims, TakesProduct
<1>4. /\ d.kind = r.kind /\ d.menu = r.menu /\ d.category = r.category /\ d.product = r.product
      /\ d.list = r.list /\ d.undo = r.undo /\ d.phase = "done"
  BY DoneFields
<1>5. \A p \in Product : s2.rows[p] \in Row \cup {None}
  BY AfterTyped DEF Executes, StoreShape, RowTable
<1> HIDE DEF s2, d
<1>6. OnlyTaken(r, stored, page, s2, page)
  BY <1>1 DEF OnlyTaken, TakesOrder, TakesProduct, CategoriesOf
<1>7. ASSUME NEW p \in Product, p \in ToSet(r.list) PROVE ProductClaim(d, p, s2, page)
  <2> DEFINE row == stored.rows[p]
             row2 == s2.rows[p]
  <2>1. ProductClaim(r, p, stored, page)
    BY <1>3, <1>7
  <2>2. row # None /\ SameRow(r.undo.rows[p], row) /\ ProductAgrees(p, stored, page)
    BY <2>1 DEF ProductClaim, Done
  <2>3. InCategory(p, r.category, stored)
    BY <1>2, <1>7, <2>2 DEF ProductAgrees, Placed
  <2>4. row \in Row /\ row.category = r.category
    BY <2>2, <2>3 DEF InCategory, StoreOK, StoreShape, RowTable
  <2>5. row2 = [row EXCEPT !.category = r.category, !.position = PositionIn(r.list, p) - 1]
    BY <1>1, <1>7
  <2>6. row2.category = row.category /\ row2.price = row.price /\ row2.active = row.active
    BY <2>4, <2>5 DEF Row
  <2>7. row2 # None
    <3>1. PositionIn(r.list, p) - 1 \in Nat
      <4>1. r.list \in Seq(Product)
        BY DEF Executes, KindOK, Rearranged
      <4> QED BY <1>7, <4>1, PositionTyped
    <3>2. row2 \in Row
      BY <1>2, <2>4, <2>5, <3>1 DEF Row
    <3> QED BY <3>2, RowConstants
  <2> HIDE DEF row, row2
  <2>8. \A c \in Category : InCategory(p, c, s2) <=> InCategory(p, c, stored)
    BY <2>2, <2>6, <2>7 DEF InCategory, row, row2
  <2>9. ProductAgrees(p, s2, page)
    BY <2>2, <2>6, <2>7, <2>8 DEF ProductAgrees, Placed, SameRow, row, row2
  <2>10. SameRow(r.undo.rows[p], row2)
    BY <2>2, <2>6 DEF SameRow
  <2> QED BY <1>4, <2>7, <2>9, <2>10 DEF ProductClaim, Pending, Done, row2
<1>8. Claims(d, s2, page)
  BY <1>2, <1>4, <1>7 DEF Claims, ListClaim, TakesOrder, TakesProduct
<1> QED BY <1>6, <1>8 DEF Executed, s2, d

(* The price of a product, or whether it is shown.                           *)
LEMMA ExecutedField ==
  ASSUME StoreOK, PageOK, NEW r, Executes(r), r.kind \in {"price", "active"}
  PROVE  Executed(r)
<1> DEFINE s2 == After(r)
           d == DoneWith(r)
           p == r.product
<1>1. p \in Product /\ r.row \in Row /\ stored.rows[p] # None /\ stored.rows[p] \in Row
  BY DEF Executes, KindOK, MissingProduct, StoreOK, StoreShape, RowTable
<1>2. /\ s2.order = stored.order /\ s2.menuOf = stored.menuOf
      /\ \A q \in Product : q # p => s2.rows[q] = stored.rows[q]
      /\ s2.rows[p].category = stored.rows[p].category
      /\ s2.rows[p] \in Row
  <2>1. CASE r.kind = "price"
    <3>1. s2 = [stored EXCEPT !.rows[r.product].price = r.row.price]
      BY <2>1 DEF After
    <3>2. /\ s2.order = stored.order /\ s2.menuOf = stored.menuOf
          /\ s2.rows = [stored.rows EXCEPT ![r.product].price = r.row.price]
      BY <3>1 DEF StoreOK, StoreShape
    <3>3. s2.rows[p] = [stored.rows[p] EXCEPT !.price = r.row.price] /\ \A q \in Product : q # p => s2.rows[q] = stored.rows[q]
      BY <1>1, <3>2 DEF StoreOK, StoreShape, RowTable
    <3> QED BY <1>1, <3>2, <3>3 DEF Row
  <2>2. CASE r.kind = "active"
    <3>1. s2 = [stored EXCEPT !.rows[r.product].active = r.row.active]
      BY <2>2 DEF After
    <3>2. /\ s2.order = stored.order /\ s2.menuOf = stored.menuOf
          /\ s2.rows = [stored.rows EXCEPT ![r.product].active = r.row.active]
      BY <3>1 DEF StoreOK, StoreShape
    <3>3. s2.rows[p] = [stored.rows[p] EXCEPT !.active = r.row.active] /\ \A q \in Product : q # p => s2.rows[q] = stored.rows[q]
      BY <1>1, <3>2 DEF StoreOK, StoreShape, RowTable
    <3> QED BY <1>1, <3>2, <3>3 DEF Row
  <2> QED BY <2>1, <2>2
<1>3. /\ d.kind = r.kind /\ d.menu = r.menu /\ d.category = r.category /\ d.product = r.product
      /\ d.list = r.list /\ d.undo = r.undo /\ d.phase = "done" /\ d.answer = s2.rows[p]
  BY <1>1, DoneFields, EditorConstants DEF AnswerOf
<1>4. s2.rows[p] # None
  BY <1>2, RowConstants
<1> HIDE DEF s2, d
<1>5. OnlyTaken(r, stored, page, s2, page)
  BY <1>2 DEF OnlyTaken, TakesOrder, TakesProduct, CategoriesOf
<1>6. Placed(p, s2, page)
  <2>1. Placed(p, stored, page)
    BY <1>1 DEF Executes, Claims, TakesProduct, ProductClaim
  <2> QED BY <1>1, <1>2, <1>4, <2>1 DEF Placed, InCategory
<1>7. ProductClaim(d, p, s2, page)
  BY <1>3, <1>6 DEF ProductClaim, Pending, Done, SameRow
<1>8. Claims(d, s2, page)
  BY <1>3, <1>7 DEF Claims, ListClaim, TakesOrder, TakesProduct, Executes
<1> QED BY <1>5, <1>8 DEF Executed, s2, d

LEMMA ExecutedCategory ==
  ASSUME StoreOK, PageOK, NEW r, Executes(r), r.kind = "saveCategory"
  PROVE  Executed(r)
<1> DEFINE s2 == After(r)
           d == DoneWith(r)
           m == page.menu
           c == r.category
           W == {x \in Category : stored.menuOf[x] = m}
<1>1. m \in Menu /\ r.menu = m /\ c \in Category
  BY DEF PageOK, Executes, Claims, KindOK
<1>2. /\ d.kind = r.kind /\ d.menu = r.menu /\ d.category = r.category /\ d.product = r.product
      /\ d.list = r.list /\ d.undo = r.undo /\ d.phase = "done"
  BY DoneFields
<1>3. OrderAgrees(stored, page) /\ (c \in ToSet(page.categories) \/ stored.menuOf[c] = None)
  BY DEF Executes, Claims, TakesOrder, OrderClaim, Pending, Done
<1>4. /\ s2.rows = stored.rows
      /\ CategoriesOf(s2, m) = IF c \in ToSet(page.categories) THEN page.categories ELSE Append(page.categories, c)
  <2>1. CASE stored.menuOf[c] # None
    <3>1. s2 = stored
      BY <2>1 DEF After, Executes
    <3> QED BY <1>3, <2>1, <3>1 DEF OrderAgrees
  <2>2. CASE stored.menuOf[c] = None
    <3> DEFINE W2 == {x \in Category : s2.menuOf[x] = m}
    <3>1. c \notin ToSet(page.categories)
      BY <2>2 DEF Executes, MissingCategory
    <3>2. s2 = [stored EXCEPT !.order = Append(@, r.category), !.menuOf[r.category] = r.menu]
      BY <2>2 DEF After, Executes
    <3>3. /\ s2.order = Append(stored.order, c) /\ s2.rows = stored.rows
          /\ s2.menuOf = [stored.menuOf EXCEPT ![c] = m]
      BY <1>1, <3>2 DEF StoreOK, StoreShape
    <3>4. stored.order \in Seq(Category) /\ c \notin ToSet(stored.order) /\ ToSet(stored.order) \subseteq Category
      BY <2>2 DEF StoreOK, StoreShape
    <3>5. c \in W2 /\ \A x \in Category : x # c => (x \in W2 <=> x \in W)
      BY <1>1, <3>3 DEF StoreOK, StoreShape
    <3>6. CategoriesOf(s2, m) = Filtered(s2.order, W2) /\ CategoriesOf(stored, m) = Filtered(stored.order, W)
      BY DEF CategoriesOf
    <3> HIDE DEF W, W2, s2
    <3>7. Filtered(Append(stored.order, c), W2) = Append(Filtered(stored.order, W2), c)
      BY <1>1, <3>4, <3>5, FilterAppend
    <3>8. ToSet(stored.order) \cap W2 = ToSet(stored.order) \cap W
      BY <3>4, <3>5
    <3>9. Filtered(stored.order, W2) = Filtered(stored.order, W)
      BY <3>4, <3>8, FilterSame
    <3> QED BY <1>3, <3>1, <3>3, <3>6, <3>7, <3>9 DEF OrderAgrees
  <2> QED BY <2>1, <2>2
<1> HIDE DEF s2, d, W
<1>5. OnlyTaken(r, stored, page, s2, page)
  BY <1>4 DEF OnlyTaken, TakesOrder, Executes
<1>6. OrderClaim(d, s2, page)
  BY <1>2, <1>4 DEF OrderClaim, Pending, Done
<1>7. Claims(d, s2, page)
  BY <1>1, <1>2, <1>6 DEF Claims, ListClaim, TakesProduct
<1> QED BY <1>5, <1>7 DEF Executed, s2, d

LEMMA ExecutedProduct ==
  ASSUME StoreOK, PageOK, NEW r, Executes(r), r.kind \in {"saveProduct", "deleteProduct"}
  PROVE  Executed(r)
<1> DEFINE s2 == After(r)
           d == DoneWith(r)
           p == r.product
<1>1. p \in Product /\ p # None /\ r.menu = page.menu
  BY EditorConstants DEF Executes, KindOK, Claims
<1>2. /\ s2.order = stored.order /\ s2.menuOf = stored.menuOf
      /\ \A q \in Product : q # p => s2.rows[q] = stored.rows[q]
      /\ r.kind = "deleteProduct" => s2.rows[p] = None
  <2>1. \E row : s2 = [stored EXCEPT !.rows[r.product] = row] /\ (r.kind = "deleteProduct" => row = None)
    BY DEF After
  <2>2. PICK row : s2 = [stored EXCEPT !.rows[r.product] = row] /\ (r.kind = "deleteProduct" => row = None)
    BY <2>1
  <2>3. s2.order = stored.order /\ s2.menuOf = stored.menuOf /\ s2.rows = [stored.rows EXCEPT ![p] = row]
    BY <2>2 DEF StoreOK, StoreShape
  <2> HIDE DEF s2
  <2> QED BY <1>1, <2>2, <2>3 DEF StoreOK, StoreShape, RowTable
<1>3. /\ d.kind = r.kind /\ d.menu = r.menu /\ d.category = r.category /\ d.product = r.product
      /\ d.list = r.list /\ d.undo = r.undo /\ d.phase = "done" /\ d.answer = s2.rows[p]
  BY <1>1, DoneFields DEF AnswerOf
<1> HIDE DEF s2, d
<1>4. OnlyTaken(r, stored, page, s2, page)
  BY <1>2 DEF OnlyTaken, TakesOrder, TakesProduct, CategoriesOf
<1>5. ProductClaim(d, p, s2, page)
  BY <1>2, <1>3 DEF ProductClaim, Pending, Done
<1>6. Claims(d, s2, page)
  BY <1>1, <1>3, <1>5 DEF Claims, ListClaim, TakesOrder, TakesProduct
<1> QED BY <1>4, <1>6 DEF Executed, s2, d

LEMMA ExecutedBulk ==
  ASSUME StoreOK, PageOK, NEW r, Executes(r), r.kind = "bulkPrice"
  PROVE  Executed(r)
<1> DEFINE s2 == After(r)
           d == DoneWith(r)
<1>1. s2.order = stored.order /\ s2.menuOf = stored.menuOf
  <2>1. \E rows : s2 = [stored EXCEPT !.rows = rows]
    BY DEF After
  <2> QED BY <2>1 DEF StoreOK, StoreShape
<1>2. d.kind = r.kind /\ d.menu = r.menu /\ d.phase = "done" /\ r.menu = page.menu
  BY DoneFields DEF Executes, Claims
<1> HIDE DEF s2, d
<1>3. OnlyTaken(r, stored, page, s2, page)
  BY <1>1 DEF OnlyTaken, TakesOrder, TakesProduct
<1>4. OrderAgrees(stored, page)
  BY DEF Executes, Claims, TakesOrder, OrderClaim, Pending, Done
<1>5. OrderAgrees(s2, page)
  BY <1>1, <1>4 DEF OrderAgrees, CategoriesOf
<1>6. Claims(d, s2, page)
  BY <1>2, <1>5 DEF Claims, ListClaim, OrderClaim, ProductClaim, Pending, Done
<1> QED BY <1>3, <1>6 DEF Executed, s2, d

LEMMA ExecutedDelete ==
  ASSUME StoreOK, PageOK, NEW r, Executes(r), r.kind = "deleteCategory"
  PROVE  Executed(r)
<1> DEFINE s2 == After(r)
           d == DoneWith(r)
           m == page.menu
           c == r.category
           W == {x \in Category : stored.menuOf[x] = m}
           W2 == {x \in Category : s2.menuOf[x] = m}
<1>1. m \in Menu /\ m # None /\ r.menu = m /\ c \in Category
  BY DEF PageOK, Executes, Claims, KindOK
<1>2. /\ d.kind = r.kind /\ d.menu = r.menu /\ d.category = r.category /\ d.product = r.product
      /\ d.list = r.list /\ d.undo = r.undo /\ d.phase = "done"
  BY DoneFields
<1>3. OrderAgrees(stored, page) /\ \A p \in Product : ProductAgrees(p, stored, page)
  BY DEF Executes, Claims, TakesOrder, TakesProduct, OrderClaim, ProductClaim, Pending, Done
<1>4. /\ s2.order = Filtered(stored.order, Category \ {c})
      /\ s2.menuOf = [stored.menuOf EXCEPT ![c] = None]
      /\ \A p \in Product : s2.rows[p] = IF stored.rows[p] # None /\ stored.rows[p].category = c THEN None ELSE stored.rows[p]
  BY DEF Executes, After, WithoutCategory
<1>5. W2 = W \ {c} /\ W \subseteq Category
  <2> HIDE DEF s2
  <2> QED BY <1>1, <1>4 DEF StoreOK, StoreShape
<1>6. CategoriesOf(s2, m) = Filtered(s2.order, W2) /\ CategoriesOf(stored, m) = Filtered(stored.order, W)
  BY DEF CategoriesOf
<1> HIDE DEF s2, d, W, W2
<1>7. CategoriesOf(s2, m) = Filtered(page.categories, Category \ {c})
  <2>1. stored.order \in Seq(Category)
    BY DEF StoreOK, StoreShape
  <2>2. Filtered(Filtered(stored.order, Category \ {c}), W2) = Filtered(stored.order, (Category \ {c}) \cap W2)
    BY <2>1, FilterTwice
  <2>3. Filtered(Filtered(stored.order, W), Category \ {c}) = Filtered(stored.order, W \cap (Category \ {c}))
    BY <2>1, FilterTwice
  <2>4. (Category \ {c}) \cap W2 = W \cap (Category \ {c})
    BY <1>5
  <2> QED BY <1>3, <1>4, <1>6, <2>2, <2>3, <2>4 DEF OrderAgrees
<1>8. OnlyTaken(r, stored, page, s2, page)
  BY DEF OnlyTaken, TakesOrder, TakesProduct, Executes
<1>9. OrderClaim(d, s2, page)
  BY <1>2, <1>7 DEF OrderClaim, Pending, Done
<1>10. ASSUME NEW p \in Product PROVE ProductClaim(d, p, s2, page)
  <2>1. Placed(p, stored, page) /\ (stored.rows[p] # None => SameRow(page.rows[p], stored.rows[p]))
    BY <1>3 DEF ProductAgrees
  <2>2. \A x \in Category : p \in ToSet(page.lists[x]) /\ x # c <=> InCategory(p, x, s2)
    BY <1>4, <2>1 DEF Placed, InCategory
  <2>3. s2.rows[p] # None => SameRow(page.rows[p], s2.rows[p])
    BY <1>4, <2>1
  <2> QED BY <1>2, <2>2, <2>3 DEF ProductClaim, Pending, Done
<1>11. Claims(d, s2, page)
  BY <1>1, <1>2, <1>9, <1>10 DEF Claims, ListClaim
<1> QED BY <1>8, <1>11 DEF Executed, s2, d

LEMMA ServerExecutes ==
  ASSUME StoreOK, PageOK, NEW r, Executes(r)
  PROVE  Executed(r)
<1>1. r.kind \in EditorKinds \ {"load"}
  BY DEF Executes, EditorRequest
<1> QED BY <1>1, ExecutedCategoryOrder, ExecutedProductOrder, ExecutedField, ExecutedCategory, ExecutedProduct,
           ExecutedBulk, ExecutedDelete DEF EditorKinds

-----------------------------------------------------------------------------
(* Answers land.                                                           *)

(* A row the page does not have is in no list, and so it is not stored.      *)
LEMMA NoRow ==
  ASSUME StoreOK, PageOK, NEW p \in Product, page.rows[p] = None, Placed(p, stored, page)
  PROVE  stored.rows[p] = None
<1>1. \A c \in Category : p \notin ToSet(page.lists[c])
  BY DEF PageOK
<1>2. stored.rows[p] # None => stored.rows[p].category \in Category
  BY DEF StoreOK, StoreShape, RowTable, Row
<1> QED BY <1>1, <1>2 DEF Placed, InCategory

Landed(r, g) ==
  /\ OnlyTaken(r, stored, page, stored, g) /\ Agreed(r, stored, g)
  /\ g.count[g.menu] = Len(g.categories)

(* A failure: what the handler changed is put back.                          *)
LEMMA FailureAgrees ==
  ASSUME StoreOK, PageOK, NEW r \in EditorRequest, KindOK(r), r.kind # "load", r.phase # "done",
         Claims(r, stored, page), page.count[page.menu] = Len(page.categories)
  PROVE  Landed(r, RolledBack(r))
<1> DEFINE g == RolledBack(r)
<1>1. CASE r.kind = "reorderCategories"
  <2>1. g = [page EXCEPT !.categories = r.undo]
    BY <1>1 DEF RolledBack
  <2>2. /\ g.menu = page.menu /\ g.rows = page.rows /\ g.lists = page.lists /\ g.count = page.count
        /\ g.categories = r.undo
    BY <2>1 DEF PageOK
  <2>3. page.categories = r.list /\ r.undo = CategoriesOf(stored, page.menu)
    BY <1>1 DEF Claims, TakesOrder, OrderClaim, Pending
  <2>4. Len(r.undo) = Len(page.categories)
    BY <1>1, <2>3 DEF KindOK, Rearranged
  <2> HIDE DEF g
  <2>5. OnlyTaken(r, stored, page, stored, g)
    BY <1>1, <2>2 DEF OnlyTaken, TakesOrder
  <2>6. Agreed(r, stored, g)
    BY <1>1, <2>2, <2>3 DEF Agreed, OrderAgrees, TakesProduct
  <2> QED BY <2>2, <2>4, <2>5, <2>6 DEF Landed, g
<1>2. CASE r.kind = "reorderProducts"
  <2> DEFINE c == r.category
  <2>1. g = [page EXCEPT !.lists[r.category] = r.undo.list,
                      !.rows = [p \in Product |-> IF p \in ToSet(r.undo.list) THEN r.undo.rows[p] ELSE @[p]]]
    BY <1>2 DEF RolledBack
  <2>2. c \in Category /\ ToSet(r.list) = ToSet(r.undo.list)
    BY <1>2 DEF KindOK, Rearranged
  <2>3. /\ g.menu = page.menu /\ g.categories = page.categories /\ g.count = page.count
        /\ g.lists = [page.lists EXCEPT ![c] = r.undo.list]
        /\ g.rows = [p \in Product |-> IF p \in ToSet(r.undo.list) THEN r.undo.rows[p] ELSE page.rows[p]]
    BY <2>1 DEF PageOK
  <2>4. page.lists \in [Category -> Seq(Product)]
    BY DEF PageOK
  <2>5. ToSet(page.lists[c]) = ToSet(r.list)
    BY <1>2 DEF Claims, ListClaim
  <2> HIDE DEF g
  <2>6. \A x \in Category : ToSet(g.lists[x]) = ToSet(page.lists[x])
    BY <2>2, <2>3, <2>4, <2>5
  <2>7. OnlyTaken(r, stored, page, stored, g)
    BY <1>2, <2>2, <2>3, <2>6 DEF OnlyTaken, TakesOrder, TakesProduct
  <2>8. ASSUME NEW p \in Product, p \in ToSet(r.list) PROVE ProductAgrees(p, stored, g)
    <3>1. ProductClaim(r, p, stored, page)
      BY <1>2, <2>8 DEF Claims, TakesProduct
    <3>2. SameRow(r.undo.rows[p], stored.rows[p]) /\ Placed(p, stored, page)
      BY <1>2, <3>1 DEF ProductClaim, ProductAgrees, Done
    <3>3. g.rows[p] = r.undo.rows[p]
      BY <2>2, <2>3, <2>8
    <3> QED BY <2>6, <3>2, <3>3 DEF ProductAgrees, Placed
  <2>9. Agreed(r, stored, g)
    BY <1>2, <2>8 DEF Agreed, TakesOrder, TakesProduct
  <2> QED BY <2>3, <2>7, <2>9 DEF Landed, g
<1>3. CASE r.kind \in {"price", "active"} /\ page.rows[r.product] # None
  <2> DEFINE p == r.product
  <2>1. p \in Product /\ page.rows \in RowTable /\ page.rows[p] \in Row
    BY <1>3 DEF KindOK, PageOK, RowTable
  <2>2. /\ g.menu = page.menu /\ g.categories = page.categories /\ g.count = page.count /\ g.lists = page.lists
        /\ \A q \in Product : q # p => g.rows[q] = page.rows[q]
        /\ r.kind = "price" => g.rows[p].price = r.undo /\ g.rows[p].active = page.rows[p].active
        /\ r.kind = "active" => g.rows[p].active = r.undo /\ g.rows[p].price = page.rows[p].price
    <3>1. CASE r.kind = "price"
      <4>1. g = [page EXCEPT !.rows[r.product].price = r.undo]
        BY <1>3, <3>1 DEF RolledBack
      <4>2. /\ g.menu = page.menu /\ g.categories = page.categories /\ g.count = page.count /\ g.lists = page.lists
            /\ g.rows = [page.rows EXCEPT ![r.product].price = r.undo]
        BY <4>1 DEF PageOK
      <4> HIDE DEF g
      <4>3. g.rows[p] = [page.rows[p] EXCEPT !.price = r.undo] /\ \A q \in Product : q # p => g.rows[q] = page.rows[q]
        BY <2>1, <4>2 DEF RowTable
      <4> QED BY <2>1, <3>1, <4>2, <4>3 DEF Row
    <3>2. CASE r.kind = "active"
      <4>1. g = [page EXCEPT !.rows[r.product].active = r.undo]
        BY <1>3, <3>2 DEF RolledBack
      <4>2. /\ g.menu = page.menu /\ g.categories = page.categories /\ g.count = page.count /\ g.lists = page.lists
            /\ g.rows = [page.rows EXCEPT ![r.product].active = r.undo]
        BY <4>1 DEF PageOK
      <4> HIDE DEF g
      <4>3. g.rows[p] = [page.rows[p] EXCEPT !.active = r.undo] /\ \A q \in Product : q # p => g.rows[q] = page.rows[q]
        BY <2>1, <4>2 DEF RowTable
      <4> QED BY <2>1, <3>2, <4>2, <4>3 DEF Row
    <3> QED BY <1>3, <3>1, <3>2
  <2> HIDE DEF g
  <2>3. OnlyTaken(r, stored, page, stored, g)
    BY <1>3, <2>2 DEF OnlyTaken, TakesOrder, TakesProduct
  <2>4. ProductClaim(r, p, stored, page)
    BY <1>3, <2>1 DEF Claims, TakesProduct
  <2>5. ProductAgrees(p, stored, g)
    BY <1>3, <2>2, <2>4 DEF ProductClaim, ProductAgrees, Placed, SameRow, Pending
  <2>6. Agreed(r, stored, g)
    BY <1>3, <2>5 DEF Agreed, TakesOrder, TakesProduct
  <2> QED BY <2>2, <2>3, <2>6 DEF Landed, g
<1>4. CASE r.kind \in {"price", "active"} /\ page.rows[r.product] = None
  <2> DEFINE p == r.product
  <2>1. p \in Product /\ g = page
    BY <1>4 DEF KindOK, RolledBack
  <2>2. Placed(p, stored, page)
    BY <1>4, <2>1 DEF Claims, TakesProduct, ProductClaim
  <2>3. stored.rows[p] = None
    BY <1>4, <2>1, <2>2, NoRow
  <2>4. Agreed(r, stored, page)
    BY <1>4, <2>2, <2>3 DEF Agreed, TakesOrder, TakesProduct, ProductAgrees
  <2>5. OnlyTaken(r, stored, page, stored, page)
    BY DEF OnlyTaken
  <2> QED BY <2>1, <2>4, <2>5 DEF Landed
<1>5. CASE r.kind \notin {"reorderCategories", "reorderProducts", "price", "active"}
  <2>1. g = page
    BY <1>5 DEF RolledBack
  <2>2. Agreed(r, stored, page)
    BY <1>5 DEF Agreed, Claims, OrderClaim, ProductClaim, Pending, Done
  <2>3. OnlyTaken(r, stored, page, stored, page)
    BY DEF OnlyTaken
  <2> QED BY <2>1, <2>2, <2>3 DEF Landed
<1> QED BY <1>1, <1>2, <1>3, <1>4, <1>5

(* The list of a category after a save, sorted by position.                  *)
RowsBelow(rows, list) ==
  {pair \in ToSet(list) \X ToSet(list) :
     \/ rows[pair[1]].position < rows[pair[2]].position
     \/ rows[pair[1]].position = rows[pair[2]].position /\ PositionIn(list, pair[1]) < PositionIn(list, pair[2])}

LEMMA SortedRows ==
  ASSUME NEW list \in Seq(Product), NEW rows, \A p \in ToSet(list) : rows[p] \in Row
  PROVE  /\ SortedBy(ToSet(list), RowsBelow(rows, list)) \in Seq(Product)
         /\ ToSet(SortedBy(ToSet(list), RowsBelow(rows, list))) = ToSet(list)
<1> DEFINE S == ToSet(list)
           at == [p \in S |-> PositionIn(list, p)]
           position == [p \in S |-> rows[p].position]
           below == RowsBelow(rows, list)
<1>1. S \subseteq Product /\ IsFiniteSet(S)
  <2>1. S \subseteq Product
    BY ElementOfSeq, LenProperties DEF ToSet
  <2> QED BY <2>1, EditorConstants, FS_Subset
<1>2. \A p \in S : rows[p].position \in Nat
  BY DEF Row
<1>3. \A p \in S : PositionIn(list, p) \in Nat /\ list[PositionIn(list, p)] = p
  <2>1. Len(list) \in Nat
    BY LenProperties
  <2>2. \A p \in S : PositionIn(list, p) \in 1..Len(list) /\ list[PositionIn(list, p)] = p
    BY PositionTyped
  <2> QED BY <2>1, <2>2
<1>4. \A p, q \in S : <<p, q>> \in below <=> position[p] < position[q] \/ (position[p] = position[q] /\ at[p] < at[q])
  <2>1. ASSUME NEW p \in S, NEW q \in S
        PROVE  <<p, q>> \in below <=>
                 (rows[p].position < rows[q].position \/
                   (rows[p].position = rows[q].position /\ PositionIn(list, p) < PositionIn(list, q)))
    <3> DEFINE pair == <<p, q>>
    <3>1. pair \in S \X S /\ pair[1] = p /\ pair[2] = q
      OBVIOUS
    <3> HIDE DEF pair
    <3>2. pair \in below <=>
            (rows[pair[1]].position < rows[pair[2]].position \/
              (rows[pair[1]].position = rows[pair[2]].position /\ PositionIn(list, pair[1]) < PositionIn(list, pair[2])))
      BY <3>1 DEF RowsBelow
    <3> QED BY <3>1, <3>2 DEF pair
  <2> QED BY <2>1
<1>5. \A p \in S : at[p] \in Nat /\ position[p] \in Nat /\ list[at[p]] = p
  BY <1>2, <1>3
<1> HIDE DEF S, below, at, position
<1>6. \A p, q \in S : at[p] = at[q] => p = q
  BY <1>5
<1>7. \A x \in S : <<x, x>> \notin below
  BY <1>4, <1>5
<1>8. ASSUME NEW x \in S, NEW y \in S, NEW z \in S, <<x, y>> \in below, <<y, z>> \in below
      PROVE  <<x, z>> \in below
  <2>1. position[x] < position[y] \/ (position[x] = position[y] /\ at[x] < at[y])
    BY <1>4, <1>8
  <2>2. position[y] < position[z] \/ (position[y] = position[z] /\ at[y] < at[z])
    BY <1>4, <1>8
  <2>3. position[x] < position[z] \/ (position[x] = position[z] /\ at[x] < at[z])
    BY <1>5, <2>1, <2>2
  <2> QED BY <1>4, <2>3
<1>9. ASSUME NEW x \in S, NEW y \in S, x # y PROVE <<x, y>> \in below \/ <<y, x>> \in below
  <2>1. at[x] # at[y]
    BY <1>6, <1>9
  <2>2. \/ position[x] < position[y] \/ (position[x] = position[y] /\ at[x] < at[y])
        \/ position[y] < position[x] \/ (position[y] = position[x] /\ at[y] < at[x])
    <3>1. position[x] \in Nat /\ position[y] \in Nat /\ at[x] \in Nat /\ at[y] \in Nat
      BY <1>5
    <3> QED BY ONLY <2>1, <3>1
  <2> QED BY <1>4, <2>2
<1>10. SortedBy(S, below) \in Seq(S) /\ ToSet(SortedBy(S, below)) = S
  BY <1>1, <1>7, <1>8, <1>9, SortedKeeps
<1>11. SortedBy(S, below) \in Seq(Product)
  BY <1>1, <1>10, SeqMonotonic
<1> QED BY <1>10, <1>11 DEF S, below

LEMMA WithProductShown ==
  ASSUME PageOK, NEW p \in Product, NEW row \in Row
  PROVE  LET g == WithProduct(p, row) IN
         /\ g.menu = page.menu /\ g.loading = page.loading /\ g.categories = page.categories /\ g.count = page.count
         /\ g.rows = [page.rows EXCEPT ![p] = row]
         /\ g.lists \in [Category -> Seq(Product)]
         /\ \A c \in Category : ToSet(g.lists[c]) = (ToSet(page.lists[c]) \ {p}) \cup (IF c = row.category THEN {p} ELSE {})
         /\ g \in [menu: Menu \cup {None}, loading: BOOLEAN, categories: Seq(Category), rows: RowTable,
                   lists: [Category -> Seq(Product)], count: [Menu -> Nat]]
<1> DEFINE rows == [page.rows EXCEPT ![p] = row]
           rest == [c \in Category |-> Filtered(page.lists[c], Product \ {p})]
           list == Append(rest[row.category], p)
           sorted == SortedBy(ToSet(list), RowsBelow(rows, list))
           g == WithProduct(p, row)
<1>0. row.category \in Category
  BY DEF Row
<1>1. page.rows \in RowTable /\ page.lists \in [Category -> Seq(Product)]
  BY DEF PageOK
<1>2. \A c \in Category : page.lists[c] \in Seq(Product) /\ ToSet(page.lists[c]) \subseteq Product
  <2>1. \A c \in Category : page.lists[c] \in Seq(Product)
    BY <1>1
  <2>2. \A c \in Category : \A k \in DOMAIN page.lists[c] : page.lists[c][k] \in Product
    BY <2>1, ElementOfSeq, LenProperties
  <2> QED BY <2>1, <2>2 DEF ToSet
<1>3. \A c \in Category : rest[c] \in Seq(Product) /\ ToSet(rest[c]) = ToSet(page.lists[c]) \ {p}
  <2>1. ASSUME NEW c \in Category PROVE rest[c] \in Seq(Product) /\ ToSet(rest[c]) = ToSet(page.lists[c]) \ {p}
    <3> DEFINE l == page.lists[c]
    <3>1. l \in Seq(Product) /\ ToSet(l) \subseteq Product
      BY <1>2
    <3>2. rest[c] = Filtered(l, Product \ {p})
      OBVIOUS
    <3> HIDE DEF l, rest
    <3>3. Filtered(l, Product \ {p}) \in Seq(Product) /\ ToSet(Filtered(l, Product \ {p})) = ToSet(l) \cap (Product \ {p})
      BY <3>1, FilterKeeps
    <3> QED BY <3>1, <3>2, <3>3 DEF l
  <2> QED BY <2>1
<1>4. list \in Seq(Product) /\ ToSet(list) = (ToSet(page.lists[row.category]) \ {p}) \cup {p}
  <2> DEFINE t == rest[row.category]
  <2>1. t \in Seq(Product) /\ ToSet(t) = ToSet(page.lists[row.category]) \ {p}
    BY <1>0, <1>3
  <2> HIDE DEF t
  <2>2. Append(t, p) \in Seq(Product) /\ ToSet(Append(t, p)) = ToSet(t) \cup {p}
    BY <2>1, AppendProperties, MembersAppend
  <2> QED BY <2>1, <2>2 DEF t
<1>5. \A q \in ToSet(list) : rows[q] \in Row
  <2>1. \A q \in ToSet(page.lists[row.category]) : q \in Product /\ page.rows[q] # None
    BY <1>0, <1>2 DEF PageOK
  <2> HIDE DEF list
  <2> QED BY <1>1, <1>4, <2>1 DEF RowTable
<1>6. sorted \in Seq(Product) /\ ToSet(sorted) = ToSet(list)
  <2> HIDE DEF rows, list
  <2> QED BY <1>4, <1>5, SortedRows
<1>7. g = [page EXCEPT !.rows = rows, !.lists = [rest EXCEPT ![row.category] = sorted]]
  BY DEF WithProduct, RowsBelow
<1> HIDE DEF rows, rest, list, sorted
<1>8. [rest EXCEPT ![row.category] = sorted] \in [Category -> Seq(Product)]
  <2>1. rest \in [Category -> Seq(Product)]
    BY <1>3 DEF rest
  <2> QED BY <1>6, <2>1
<1>9. /\ g.menu = page.menu /\ g.loading = page.loading /\ g.categories = page.categories /\ g.count = page.count
      /\ g.rows = rows /\ g.lists = [rest EXCEPT ![row.category] = sorted]
  BY <1>7 DEF PageOK
<1>10. rows \in RowTable
  BY <1>1 DEF rows, RowTable
<1>11. g \in [menu: Menu \cup {None}, loading: BOOLEAN, categories: Seq(Category), rows: RowTable,
              lists: [Category -> Seq(Product)], count: [Menu -> Nat]]
  BY <1>7, <1>8, <1>10 DEF PageOK
<1> HIDE DEF g
<1>12. \A c \in Category : ToSet(g.lists[c]) = (ToSet(page.lists[c]) \ {p}) \cup (IF c = row.category THEN {p} ELSE {})
  <2>1. rest \in [Category -> Seq(Product)]
    BY <1>3 DEF rest
  <2>2. \A c \in Category : g.lists[c] = IF c = row.category THEN sorted ELSE rest[c]
    BY <1>9, <2>1
  <2> QED BY <1>3, <1>4, <1>6, <2>2
<1> QED BY <1>8, <1>9, <1>11, <1>12 DEF g, rows

LEMMA SavedProductAgrees ==
  ASSUME StoreOK, PageOK, NEW r \in EditorRequest, KindOK(r), r.kind = "saveProduct", r.phase = "done",
         Claims(r, stored, page), page.count[page.menu] = Len(page.categories)
  PROVE  Landed(r, Updated(r))
<1> DEFINE p == r.product
           row == r.answer
           g == Updated(r)
<1>1. p \in Product /\ row \in Row /\ g = WithProduct(p, row)
  BY DEF KindOK, Updated
<1>2. stored.rows[p] = row
  BY <1>1 DEF Claims, TakesProduct, ProductClaim, Done
<1> HIDE DEF row, p, g
<1>3. /\ g.menu = page.menu /\ g.categories = page.categories /\ g.count = page.count
      /\ g.rows = [page.rows EXCEPT ![p] = row]
      /\ \A c \in Category : ToSet(g.lists[c]) = (ToSet(page.lists[c]) \ {p}) \cup (IF c = row.category THEN {p} ELSE {})
  <2> DEFINE h == WithProduct(p, row)
  <2>1. /\ h.menu = page.menu /\ h.categories = page.categories /\ h.count = page.count
        /\ h.rows = [page.rows EXCEPT ![p] = row]
        /\ \A c \in Category : ToSet(h.lists[c]) = (ToSet(page.lists[c]) \ {p}) \cup (IF c = row.category THEN {p} ELSE {})
    BY <1>1, WithProductShown
  <2> HIDE DEF h
  <2>2. g = h
    BY <1>1 DEF h
  <2> QED BY <2>1, <2>2
<1>4. g.rows[p] = row /\ \A q \in Product : q # p => g.rows[q] = page.rows[q]
  BY <1>1, <1>3 DEF PageOK, RowTable
<1>5. Placed(p, stored, g)
  BY <1>1, <1>2, <1>3, RowConstants DEF Placed, InCategory
<1>6. ProductAgrees(p, stored, g)
  BY <1>2, <1>4, <1>5 DEF ProductAgrees, SameRow
<1>7. OnlyTaken(r, stored, page, stored, g)
  BY <1>3, <1>4 DEF OnlyTaken, TakesOrder, TakesProduct, TakesList, p
<1>8. Agreed(r, stored, g)
  BY <1>6 DEF Agreed, TakesOrder, TakesProduct, p
<1> QED BY <1>3, <1>7, <1>8 DEF Landed, g

LEMMA SavedCategoryAgrees ==
  ASSUME StoreOK, PageOK, NEW r \in EditorRequest, KindOK(r), r.kind = "saveCategory", r.phase = "done",
         Claims(r, stored, page), page.count[page.menu] = Len(page.categories), page.menu # None
  PROVE  Landed(r, Updated(r))
<1> DEFINE c == r.category
           g == Updated(r)
<1>1. c \in Category /\ r.menu = page.menu /\ page.menu \in Menu
  BY DEF KindOK, Claims, PageOK
<1>2. CategoriesOf(stored, page.menu) = IF c \in ToSet(page.categories) THEN page.categories ELSE Append(page.categories, c)
  BY DEF Claims, TakesOrder, OrderClaim, Done
<1>3. /\ g.menu = page.menu /\ g.rows = page.rows /\ g.lists = page.lists
      /\ g.categories = CategoriesOf(stored, page.menu)
      /\ g.count[page.menu] = Len(g.categories)
  <2>1. CASE c \in ToSet(page.categories)
    <3>1. g = page
      BY <2>1 DEF Updated, WithCategory
    <3> QED BY <1>2, <2>1, <3>1
  <2>2. CASE c \notin ToSet(page.categories)
    <3>1. g = [page EXCEPT !.categories = Append(@, r.category), !.count[r.menu] = Len(page.categories) + 1]
      BY <2>2 DEF Updated, WithCategory
    <3>2. /\ g.menu = page.menu /\ g.rows = page.rows /\ g.lists = page.lists
          /\ g.categories = Append(page.categories, c)
          /\ g.count = [page.count EXCEPT ![r.menu] = Len(page.categories) + 1]
      BY <3>1 DEF PageOK
    <3>3. page.count \in [Menu -> Nat] /\ page.categories \in Seq(Category)
      BY DEF PageOK
    <3>4. Len(Append(page.categories, c)) = Len(page.categories) + 1
      BY <1>1, <3>3, AppendProperties
    <3> HIDE DEF g
    <3> QED BY <1>1, <1>2, <2>2, <3>2, <3>3, <3>4
  <2> QED BY <2>1, <2>2
<1> HIDE DEF g
<1>4. OnlyTaken(r, stored, page, stored, g)
  BY <1>3 DEF OnlyTaken, TakesOrder
<1>5. Agreed(r, stored, g)
  BY <1>3 DEF Agreed, TakesProduct, OrderAgrees
<1> QED BY <1>3, <1>4, <1>5 DEF Landed, g

LEMMA DeletedCategoryAgrees ==
  ASSUME StoreOK, PageOK, NEW r \in EditorRequest, KindOK(r), r.kind = "deleteCategory", r.phase = "done",
         Claims(r, stored, page), page.count[page.menu] = Len(page.categories), page.menu # None
  PROVE  Landed(r, Updated(r))
<1> DEFINE c == r.category
           g == Updated(r)
           kept == Filtered(page.categories, Category \ {c})
<1>1. c \in Category /\ r.menu = page.menu /\ page.menu \in Menu
  BY DEF KindOK, Claims, PageOK
<1>2. CategoriesOf(stored, page.menu) = kept
  BY DEF Claims, TakesOrder, OrderClaim, Done
<1>3. g = [page EXCEPT !.categories = kept, !.count[r.menu] = Len(kept), !.lists[r.category] = <<>>]
  BY DEF Updated
<1> HIDE DEF kept
<1>4. /\ g.menu = page.menu /\ g.rows = page.rows /\ g.lists = [page.lists EXCEPT ![c] = <<>>]
      /\ g.categories = kept /\ g.count = [page.count EXCEPT ![r.menu] = Len(kept)]
  BY <1>3 DEF PageOK
<1>5. page.count \in [Menu -> Nat] /\ page.lists \in [Category -> Seq(Product)]
  BY DEF PageOK
<1> HIDE DEF g
<1>6. g.count[page.menu] = Len(g.categories)
  BY <1>1, <1>4, <1>5
<1>7. \A x \in Category : ToSet(g.lists[x]) = IF x = c THEN {} ELSE ToSet(page.lists[x])
  <2>1. ToSet(<<>>) = {}
    BY DEF ToSet
  <2> QED BY <1>1, <1>4, <1>5, <2>1
<1>8. OnlyTaken(r, stored, page, stored, g)
  BY <1>4, <1>7 DEF OnlyTaken, TakesOrder, TakesProduct
<1>9. ASSUME NEW p \in Product PROVE ProductAgrees(p, stored, g)
  <2>1. ProductClaim(r, p, stored, page)
    BY DEF Claims, TakesProduct
  <2>2. /\ \A x \in Category : p \in ToSet(page.lists[x]) /\ x # c <=> InCategory(p, x, stored)
        /\ stored.rows[p] # None => SameRow(page.rows[p], stored.rows[p])
    BY <2>1 DEF ProductClaim, Done
  <2> QED BY <1>4, <1>7, <2>2 DEF ProductAgrees, Placed
<1>10. Agreed(r, stored, g)
  BY <1>2, <1>4, <1>9 DEF Agreed, OrderAgrees
<1> QED BY <1>4, <1>6, <1>8, <1>10 DEF Landed, g

LEMMA DeletedProductAgrees ==
  ASSUME StoreOK, PageOK, NEW r \in EditorRequest, KindOK(r), r.kind = "deleteProduct", r.phase = "done",
         Claims(r, stored, page), page.count[page.menu] = Len(page.categories)
  PROVE  Landed(r, Updated(r))
<1> DEFINE p == r.product
           g == Updated(r)
<1>1. p \in Product /\ stored.rows[p] = None
  BY DEF KindOK, Claims, TakesProduct, ProductClaim, Done
<1>2. g = [page EXCEPT !.lists = [c \in Category |-> Filtered(@[c], Product \ {p})]]
  BY DEF Updated
<1>3. /\ g.menu = page.menu /\ g.rows = page.rows /\ g.categories = page.categories /\ g.count = page.count
      /\ g.lists = [c \in Category |-> Filtered(page.lists[c], Product \ {p})]
  BY <1>2 DEF PageOK
<1> HIDE DEF g
<1>4. \A c \in Category : ToSet(g.lists[c]) = ToSet(page.lists[c]) \cap (Product \ {p})
  <2>1. ASSUME NEW c \in Category PROVE ToSet(g.lists[c]) = ToSet(page.lists[c]) \cap (Product \ {p})
    <3>1. page.lists[c] \in Seq(Product) /\ g.lists[c] = Filtered(page.lists[c], Product \ {p})
      BY <1>3 DEF PageOK
    <3> QED BY <3>1, FilterKeeps
  <2> QED BY <2>1
<1>5. OnlyTaken(r, stored, page, stored, g)
  BY <1>3, <1>4 DEF OnlyTaken, TakesOrder, TakesProduct
<1>6. ProductAgrees(p, stored, g)
  BY <1>1, <1>4 DEF ProductAgrees, Placed, InCategory
<1>7. Agreed(r, stored, g)
  BY <1>6 DEF Agreed, TakesOrder, TakesProduct
<1> QED BY <1>3, <1>5, <1>7 DEF Landed, g

LEMMA FieldAgrees ==
  ASSUME StoreOK, PageOK, NEW r \in EditorRequest, KindOK(r), r.kind \in {"price", "active"}, r.phase = "done",
         Claims(r, stored, page), page.count[page.menu] = Len(page.categories)
  PROVE  Landed(r, Updated(r))
<1> DEFINE p == r.product
           g == Updated(r)
<1>1. p \in Product /\ r.answer \in Row
  BY DEF KindOK
<1>2. Placed(p, stored, page) /\ (stored.rows[p] # None => SameRow(r.answer, stored.rows[p]))
  BY <1>1 DEF Claims, TakesProduct, ProductClaim, Done
<1>3. g = [page EXCEPT !.rows[r.product] = IF @ = None THEN @ ELSE r.answer]
  BY DEF Updated
<1>4. /\ g.menu = page.menu /\ g.categories = page.categories /\ g.count = page.count /\ g.lists = page.lists
      /\ g.rows = [page.rows EXCEPT ![p] = IF @ = None THEN @ ELSE r.answer]
  BY <1>3 DEF PageOK
<1> HIDE DEF g
<1>5. g.rows[p] = (IF page.rows[p] = None THEN None ELSE r.answer) /\ \A q \in Product : q # p => g.rows[q] = page.rows[q]
  BY <1>1, <1>4 DEF PageOK, RowTable
<1>6. page.rows[p] = None => stored.rows[p] = None
  BY <1>1, <1>2, NoRow
<1>7. ProductAgrees(p, stored, g)
  BY <1>2, <1>4, <1>5, <1>6 DEF ProductAgrees, Placed
<1>8. OnlyTaken(r, stored, page, stored, g)
  BY <1>4, <1>5 DEF OnlyTaken, TakesOrder, TakesProduct
<1>9. Agreed(r, stored, g)
  BY <1>7 DEF Agreed, TakesOrder, TakesProduct
<1> QED BY <1>4, <1>8, <1>9 DEF Landed, g

(* Success: the page shows what the server answered.                         *)
LEMMA SuccessAgrees ==
  ASSUME StoreOK, PageOK, NEW r \in EditorRequest, KindOK(r), r.kind \notin {"load", "bulkPrice"}, r.phase = "done",
         Claims(r, stored, page), page.count[page.menu] = Len(page.categories), page.menu # None
  PROVE  Landed(r, Updated(r))
<1>1. CASE r.kind \in {"reorderCategories", "reorderProducts"}
  <2>1. Updated(r) = page
    BY <1>1 DEF Updated
  <2>2. Agreed(r, stored, page)
    BY <1>1 DEF Agreed, Claims, OrderClaim, ProductClaim, Pending, Done
  <2>3. OnlyTaken(r, stored, page, stored, page)
    BY DEF OnlyTaken
  <2> QED BY <2>1, <2>2, <2>3 DEF Landed
<1>2. r.kind \in EditorKinds
  BY DEF EditorRequest
<1> QED BY <1>1, <1>2, SavedProductAgrees, SavedCategoryAgrees, DeletedCategoryAgrees, DeletedProductAgrees, FieldAgrees
        DEF EditorKinds

-----------------------------------------------------------------------------
(* The handlers of the page.                                                *)

PageShape(g) ==
  /\ g \in [menu: Menu \cup {None}, loading: BOOLEAN, categories: Seq(Category), rows: RowTable,
            lists: [Category -> Seq(Product)], count: [Menu -> Nat]]
  /\ \A c \in Category : \A p \in ToSet(g.lists[c]) : g.rows[p] # None

Handled(r) ==
  /\ Send(r) /\ r \in EditorRequest /\ KindOK(r) /\ r.kind # "load"
  /\ stored' = stored /\ PageShape(page') /\ page'.menu = page.menu
  /\ OnlyTaken(r, stored, page, stored, page')
  /\ Agreed(r, stored, page) => Claims(r, stored, page')
  /\ page.count[page.menu] = Len(page.categories) => page'.count[page.menu] = Len(page'.categories)

LEMMA PageFacts ==
  ASSUME PageOK
  PROVE  /\ PageShape(page) /\ page.categories \in Seq(Category) /\ ToSet(page.categories) \subseteq Category
         /\ page.lists \in [Category -> Seq(Product)] /\ page.rows \in RowTable /\ page.count \in [Menu -> Nat]
         /\ \A c \in Category : page.lists[c] \in Seq(Product) /\ ToSet(page.lists[c]) \subseteq Product
         /\ \A c \in Category : \A p \in ToSet(page.lists[c]) : page.rows[p] \in Row
         /\ \A p \in ShownProducts : p \in Product /\ page.rows[p] \in Row
<1>1. /\ PageShape(page) /\ page.categories \in Seq(Category)
      /\ page.lists \in [Category -> Seq(Product)] /\ page.rows \in RowTable /\ page.count \in [Menu -> Nat]
  BY DEF PageOK, PageShape
<1>2. ToSet(page.categories) \subseteq Category
  BY <1>1, ElementOfSeq, LenProperties DEF ToSet
<1>3. \A c \in Category : page.lists[c] \in Seq(Product)
  BY <1>1
<1>4. \A c \in Category : ToSet(page.lists[c]) \subseteq Product
  <2>1. \A c \in Category : \A k \in DOMAIN page.lists[c] : page.lists[c][k] \in Product
    BY <1>3, ElementOfSeq, LenProperties
  <2> QED BY <2>1 DEF ToSet
<1>5. \A c \in Category : \A p \in ToSet(page.lists[c]) : page.rows[p] \in Row
  BY <1>1, <1>4 DEF PageOK, RowTable
<1>6. \A p \in ShownProducts : p \in Product /\ page.rows[p] \in Row
  BY <1>2, <1>4, <1>5 DEF ShownProducts
<1> QED BY <1>1, <1>2, <1>3, <1>4, <1>5, <1>6

Asks(r, kind, category, product, row, list, undo) ==
  /\ r \in EditorRequest /\ r.kind = kind /\ r.menu = page.menu /\ r.category = category /\ r.product = product
  /\ r.row = row /\ r.list = list /\ r.undo = undo /\ r.phase = "sent" /\ r.answer = None /\ ~r.alone

LEMMA RequestTyped ==
  ASSUME page.menu \in Menu, NEW kind \in EditorKinds, NEW category \in Category \cup {None},
         NEW product \in Product \cup {None}, NEW row, row \in Row \/ row \in [price: Price] \/ row = None,
         NEW list, list \in Seq(Category) \/ list \in Seq(Product),
         NEW undo, undo = None \/ undo \in Seq(Category) \/ undo \in ListsBefore \/ undo \in Price \/ undo \in BOOLEAN
  PROVE  Asks(Request(kind, category, product, row, list, undo), kind, category, product, row, list, undo)
<1> DEFINE r == Request(kind, category, product, row, list, undo)
<1>1. r = [kind |-> kind, menu |-> page.menu, category |-> category, product |-> product, row |-> row,
           list |-> list, undo |-> undo, phase |-> "sent", answer |-> None, products |-> None, alone |-> FALSE]
  BY DEF Request
<1>2. /\ row \in Row \cup [price: Price] \cup {None} /\ list \in Seq(Category) \cup Seq(Product)
      /\ undo \in {None} \cup Seq(Category) \cup ListsBefore \cup Price \cup BOOLEAN
      /\ None \in {None} \cup Row \cup Seq(Category) /\ None \in {None} \cup RowTable
      /\ "sent" \in {"sent", "done", "gone", "failed"} /\ FALSE \in BOOLEAN
  OBVIOUS
<1>3. r \in EditorRequest
  BY <1>1, <1>2, SMTT(30) DEF EditorRequest
<1> HIDE DEF r
<1>4. Asks(r, kind, category, product, row, list, undo)
  BY <1>1, <1>3 DEF Asks
<1> QED BY <1>4 DEF r

LEMMA MenuThere == ASSUME PageOK, hasMenu PROVE page.menu \in Menu /\ page.menu # None
  BY DEF PageOK, hasMenu

LEMMA CategoryDragHandled ==
  ASSUME PageOK, NEW i \in DOMAIN page.categories, NEW j \in DOMAIN page.categories, onCategoryDragEnd(i, j)
  PROVE  \E r : Handled(r)
<1> DEFINE list == arrayMove(page.categories, i, j)
           r == Request("reorderCategories", None, None, None, list, page.categories)
<1>0. page.menu \in Menu /\ page.menu # None /\ page.categories \in Seq(Category)
  BY MenuThere, PageFacts DEF onCategoryDragEnd, CanUseRows
<1>1. /\ page' = [page EXCEPT !.categories = list] /\ Send(r) /\ stored' = stored
  BY DEF onCategoryDragEnd
<1>2. Rearranged(list, page.categories, Category)
  BY <1>0, MoveKeeps
<1> HIDE DEF list
<1>3. list \in Seq(Category) /\ Len(list) = Len(page.categories)
  BY <1>2 DEF Rearranged
<1>4. /\ r \in EditorRequest /\ r.kind = "reorderCategories" /\ r.menu = page.menu /\ r.list = list
      /\ r.undo = page.categories /\ r.phase = "sent" /\ ~r.alone
  <2>1. Asks(r, "reorderCategories", None, None, None, list, page.categories)
    BY <1>0, <1>3, RequestTyped DEF EditorKinds
  <2> HIDE DEF r
  <2> QED BY <2>1 DEF Asks
<1> HIDE DEF r
<1>5. KindOK(r)
  BY <1>2, <1>4 DEF KindOK
<1>6. /\ page'.menu = page.menu /\ page'.categories = list /\ page'.rows = page.rows /\ page'.lists = page.lists
      /\ page'.count = page.count /\ PageShape(page')
  BY <1>1, <1>3 DEF PageOK, PageShape
<1>7. OnlyTaken(r, stored, page, stored, page')
  BY <1>4, <1>6 DEF OnlyTaken, TakesOrder
<1>8. ASSUME Agreed(r, stored, page) PROVE Claims(r, stored, page')
  <2>1. OrderAgrees(stored, page)
    BY <1>4, <1>8 DEF Agreed, TakesOrder
  <2> QED BY <1>4, <1>6, <2>1 DEF Claims, ListClaim, OrderClaim, OrderAgrees, TakesProduct, Pending, Done
<1>9. Handled(r)
  BY <1>1, <1>3, <1>4, <1>5, <1>6, <1>7, <1>8 DEF Handled
<1> QED BY <1>9

LEMMA ProductDragHandled ==
  ASSUME PageOK, StoreOK, NEW c \in ToSet(page.categories), NEW i \in DOMAIN page.lists[c],
         NEW j \in DOMAIN page.lists[c], onProductDragEnd(c, i, j)
  PROVE  \E r : Handled(r)
<1> DEFINE list == arrayMove(page.lists[c], i, j)
           undo == [list |-> page.lists[c], rows |-> page.rows]
           r == Request("reorderProducts", c, None, None, list, undo)
<1>0. /\ page.menu \in Menu /\ page.menu # None /\ c \in Category /\ page.lists[c] \in Seq(Product)
      /\ page.rows \in RowTable /\ page.lists \in [Category -> Seq(Product)]
  BY MenuThere, PageFacts DEF onProductDragEnd, CanUseRows
<1>1. /\ page' = [page EXCEPT !.lists[c] = list] /\ Send(r) /\ stored' = stored
  BY DEF onProductDragEnd
<1>2. Rearranged(list, page.lists[c], Product)
  BY <1>0, MoveKeeps
<1> HIDE DEF list
<1>3. list \in Seq(Product) /\ ToSet(list) = ToSet(page.lists[c])
  BY <1>2 DEF Rearranged
<1>4. undo \in ListsBefore /\ undo.list = page.lists[c] /\ undo.rows = page.rows
  BY <1>0 DEF ListsBefore
<1> HIDE DEF undo
<1>5. /\ r \in EditorRequest /\ r.kind = "reorderProducts" /\ r.menu = page.menu /\ r.list = list /\ r.category = c
      /\ r.undo = undo /\ r.phase = "sent" /\ ~r.alone
  <2>1. Asks(r, "reorderProducts", c, None, None, list, undo)
    BY <1>0, <1>3, <1>4, RequestTyped DEF EditorKinds
  <2> HIDE DEF r
  <2> QED BY <2>1 DEF Asks
<1> HIDE DEF r
<1>6. KindOK(r)
  <2>1. \A p \in ToSet(undo.list) : undo.rows[p] # None
    BY <1>0, <1>4 DEF PageOK
  <2> QED BY <1>0, <1>2, <1>4, <1>5, <2>1 DEF KindOK
<1>7. /\ page'.menu = page.menu /\ page'.categories = page.categories /\ page'.rows = page.rows
      /\ page'.count = page.count
      /\ page'.lists \in [Category -> Seq(Product)] /\ \A x \in Category : ToSet(page'.lists[x]) = ToSet(page.lists[x])
      /\ PageShape(page')
  <2>1. /\ page'.menu = page.menu /\ page'.categories = page.categories /\ page'.rows = page.rows
        /\ page'.count = page.count /\ page'.lists = [page.lists EXCEPT ![c] = list]
    BY <1>1 DEF PageOK
  <2>2. page'.lists \in [Category -> Seq(Product)]
    BY <1>0, <1>3, <2>1
  <2>3. \A x \in Category : ToSet(page'.lists[x]) = ToSet(page.lists[x])
    BY <1>0, <1>3, <2>1
  <2>4. page' \in [menu: Menu \cup {None}, loading: BOOLEAN, categories: Seq(Category), rows: RowTable,
                   lists: [Category -> Seq(Product)], count: [Menu -> Nat]]
    BY <1>1, <2>1, <2>2 DEF PageOK
  <2> QED BY <2>1, <2>2, <2>3, <2>4 DEF PageShape, PageOK
<1>8. OnlyTaken(r, stored, page, stored, page')
  BY <1>5, <1>7 DEF OnlyTaken, TakesOrder
<1>9. ASSUME Agreed(r, stored, page) PROVE Claims(r, stored, page')
  <2>1. ASSUME NEW p \in Product, p \in ToSet(list) PROVE ProductClaim(r, p, stored, page')
    <3>1. Placed(p, stored, page) /\ (stored.rows[p] # None => SameRow(page.rows[p], stored.rows[p]))
      BY <1>5, <1>9, <2>1 DEF Agreed, TakesProduct, ProductAgrees
    <3>2. stored.rows[p] # None
      BY <1>0, <1>3, <2>1, <3>1 DEF Placed, InCategory
    <3>3. ProductAgrees(p, stored, page')
      BY <1>7, <3>1 DEF ProductAgrees, Placed
    <3> QED BY <1>4, <1>5, <3>1, <3>2, <3>3 DEF ProductClaim, Pending, Done
  <2>2. ListClaim(r, page')
    BY <1>0, <1>3, <1>5, <1>7 DEF ListClaim
  <2> QED BY <1>5, <1>7, <2>1, <2>2 DEF Claims, TakesOrder, TakesProduct
<1>10. Handled(r)
  BY <1>1, <1>5, <1>6, <1>7, <1>8, <1>9 DEF Handled
<1> QED BY <1>10

LEMMA PriceHandled ==
  ASSUME PageOK, StoreOK, NEW p \in ShownProducts, NEW price \in Price, onProductPriceChange(p, price)
  PROVE  \E r : Handled(r)
<1> DEFINE old == page.rows[p]
           row == [old EXCEPT !.price = price]
           r == Request("price", None, p, row, <<>>, old.price)
<1>0. /\ page.menu \in Menu /\ page.menu # None /\ p \in Product /\ page.rows \in RowTable /\ old \in Row
      /\ page.lists \in [Category -> Seq(Product)]
  BY MenuThere, PageFacts DEF onProductPriceChange, CanUseRows
<1>1. /\ page' = [page EXCEPT !.rows[p].price = price] /\ Send(r) /\ stored' = stored
  BY DEF onProductPriceChange
<1>2. row \in Row /\ row.price = price /\ row.active = old.active /\ old.price \in Price
  BY <1>0 DEF Row
<1>3. /\ page'.menu = page.menu /\ page'.categories = page.categories /\ page'.lists = page.lists
      /\ page'.count = page.count /\ page'.rows = [page.rows EXCEPT ![p] = row]
      /\ page' \in [menu: Menu \cup {None}, loading: BOOLEAN, categories: Seq(Category), rows: RowTable,
                    lists: [Category -> Seq(Product)], count: [Menu -> Nat]]
  <2>1. page' = [page EXCEPT !.rows = [page.rows EXCEPT ![p] = row]]
    BY <1>1 DEF PageOK
  <2>2. [page.rows EXCEPT ![p] = row] \in RowTable
    BY <1>0, <1>2 DEF RowTable
  <2> HIDE DEF row
  <2> QED BY <2>1, <2>2 DEF PageOK
<1>4. <<>> \in Seq(Category)
  BY EmptySeq
<1> HIDE DEF row, old
<1>5. /\ r \in EditorRequest /\ r.kind = "price" /\ r.menu = page.menu /\ r.product = p /\ r.row = row
      /\ r.undo = old.price /\ r.phase = "sent" /\ ~r.alone
  <2>1. Asks(r, "price", None, p, row, <<>>, old.price)
    BY <1>0, <1>2, <1>4, RequestTyped DEF EditorKinds
  <2> HIDE DEF r
  <2> QED BY <2>1 DEF Asks
<1> HIDE DEF r
<1>6. KindOK(r)
  BY <1>0, <1>2, <1>5 DEF KindOK
<1>7. page'.rows[p] = row /\ \A q \in Product : q # p => page'.rows[q] = page.rows[q]
  BY <1>0, <1>3 DEF RowTable
<1>8. PageShape(page')
  BY <1>2, <1>3, <1>7, PageFacts, RowConstants DEF PageShape
<1>9. OnlyTaken(r, stored, page, stored, page')
  BY <1>3, <1>5, <1>7 DEF OnlyTaken, TakesOrder, TakesProduct
<1>10. ASSUME Agreed(r, stored, page) PROVE Claims(r, stored, page')
  <2>1. ProductAgrees(p, stored, page)
    BY <1>0, <1>5, <1>10 DEF Agreed, TakesProduct
  <2>2. ProductClaim(r, p, stored, page')
    BY <1>2, <1>3, <1>5, <1>7, <2>1 DEF ProductClaim, ProductAgrees, Placed, SameRow, Pending, Done, old
  <2> QED BY <1>3, <1>5, <2>2 DEF Claims, ListClaim, TakesOrder, TakesProduct
<1>11. Handled(r)
  BY <1>1, <1>3, <1>5, <1>6, <1>8, <1>9, <1>10 DEF Handled
<1> QED BY <1>11

LEMMA ActiveHandled ==
  ASSUME PageOK, StoreOK, NEW p \in ShownProducts, onProductActiveChange(p)
  PROVE  \E r : Handled(r)
<1> DEFINE old == page.rows[p]
           row == [old EXCEPT !.active = ~@]
           r == Request("active", None, p, row, <<>>, old.active)
<1>0. /\ page.menu \in Menu /\ page.menu # None /\ p \in Product /\ page.rows \in RowTable /\ old \in Row
      /\ page.lists \in [Category -> Seq(Product)]
  BY MenuThere, PageFacts DEF onProductActiveChange, CanUseRows
<1>1. /\ page' = [page EXCEPT !.rows[p].active = ~@] /\ Send(r) /\ stored' = stored
  BY DEF onProductActiveChange
<1>2. row \in Row /\ row.price = old.price /\ old.active \in BOOLEAN
  BY <1>0 DEF Row
<1>3. /\ page'.menu = page.menu /\ page'.categories = page.categories /\ page'.lists = page.lists
      /\ page'.count = page.count /\ page'.rows = [page.rows EXCEPT ![p] = row]
      /\ page' \in [menu: Menu \cup {None}, loading: BOOLEAN, categories: Seq(Category), rows: RowTable,
                    lists: [Category -> Seq(Product)], count: [Menu -> Nat]]
  <2>1. page' = [page EXCEPT !.rows = [page.rows EXCEPT ![p] = row]]
    BY <1>1 DEF PageOK
  <2>2. [page.rows EXCEPT ![p] = row] \in RowTable
    BY <1>0, <1>2 DEF RowTable
  <2> HIDE DEF row
  <2> QED BY <2>1, <2>2 DEF PageOK
<1>4. <<>> \in Seq(Category)
  BY EmptySeq
<1> HIDE DEF row, old
<1>5. /\ r \in EditorRequest /\ r.kind = "active" /\ r.menu = page.menu /\ r.product = p /\ r.row = row
      /\ r.undo = old.active /\ r.phase = "sent" /\ ~r.alone
  <2>1. Asks(r, "active", None, p, row, <<>>, old.active)
    BY <1>0, <1>2, <1>4, RequestTyped DEF EditorKinds
  <2> HIDE DEF r
  <2> QED BY <2>1 DEF Asks
<1> HIDE DEF r
<1>6. KindOK(r)
  BY <1>0, <1>2, <1>5 DEF KindOK
<1>7. page'.rows[p] = row /\ \A q \in Product : q # p => page'.rows[q] = page.rows[q]
  BY <1>0, <1>3 DEF RowTable
<1>8. PageShape(page')
  BY <1>2, <1>3, <1>7, PageFacts, RowConstants DEF PageShape
<1>9. OnlyTaken(r, stored, page, stored, page')
  BY <1>3, <1>5, <1>7 DEF OnlyTaken, TakesOrder, TakesProduct
<1>10. ASSUME Agreed(r, stored, page) PROVE Claims(r, stored, page')
  <2>1. ProductAgrees(p, stored, page)
    BY <1>0, <1>5, <1>10 DEF Agreed, TakesProduct
  <2>2. ProductClaim(r, p, stored, page')
    BY <1>2, <1>3, <1>5, <1>7, <2>1 DEF ProductClaim, ProductAgrees, Placed, SameRow, Pending, Done, old
  <2> QED BY <1>3, <1>5, <2>2 DEF Claims, ListClaim, TakesOrder, TakesProduct
<1>11. Handled(r)
  BY <1>1, <1>3, <1>5, <1>6, <1>8, <1>9, <1>10 DEF Handled
<1> QED BY <1>11

(* The dialogs leave the page as it is until the answer is there.            *)
LEMMA DialogHandled ==
  ASSUME PageOK, NEW r, Send(r), r \in EditorRequest, KindOK(r), r.phase = "sent", r.menu = page.menu,
         r.kind \in {"saveCategory", "saveProduct", "deleteCategory", "deleteProduct", "bulkPrice"},
         r.kind = "saveCategory" => r.category \in ToSet(page.categories) \/ stored.menuOf[r.category] = None,
         stored' = stored, page' = page
  PROVE  Handled(r)
<1>1. OnlyTaken(r, stored, page, stored, page)
  BY DEF OnlyTaken
<1>2. ASSUME Agreed(r, stored, page) PROVE Claims(r, stored, page)
  <2>1. OrderClaim(r, stored, page) \/ ~TakesOrder(r)
    BY <1>2 DEF Agreed, OrderClaim, Pending, Done
  <2>2. \A p \in Product : TakesProduct(r, p) => ProductClaim(r, p, stored, page)
    BY <1>2 DEF Agreed, ProductClaim, Pending, Done
  <2> QED BY <2>1, <2>2 DEF Claims, ListClaim
<1> QED BY <1>1, <1>2, PageFacts DEF Handled

LEMMA SaveCategoryHandled ==
  ASSUME PageOK, NEW c \in Category, SaveCategory(c)
  PROVE  \E r : Handled(r)
<1> DEFINE r == Request("saveCategory", c, None, None, <<>>, None)
<1>1. /\ page.menu \in Menu /\ Send(r) /\ stored' = stored /\ page' = page
      /\ c \in ToSet(page.categories) \/ stored.menuOf[c] = None
  BY MenuThere DEF SaveCategory
<1>2. <<>> \in Seq(Category)
  BY EmptySeq
<1>3. Asks(r, "saveCategory", c, None, None, <<>>, None)
  BY <1>1, <1>2, RequestTyped DEF EditorKinds
<1> HIDE DEF r
<1>4. KindOK(r)
  BY <1>3 DEF KindOK, Asks
<1>5. Handled(r)
  BY <1>1, <1>3, <1>4, DialogHandled DEF Asks
<1> QED BY <1>5

LEMMA SaveProductHandled ==
  ASSUME PageOK, NEW p \in Product, NEW c \in ToSet(page.categories), NEW price \in Price, SaveProduct(p, c, price)
  PROVE  \E r : Handled(r)
<1> DEFINE row == [category |-> c, position |-> 0, price |-> price, active |-> TRUE]
           r == Request("saveProduct", c, p, row, <<>>, None)
<1>1. page.menu \in Menu /\ Send(r) /\ stored' = stored /\ page' = page /\ c \in Category
  BY MenuThere, PageFacts DEF SaveProduct, CanUseRows
<1>2. <<>> \in Seq(Category)
  BY EmptySeq
<1>3. row \in Row /\ row.category = c
  BY <1>1 DEF Row
<1> HIDE DEF row
<1>4. Asks(r, "saveProduct", c, p, row, <<>>, None)
  BY <1>1, <1>2, <1>3, RequestTyped DEF EditorKinds
<1> HIDE DEF r
<1>5. KindOK(r)
  BY <1>1, <1>3, <1>4 DEF KindOK, Asks
<1>6. Handled(r)
  BY <1>1, <1>4, <1>5, DialogHandled DEF Asks
<1> QED BY <1>6

LEMMA DeleteCategoryHandled ==
  ASSUME PageOK, NEW c \in ToSet(page.categories), confirmCategoryDelete(c)
  PROVE  \E r : Handled(r)
<1> DEFINE r == Request("deleteCategory", c, None, None, <<>>, None)
<1>1. page.menu \in Menu /\ Send(r) /\ stored' = stored /\ page' = page /\ c \in Category
  BY MenuThere, PageFacts DEF confirmCategoryDelete, CanUseRows
<1>2. <<>> \in Seq(Category)
  BY EmptySeq
<1>3. Asks(r, "deleteCategory", c, None, None, <<>>, None)
  BY <1>1, <1>2, RequestTyped DEF EditorKinds
<1> HIDE DEF r
<1>4. KindOK(r)
  BY <1>1, <1>3 DEF KindOK, Asks
<1>5. Handled(r)
  BY <1>1, <1>3, <1>4, DialogHandled DEF Asks
<1> QED BY <1>5

LEMMA DeleteProductHandled ==
  ASSUME PageOK, NEW p \in ShownProducts, confirmProductDelete(p)
  PROVE  \E r : Handled(r)
<1> DEFINE r == Request("deleteProduct", None, p, None, <<>>, None)
<1>1. page.menu \in Menu /\ Send(r) /\ stored' = stored /\ page' = page /\ p \in Product
  BY MenuThere, PageFacts DEF confirmProductDelete, CanUseRows
<1>2. <<>> \in Seq(Category)
  BY EmptySeq
<1>3. Asks(r, "deleteProduct", None, p, None, <<>>, None)
  BY <1>1, <1>2, RequestTyped DEF EditorKinds
<1> HIDE DEF r
<1>4. KindOK(r)
  BY <1>1, <1>3 DEF KindOK, Asks
<1>5. Handled(r)
  BY <1>1, <1>3, <1>4, DialogHandled DEF Asks
<1> QED BY <1>5

LEMMA BulkHandled ==
  ASSUME PageOK, NEW price \in Price, ApplyBulkPrice(price)
  PROVE  \E r : Handled(r)
<1> DEFINE row == [price |-> price]
           r == Request("bulkPrice", None, None, row, <<>>, None)
<1>1. page.menu \in Menu /\ Send(r) /\ stored' = stored /\ page' = page
  BY MenuThere DEF ApplyBulkPrice
<1>2. <<>> \in Seq(Category)
  BY EmptySeq
<1>3. row \in [price: Price]
  OBVIOUS
<1> HIDE DEF row
<1>4. Asks(r, "bulkPrice", None, None, row, <<>>, None)
  BY <1>1, <1>2, <1>3, RequestTyped DEF EditorKinds
<1> HIDE DEF r
<1>5. KindOK(r)
  BY <1>3, <1>4 DEF KindOK, Asks
<1>6. Handled(r)
  BY <1>1, <1>4, <1>5, DialogHandled DEF Asks
<1> QED BY <1>6

-----------------------------------------------------------------------------
(* The requests keep their shape.                                           *)

LEMMA RequestFacts ==
  ASSUME RequestsOK
  PROVE  /\ requests \in Seq(EditorRequest) /\ DOMAIN requests = 1..Len(requests) /\ Len(requests) \in Nat
         /\ \A i \in DOMAIN requests : requests[i] \in EditorRequest /\ KindOK(requests[i])
  BY ElementOfSeq, LenProperties DEF RequestsOK

LEMMA DisturbedTyped ==
  ASSUME RequestsOK
  PROVE  /\ Disturbed \in Seq(EditorRequest) /\ DOMAIN Disturbed = DOMAIN requests /\ Len(Disturbed) = Len(requests)
         /\ \A i \in DOMAIN requests :
              Disturbed[i] = [requests[i] EXCEPT !.alone = FALSE] /\ KindOK(Disturbed[i]) /\ ~Disturbed[i].alone
<1>1. \A i \in DOMAIN requests : Disturbed[i] = [requests[i] EXCEPT !.alone = FALSE]
  BY DEF Disturbed
<1>2. ASSUME NEW i \in DOMAIN requests PROVE KindOK(Disturbed[i]) /\ ~Disturbed[i].alone /\ Disturbed[i] \in EditorRequest
  <2> DEFINE x == requests[i]
             y == Disturbed[i]
  <2>1. x \in EditorRequest /\ KindOK(x) /\ y = [x EXCEPT !.alone = FALSE]
    BY <1>1, RequestFacts
  <2> HIDE DEF x, y
  <2>2. /\ y.kind = x.kind /\ y.category = x.category /\ y.product = x.product /\ y.row = x.row /\ y.list = x.list
        /\ y.undo = x.undo /\ y.phase = x.phase /\ y.answer = x.answer /\ y.products = x.products /\ ~y.alone
        /\ y \in EditorRequest
    BY <2>1 DEF EditorRequest
  <2>3. KindOK(y)
    BY <2>1, <2>2 DEF KindOK
  <2> QED BY <2>2, <2>3 DEF y
<1>3. /\ Disturbed \in Seq(EditorRequest) /\ DOMAIN Disturbed = DOMAIN requests /\ Len(Disturbed) = Len(requests)
  <2>1. Len(requests) \in Nat /\ DOMAIN requests = 1..Len(requests)
    BY RequestFacts
  <2>2. Disturbed = [i \in 1..Len(requests) |-> Disturbed[i]] /\ DOMAIN Disturbed = DOMAIN requests
    BY <2>1 DEF Disturbed
  <2>3. Disturbed \in [1..Len(requests) -> EditorRequest]
    BY <1>2, <2>1, <2>2
  <2>4. Disturbed \in Seq(EditorRequest)
    BY <2>1, <2>3, IsASeq
  <2> HIDE DEF Disturbed
  <2> QED BY <2>1, <2>2, <2>4, LenProperties
<1> QED BY <1>1, <1>2, <1>3

LEMMA SendTyped ==
  ASSUME RequestsOK, NEW r \in EditorRequest, KindOK(r), requests' = Append(Disturbed, r)
  PROVE  /\ RequestsOK' /\ DOMAIN requests' = DOMAIN requests \cup {Len(requests) + 1} /\ Len(requests) + 1 \notin DOMAIN requests
         /\ requests'[Len(requests) + 1] = r /\ Len(requests') = Len(requests) + 1
         /\ \A i \in DOMAIN requests : requests'[i] = [requests[i] EXCEPT !.alone = FALSE] /\ ~requests'[i].alone
<1> DEFINE q == Disturbed
<1>1. /\ q \in Seq(EditorRequest) /\ DOMAIN q = DOMAIN requests /\ Len(q) = Len(requests)
      /\ \A i \in DOMAIN requests : q[i] = [requests[i] EXCEPT !.alone = FALSE] /\ KindOK(q[i]) /\ ~q[i].alone
  BY DisturbedTyped
<1> HIDE DEF q
<1>2. /\ Append(q, r) \in Seq(EditorRequest) /\ Len(Append(q, r)) = Len(q) + 1
      /\ DOMAIN Append(q, r) = DOMAIN q \cup {Len(q) + 1} /\ Len(q) + 1 \notin DOMAIN q
      /\ Append(q, r)[Len(q) + 1] = r /\ \A i \in DOMAIN q : Append(q, r)[i] = q[i]
  BY <1>1, Appended
<1>3. requests' = Append(q, r)
  BY DEF q
<1>4. /\ requests' \in Seq(EditorRequest) /\ DOMAIN requests' = DOMAIN requests \cup {Len(requests) + 1}
      /\ Len(requests) + 1 \notin DOMAIN requests /\ Len(requests') = Len(requests) + 1
      /\ requests'[Len(requests) + 1] = r
      /\ \A i \in DOMAIN requests : requests'[i] = q[i]
  BY <1>1, <1>2, <1>3
<1>5. RequestsOK'
  BY <1>1, <1>4 DEF RequestsOK
<1> QED BY <1>1, <1>4, <1>5

LEMMA OverTyped ==
  ASSUME RequestsOK, NEW i \in DOMAIN requests
  PROVE  LET q == RemoveAt(requests, i) IN
         /\ q \in Seq(EditorRequest) /\ Len(q) = Len(requests) - 1
         /\ \A k \in DOMAIN q : KindOK(q[k]) /\ \E j \in DOMAIN requests \ {i} : q[k] = requests[j]
         /\ \A j \in DOMAIN requests \ {i} : \E k \in DOMAIN q : q[k] = requests[j]
<1> DEFINE q == RemoveAt(requests, i)
<1>1. requests \in Seq(EditorRequest) /\ \A k \in DOMAIN requests : KindOK(requests[k])
  BY RequestFacts
<1>2. /\ q \in Seq(EditorRequest) /\ Len(q) = Len(requests) - 1
      /\ \A k \in DOMAIN q :
           /\ (IF k < i THEN k ELSE k + 1) \in DOMAIN requests \ {i}
           /\ q[k] = requests[IF k < i THEN k ELSE k + 1]
      /\ \A j \in DOMAIN requests \ {i} : \E k \in DOMAIN q : j = IF k < i THEN k ELSE k + 1
  BY ONLY <1>1, i \in DOMAIN requests, Removed
<1> HIDE DEF q
<1> DEFINE was == [k \in DOMAIN q |-> IF k < i THEN k ELSE k + 1]
<1>3. /\ \A k \in DOMAIN q : was[k] \in DOMAIN requests \ {i} /\ q[k] = requests[was[k]]
      /\ \A j \in DOMAIN requests \ {i} : \E k \in DOMAIN q : j = was[k]
  BY <1>2
<1> HIDE DEF was
<1>4. /\ \A k \in DOMAIN q : KindOK(q[k]) /\ \E j \in DOMAIN requests \ {i} : q[k] = requests[j]
      /\ \A j \in DOMAIN requests \ {i} : \E k \in DOMAIN q : q[k] = requests[j]
  BY <1>1, <1>3
<1> QED BY <1>2, <1>4 DEF q

LEMMA LoadTyped ==
  ASSUME NEW m \in Menu, NEW alone \in BOOLEAN
  PROVE  LET r == LoadRequest(m, alone) IN
         /\ r \in EditorRequest /\ KindOK(r) /\ r.kind = "load" /\ r.menu = m /\ r.alone = alone /\ r.phase = "sent"
         /\ r.answer = None /\ r.products = None
<1> DEFINE r == LoadRequest(m, alone)
<1>1. r = [kind |-> "load", menu |-> m, category |-> None, product |-> None, row |-> None, list |-> <<>>,
           undo |-> None, phase |-> "sent", answer |-> None, products |-> None, alone |-> alone]
  BY DEF LoadRequest
<1>2. /\ "load" \in EditorKinds /\ None \in Category \cup {None} /\ None \in Product \cup {None}
      /\ None \in Row \cup [price: Price] \cup {None} /\ <<>> \in Seq(Category) \cup Seq(Product)
      /\ None \in {None} \cup Seq(Category) \cup ListsBefore \cup Price \cup BOOLEAN
      /\ None \in {None} \cup Row \cup Seq(Category) /\ None \in {None} \cup RowTable
      /\ "sent" \in {"sent", "done", "gone", "failed"}
  BY EmptySeq DEF EditorKinds
<1>3. r \in EditorRequest
  BY <1>1, <1>2, SMTT(30) DEF EditorRequest
<1> HIDE DEF r
<1>4. /\ r.kind = "load" /\ r.menu = m /\ r.alone = alone /\ r.phase = "sent" /\ r.answer = None /\ r.products = None
  BY <1>1
<1>5. KindOK(r)
  BY <1>4 DEF KindOK
<1> QED BY <1>3, <1>4, <1>5 DEF r

-----------------------------------------------------------------------------
(* The server answers.                                                      *)

LEMMA AnswerTyped ==
  ASSUME RequestsOK, NEW i \in DOMAIN requests, NEW r \in EditorRequest, KindOK(r),
         requests' = [requests EXCEPT ![i] = r]
  PROVE  /\ RequestsOK' /\ DOMAIN requests' = DOMAIN requests /\ Len(requests') = Len(requests)
         /\ requests'[i] = r /\ \A k \in DOMAIN requests \ {i} : requests'[k] = requests[k]
<1>1. /\ requests \in Seq(EditorRequest) /\ DOMAIN requests = 1..Len(requests) /\ Len(requests) \in Nat
      /\ \A k \in DOMAIN requests : requests[k] \in EditorRequest /\ KindOK(requests[k])
  BY RequestFacts
<1>2. /\ DOMAIN requests' = DOMAIN requests /\ requests'[i] = r
      /\ \A k \in DOMAIN requests \ {i} : requests'[k] = requests[k]
  BY <1>1
<1>3. requests' \in Seq(EditorRequest) /\ Len(requests') = Len(requests)
  BY <1>1, ExceptSeq
<1>4. \A k \in DOMAIN requests' : KindOK(requests'[k])
  BY <1>1, <1>2
<1> QED BY <1>2, <1>3, <1>4 DEF RequestsOK

LEMMA FieldTyped ==
  ASSUME NEW r \in EditorRequest
  PROVE  /\ \A phase \in {"sent", "done", "gone", "failed"} : [r EXCEPT !.phase = phase] \in EditorRequest
         /\ \A answer \in {None} \cup Row \cup Seq(Category) : [r EXCEPT !.answer = answer] \in EditorRequest
         /\ \A products \in {None} \cup RowTable : [r EXCEPT !.products = products] \in EditorRequest
<1>1. ASSUME NEW phase \in {"sent", "done", "gone", "failed"} PROVE [r EXCEPT !.phase = phase] \in EditorRequest
  BY DEF EditorRequest
<1>2. ASSUME NEW answer \in {None} \cup Row \cup Seq(Category) PROVE [r EXCEPT !.answer = answer] \in EditorRequest
  BY DEF EditorRequest
<1>3. ASSUME NEW products \in {None} \cup RowTable PROVE [r EXCEPT !.products = products] \in EditorRequest
  BY DEF EditorRequest
<1> QED BY <1>1, <1>2, <1>3

(* How an answer changes a request.                                         *)
Answers(r, phase, answer) == [r EXCEPT !.phase = phase, !.answer = answer]
SameBut(r2, r, phase, answer) ==
  /\ r2.kind = r.kind /\ r2.menu = r.menu /\ r2.category = r.category /\ r2.product = r.product
  /\ r2.row = r.row /\ r2.list = r.list /\ r2.undo = r.undo /\ r2.phase = phase /\ r2.answer = answer
  /\ r2.products = r.products /\ r2.alone = r.alone

LEMMA AnswerFields ==
  ASSUME RequestsOK, NEW i \in DOMAIN requests, NEW phase \in {"sent", "done", "gone", "failed"},
         NEW answer, answer = None \/ answer \in Row \/ answer \in Seq(Category), AnswerWith(i, phase, answer)
  PROVE  /\ requests' = [requests EXCEPT ![i] = Answers(requests[i], phase, answer)]
         /\ Answers(requests[i], phase, answer) \in EditorRequest
         /\ SameBut(Answers(requests[i], phase, answer), requests[i], phase, answer)
<1> DEFINE r == requests[i]
           r2 == Answers(r, phase, answer)
<1>1. requests \in Seq(EditorRequest) /\ r \in EditorRequest
  BY RequestFacts
<1>2. requests' = [requests EXCEPT ![i] = r2]
  BY <1>1 DEF AnswerWith, Answers
<1>3. answer \in {None} \cup Row \cup Seq(Category)
  OBVIOUS
<1> HIDE DEF r
<1>4. r2 \in EditorRequest
  <2> DEFINE r1 == [r EXCEPT !.phase = phase]
  <2>1. r1 \in EditorRequest
    BY <1>1, FieldTyped
  <2>2. [r1 EXCEPT !.answer = answer] \in EditorRequest
    <3> HIDE DEF r1
    <3> QED BY <1>3, <2>1, FieldTyped
  <2>3. r2 = [r1 EXCEPT !.answer = answer]
    BY DEF Answers
  <2> QED BY <2>2, <2>3
<1>5. SameBut(r2, r, phase, answer)
  BY <1>1 DEF EditorRequest, Answers, SameBut
<1> QED BY <1>2, <1>4, <1>5 DEF r

(* A write that is done answers with the row it wrote.                       *)
LEMMA AnswerOfTyped ==
  ASSUME StoreOK, NEW r \in EditorRequest, KindOK(r), r.phase = "sent", r.kind # "load",
         ~MissingCategory(r), ~MissingProduct(r)
  PROVE  /\ AnswerOf(r) \in Row \cup {None}
         /\ r.kind \in {"price", "active", "saveProduct"} => AnswerOf(r) \in Row
         /\ r.kind = "saveProduct" => AnswerOf(r).category = r.category
<1> DEFINE s2 == After(r)
           p == r.product
<1>1. s2.rows \in RowTable
  BY AfterTyped DEF StoreShape
<1>2. p \in Product \/ p = None
  BY DEF EditorRequest
<1>3. AnswerOf(r) = IF p # None THEN s2.rows[p] ELSE None
  BY DEF AnswerOf
<1>4. AnswerOf(r) \in Row \cup {None}
  <2> HIDE DEF s2, p
  <2> QED BY <1>1, <1>2, <1>3 DEF RowTable
<1>5. CASE r.kind \in {"price", "active"}
  <2>1. p \in Product /\ stored.rows[p] \in Row /\ r.row \in Row
    BY <1>5 DEF KindOK, MissingProduct, StoreOK, StoreShape, RowTable
  <2>2. s2.rows[p] = [stored.rows[p] EXCEPT !.price = r.row.price] \/ s2.rows[p] = [stored.rows[p] EXCEPT !.active = r.row.active]
    BY <1>5, <2>1 DEF After, StoreOK, StoreShape, RowTable
  <2>3. s2.rows[p] \in Row
    <3> HIDE DEF s2, p
    <3> QED BY <2>1, <2>2 DEF Row
  <2> QED BY <1>3, <1>4, <1>5, <2>1, <2>3, EditorConstants
<1>6. CASE r.kind = "saveProduct"
  <2> DEFINE position == IF stored.rows[r.product] = None THEN NextPosition(stored.rows, r.category)
                         ELSE stored.rows[r.product].position
  <2>1. p \in Product /\ r.category \in Category /\ r.row \in Row /\ r.row.category = r.category
    BY <1>6 DEF KindOK
  <2>2. s2 = [stored EXCEPT !.rows[r.product] = [r.row EXCEPT !.position = position]]
    BY <1>6 DEF After
  <2>3. position \in Nat
    <3>1. stored.rows[r.product] # None => stored.rows[r.product].position \in Nat
      BY <2>1 DEF RowTable, Row, StoreOK, StoreShape
    <3> QED BY <2>1, <3>1, NextPositionTyped
  <2> HIDE DEF position
  <2>4. s2.rows[p] = [r.row EXCEPT !.position = position]
    BY <2>1, <2>2 DEF StoreOK, StoreShape, RowTable
  <2> HIDE DEF s2, p
  <2>5. s2.rows[p] \in Row /\ s2.rows[p].category = r.category
    BY <2>1, <2>3, <2>4 DEF Row
  <2> QED BY <1>3, <1>4, <1>6, <2>1, <2>5, EditorConstants
<1> QED BY <1>4, <1>5, <1>6

(* One of the requests is answered; nothing but the answer is new to it.     *)
Moved(i) ==
  /\ RequestsOK' /\ DOMAIN requests' = DOMAIN requests /\ Len(requests') = Len(requests)
  /\ \A k \in DOMAIN requests \ {i} : requests'[k] = requests[k]
  /\ requests'[i].kind = requests[i].kind /\ requests'[i].menu = requests[i].menu
  /\ requests'[i].alone = requests[i].alone

LEMMA ExecuteMoves ==
  ASSUME StoreOK, PageOK, RequestsOK, NEW i \in DOMAIN requests, Execute(i),
         Claimed => ClaimsHold(requests, stored, page)
  PROVE  /\ Moved(i) /\ StoreOK' /\ (Claimed' => ClaimsHold(requests', stored', page'))
         /\ requests'[i].phase = "done" \/ preview' = [preview EXCEPT !.stale = TRUE]
<1> DEFINE r == requests[i]
<1>0. r \in EditorRequest /\ KindOK(r)
  BY RequestFacts
<1>1. r.phase = "sent" /\ r.kind # "load" /\ ~MissingCategory(r) /\ ~MissingProduct(r) /\ stored' = After(r) /\ page' = page
  BY DEF Execute
<1>2. StoreOK'
  <2>1. StoreShape(After(r))
    BY <1>0, <1>1, AfterTyped
  <2> QED BY <1>1, <2>1 DEF StoreOK, StoreShape
<1>3. CASE AnswerWith(i, "done", AnswerOf(r)) /\ UNCHANGED <<preview, inSync>>
  <2>1. /\ AnswerOf(r) \in Row \cup {None}
        /\ r.kind \in {"price", "active", "saveProduct"} => AnswerOf(r) \in Row
        /\ r.kind = "saveProduct" => AnswerOf(r).category = r.category
    BY <1>0, <1>1, AnswerOfTyped
  <2> DEFINE r2 == Answers(r, "done", AnswerOf(r))
  <2>2. requests' = [requests EXCEPT ![i] = r2] /\ r2 \in EditorRequest /\ SameBut(r2, r, "done", AnswerOf(r))
    BY <1>3, <2>1, AnswerFields
  <2> HIDE DEF r2, r
  <2>3. KindOK(r2)
    BY <1>0, <1>1, <2>1, <2>2 DEF KindOK, SameBut
  <2>4. /\ RequestsOK' /\ DOMAIN requests' = DOMAIN requests /\ Len(requests') = Len(requests) /\ requests'[i] = r2
        /\ \A k \in DOMAIN requests \ {i} : requests'[k] = requests[k]
    BY <2>2, <2>3, AnswerTyped
  <2>5. Moved(i)
    BY <2>2, <2>4 DEF Moved, SameBut, r
  <2>6. ASSUME Claimed' PROVE ClaimsHold(requests', stored', page')
    <3>1. Claimed
      BY <1>1, <1>3, <2>5, <2>6 DEF Claimed, Loading, Moved
    <3>2. ClaimsHold(requests, stored, page) /\ page.menu # None
      BY <3>1 DEF Claimed
    <3>3. Executes(r)
      BY <1>0, <1>1, <3>2 DEF Executes, ClaimsHold, r
    <3>4. OnlyTaken(r, stored, page, After(r), page) /\ Claims(DoneWith(r), After(r), page)
      BY <3>3, ServerExecutes DEF Executed
    <3>5. DoneWith(r) = [requests[i] EXCEPT !.phase = "done", !.answer = AnswerOf(r)]
      BY DEF DoneWith, r
    <3>6. OnlyTaken(requests[i], stored, page, stored', page)
      BY <1>1, <3>4 DEF r
    <3>7. Claims([requests[i] EXCEPT !.phase = "done", !.answer = AnswerOf(r)], stored', page)
      BY <1>1, <3>4, <3>5
    <3> QED BY <1>1, <1>3, <3>2, <3>6, <3>7, AnswerHolds
  <2> QED BY <1>2, <2>2, <2>4, <2>5, <2>6 DEF SameBut
<1>4. CASE AnswerWith(i, "failed", None) /\ preview' = [preview EXCEPT !.stale = TRUE] /\ inSync' = FALSE
  <2> DEFINE r2 == Answers(r, "failed", None)
  <2>1. requests' = [requests EXCEPT ![i] = r2] /\ r2 \in EditorRequest /\ SameBut(r2, r, "failed", None)
    BY <1>4, AnswerFields
  <2> HIDE DEF r2, r
  <2>2. KindOK(r2)
    BY <1>0, <1>1, <2>1 DEF KindOK, SameBut
  <2>3. /\ RequestsOK' /\ DOMAIN requests' = DOMAIN requests /\ Len(requests') = Len(requests) /\ requests'[i] = r2
        /\ \A k \in DOMAIN requests \ {i} : requests'[k] = requests[k]
    BY <2>1, <2>2, AnswerTyped
  <2>4. Moved(i)
    BY <2>1, <2>3 DEF Moved, SameBut, r
  <2> QED BY <1>2, <1>4, <2>4 DEF Claimed
<1> QED BY <1>3, <1>4 DEF Execute, AnswerOf

LEMMA RefuseMoves ==
  ASSUME StoreOK, PageOK, RequestsOK, NEW i \in DOMAIN requests, RefuseRequest(i),
         Claimed => ClaimsHold(requests, stored, page)
  PROVE  /\ Moved(i) /\ (Claimed' => ClaimsHold(requests', stored', page'))
         /\ requests[i].phase = "sent" /\ requests'[i].phase # "done" /\ requests'[i].answer = None
         /\ requests'[i].products = requests[i].products
<1> DEFINE r == requests[i]
<1>0. r \in EditorRequest /\ KindOK(r)
  BY RequestFacts
<1>1. r.phase = "sent" /\ stored' = stored /\ page' = page /\ inSync' = inSync
  BY DEF RefuseRequest
<1>2. PICK phase \in {"gone", "failed"} : AnswerWith(i, phase, None) /\ (phase = "gone" => r.kind # "load")
  BY DEF RefuseRequest
<1> DEFINE r2 == Answers(r, phase, None)
<1>3. requests' = [requests EXCEPT ![i] = r2] /\ r2 \in EditorRequest /\ SameBut(r2, r, phase, None)
  BY <1>2, AnswerFields
<1>4. r2 = [requests[i] EXCEPT !.phase = phase, !.answer = None]
  BY DEF Answers
<1> HIDE DEF r2, r
<1>5. KindOK(r2)
  BY <1>0, <1>1, <1>2, <1>3 DEF KindOK, SameBut
<1>6. /\ RequestsOK' /\ DOMAIN requests' = DOMAIN requests /\ Len(requests') = Len(requests) /\ requests'[i] = r2
      /\ \A k \in DOMAIN requests \ {i} : requests'[k] = requests[k]
  BY <1>3, <1>5, AnswerTyped
<1>7. Moved(i)
  BY <1>3, <1>6 DEF Moved, SameBut, r
<1>8. ASSUME Claimed' PROVE ClaimsHold(requests', stored', page')
  <2>1. Claimed
    BY <1>1, <1>7, <1>8 DEF Claimed, Loading, Moved
  <2>2. ClaimsHold(requests, stored, page)
    BY <2>1
  <2>3. Claims(r, stored, page)
    BY <2>2 DEF ClaimsHold, r
  <2>4. Claims(r2, stored, page)
    BY <1>1, <1>3, <2>3 DEF Claims, SameBut, ListClaim, TakesOrder, TakesProduct, OrderClaim, ProductClaim, Pending, Done
  <2>5. OnlyTaken(requests[i], stored, page, stored', page)
    BY <1>1 DEF OnlyTaken
  <2>6. Claims([requests[i] EXCEPT !.phase = phase, !.answer = None], stored', page)
    BY <1>1, <1>4, <2>4
  <2> QED BY <1>1, <1>2, <2>2, <2>5, <2>6, AnswerHolds
<1> QED BY <1>1, <1>2, <1>3, <1>6, <1>7, <1>8 DEF SameBut, r

LEMMA ReadMoves ==
  ASSUME StoreOK, RequestsOK, NEW i \in DOMAIN requests, ReadCategories(i) \/ ReadProducts(i)
  PROVE  /\ Moved(i) /\ ~Claimed'
         /\ requests'[i].phase = requests[i].phase
         /\ \/ requests'[i].answer = CategoriesOf(stored, requests[i].menu) /\ requests'[i].products = requests[i].products
            \/ requests'[i].answer = requests[i].answer /\ requests'[i].products = stored.rows
<1> DEFINE r == requests[i]
<1>0. r \in EditorRequest /\ KindOK(r) /\ r.menu \in Menu /\ requests \in Seq(EditorRequest)
  BY RequestFacts DEF EditorRequest
<1>1. PICK r2 \in EditorRequest :
        /\ requests' = [requests EXCEPT ![i] = r2] /\ KindOK(r2)
        /\ r2.kind = r.kind /\ r2.kind = "load" /\ r2.menu = r.menu /\ r2.alone = r.alone /\ r2.phase = r.phase
        /\ \/ r2.answer = CategoriesOf(stored, r.menu) /\ r2.products = r.products
           \/ r2.answer = r.answer /\ r2.products = stored.rows
  <2>1. CASE ReadCategories(i)
    <3> DEFINE list == CategoriesOf(stored, r.menu)
               r2 == [r EXCEPT !.answer = list]
    <3>1. list \in Seq(Category)
      BY <1>0, CategoriesTyped
    <3>2. r.kind = "load" /\ requests' = [requests EXCEPT ![i] = r2]
      BY <1>0, <2>1 DEF ReadCategories
    <3> HIDE DEF list, r
    <3>3. r2 \in EditorRequest
      BY <1>0, <3>1, FieldTyped
    <3>4. /\ r2.kind = r.kind /\ r2.menu = r.menu /\ r2.alone = r.alone /\ r2.phase = r.phase
          /\ r2.answer = list /\ r2.products = r.products
      BY <1>0 DEF EditorRequest
    <3> HIDE DEF r2
    <3>5. KindOK(r2)
      BY <1>0, <3>1, <3>2, <3>4 DEF KindOK
    <3> QED BY <3>2, <3>3, <3>4, <3>5 DEF list, r
  <2>2. CASE ReadProducts(i)
    <3> DEFINE r2 == [r EXCEPT !.products = stored.rows]
    <3>1. stored.rows \in RowTable
      BY DEF StoreOK, StoreShape
    <3>2. r.kind = "load" /\ requests' = [requests EXCEPT ![i] = r2]
      BY <1>0, <2>2 DEF ReadProducts
    <3> HIDE DEF r
    <3>3. r2 \in EditorRequest
      BY <1>0, <3>1, FieldTyped
    <3>4. /\ r2.kind = r.kind /\ r2.menu = r.menu /\ r2.alone = r.alone /\ r2.phase = r.phase
          /\ r2.answer = r.answer /\ r2.products = stored.rows
      BY <1>0 DEF EditorRequest
    <3> HIDE DEF r2
    <3>5. KindOK(r2)
      BY <1>0, <3>1, <3>2, <3>4 DEF KindOK
    <3> QED BY <3>2, <3>3, <3>4, <3>5 DEF r
  <2> QED BY <2>1, <2>2
<1>2. /\ RequestsOK' /\ DOMAIN requests' = DOMAIN requests /\ Len(requests') = Len(requests) /\ requests'[i] = r2
      /\ \A k \in DOMAIN requests \ {i} : requests'[k] = requests[k]
  BY <1>1, AnswerTyped
<1>3. Moved(i) /\ ~Claimed'
  BY <1>1, <1>2 DEF Moved, Claimed, Loading
<1> QED BY <1>1, <1>2, <1>3

-----------------------------------------------------------------------------
(* Answers land: the page and the requests keep their shape.                *)

PageRecord == [menu: Menu \cup {None}, loading: BOOLEAN, categories: Seq(Category), rows: RowTable,
               lists: [Category -> Seq(Product)], count: [Menu -> Nat]]

LEMMA RolledBackTyped ==
  ASSUME PageOK, NEW r \in EditorRequest, KindOK(r)
  PROVE  PageShape(RolledBack(r)) /\ RolledBack(r).menu = page.menu
<1> DEFINE g == RolledBack(r)
<1>0. /\ page \in PageRecord /\ page.categories \in Seq(Category) /\ page.rows \in RowTable
      /\ page.lists \in [Category -> Seq(Product)]
      /\ \A c \in Category : \A p \in ToSet(page.lists[c]) : p \in Product /\ page.rows[p] # None
  BY PageFacts DEF PageOK, PageRecord
<1>1. CASE r.kind = "reorderCategories"
  <2>1. g = [page EXCEPT !.categories = r.undo] /\ r.undo \in Seq(Category)
    BY <1>1 DEF RolledBack, KindOK, Rearranged
  <2>2. g.menu = page.menu /\ g.rows = page.rows /\ g.lists = page.lists /\ g \in PageRecord
    BY <1>0, <2>1 DEF PageRecord
  <2> HIDE DEF g
  <2> QED BY <1>0, <2>2 DEF PageShape, PageRecord, g
<1>2. CASE r.kind = "reorderProducts"
  <2> DEFINE c == r.category
             rows == [p \in Product |-> IF p \in ToSet(r.undo.list) THEN r.undo.rows[p] ELSE page.rows[p]]
             lists == [page.lists EXCEPT ![c] = r.undo.list]
  <2>1. c \in Category /\ r.undo.list \in Seq(Product) /\ r.undo.rows \in RowTable /\ \A p \in ToSet(r.undo.list) : r.undo.rows[p] # None
    BY <1>2 DEF KindOK, ListsBefore
  <2>2. g = [page EXCEPT !.lists = lists, !.rows = rows]
    BY <1>0, <1>2 DEF RolledBack, PageRecord
  <2>3. rows \in RowTable /\ lists \in [Category -> Seq(Product)]
    BY <1>0, <2>1 DEF RowTable
  <2>4. \A x \in Category : \A p \in ToSet(lists[x]) : p \in Product /\ rows[p] # None
    <3>1. \A p \in ToSet(r.undo.list) : p \in Product
      BY <2>1, ElementOfSeq, LenProperties DEF ToSet
    <3>2. \A x \in Category : lists[x] = IF x = c THEN r.undo.list ELSE page.lists[x]
      BY <1>0, <2>1
    <3> QED BY <1>0, <2>1, <3>1, <3>2
  <2> HIDE DEF rows, lists
  <2>5. g.menu = page.menu /\ g.rows = rows /\ g.lists = lists /\ g \in PageRecord
    BY <1>0, <2>2, <2>3 DEF PageRecord
  <2> HIDE DEF g
  <2> QED BY <2>4, <2>5 DEF PageShape, PageRecord, g
<1>3. CASE r.kind \in {"price", "active"} /\ page.rows[r.product] # None
  <2> DEFINE p == r.product
  <2>1. p \in Product /\ page.rows[p] \in Row
    BY <1>0, <1>3 DEF KindOK, RowTable
  <2>2. PICK row \in Row : g = [page EXCEPT !.rows = [page.rows EXCEPT ![p] = row]]
    <3>1. CASE r.kind = "price"
      <4> DEFINE row == [page.rows[p] EXCEPT !.price = r.undo]
      <4>1. row \in Row
        BY <2>1, <3>1 DEF Row, KindOK
      <4>2. g = [page EXCEPT !.rows = [page.rows EXCEPT ![p] = row]]
        BY <1>0, <1>3, <3>1 DEF RolledBack, PageRecord
      <4> QED BY <4>1, <4>2
    <3>2. CASE r.kind = "active"
      <4> DEFINE row == [page.rows[p] EXCEPT !.active = r.undo]
      <4>1. row \in Row
        BY <2>1, <3>2 DEF Row, KindOK
      <4>2. g = [page EXCEPT !.rows = [page.rows EXCEPT ![p] = row]]
        BY <1>0, <1>3, <3>2 DEF RolledBack, PageRecord
      <4> QED BY <4>1, <4>2
    <3> QED BY <1>3, <3>1, <3>2
  <2> DEFINE rows == [page.rows EXCEPT ![p] = row]
  <2>3. rows \in RowTable /\ \A q \in Product : page.rows[q] # None => rows[q] # None
    BY <1>0, <2>1, RowConstants DEF RowTable
  <2> HIDE DEF rows
  <2>4. g.menu = page.menu /\ g.rows = rows /\ g.lists = page.lists /\ g \in PageRecord
    BY <1>0, <2>2, <2>3 DEF PageRecord, rows
  <2> HIDE DEF g
  <2> QED BY <1>0, <2>3, <2>4 DEF PageShape, PageRecord, g
<1>4. CASE g = page
  BY <1>4, PageFacts
<1> QED BY <1>1, <1>2, <1>3, <1>4 DEF RolledBack

LEMMA UpdatedTyped ==
  ASSUME PageOK, NEW r \in EditorRequest, KindOK(r), r.phase = "done"
  PROVE  PageShape(Updated(r)) /\ Updated(r).menu = page.menu
<1> DEFINE g == Updated(r)
<1>0. /\ page \in PageRecord /\ page.categories \in Seq(Category) /\ page.rows \in RowTable
      /\ page.lists \in [Category -> Seq(Product)] /\ page.count \in [Menu -> Nat] /\ r.menu \in Menu
      /\ \A c \in Category : \A p \in ToSet(page.lists[c]) : p \in Product /\ page.rows[p] # None
  BY PageFacts DEF PageOK, PageRecord, EditorRequest
<1>1. CASE r.kind \in {"price", "active"}
  <2> DEFINE p == r.product
             row == IF page.rows[p] = None THEN None ELSE r.answer
             rows == [page.rows EXCEPT ![p] = row]
  <2>1. p \in Product /\ r.answer \in Row
    BY <1>1 DEF KindOK
  <2>2. g = [page EXCEPT !.rows = rows]
    BY <1>0, <1>1 DEF Updated, PageRecord
  <2>3. rows \in RowTable /\ \A q \in Product : page.rows[q] # None => rows[q] # None
    BY <1>0, <2>1, RowConstants DEF RowTable
  <2> HIDE DEF rows
  <2>4. g.menu = page.menu /\ g.rows = rows /\ g.lists = page.lists /\ g \in PageRecord
    BY <1>0, <2>2, <2>3 DEF PageRecord
  <2> HIDE DEF g
  <2> QED BY <1>0, <2>3, <2>4 DEF PageShape, PageRecord, g
<1>2. CASE r.kind = "saveCategory"
  <2>1. CASE r.category \in ToSet(page.categories)
    <3>1. g = page
      BY <1>2, <2>1 DEF Updated, WithCategory
    <3> QED BY <3>1, PageFacts
  <2>2. CASE r.category \notin ToSet(page.categories)
    <3> DEFINE categories == Append(page.categories, r.category)
               count == [page.count EXCEPT ![r.menu] = Len(page.categories) + 1]
    <3>1. g = [page EXCEPT !.categories = categories, !.count = count]
      BY <1>0, <1>2, <2>2 DEF Updated, WithCategory, PageRecord
    <3>2. categories \in Seq(Category)
      BY <1>0, <1>2, AppendProperties DEF KindOK
    <3>3. count \in [Menu -> Nat]
      <4>1. Len(page.categories) + 1 \in Nat
        BY <1>0, LenProperties
      <4> QED BY <1>0, <4>1
    <3> HIDE DEF categories, count
    <3>4. g.menu = page.menu /\ g.rows = page.rows /\ g.lists = page.lists /\ g \in PageRecord
      BY <1>0, <3>1, <3>2, <3>3 DEF PageRecord
    <3> HIDE DEF g
    <3> QED BY <1>0, <3>4 DEF PageShape, PageRecord, g
  <2> QED BY <2>1, <2>2
<1>3. CASE r.kind = "saveProduct"
  <2> DEFINE p == r.product
             row == r.answer
  <2>1. p \in Product /\ row \in Row /\ g = WithProduct(p, row)
    BY <1>3 DEF KindOK, Updated
  <2> HIDE DEF p, row
  <2> DEFINE h == WithProduct(p, row)
  <2>2. /\ h.menu = page.menu /\ h.rows = [page.rows EXCEPT ![p] = row]
        /\ \A c \in Category : ToSet(h.lists[c]) = (ToSet(page.lists[c]) \ {p}) \cup (IF c = row.category THEN {p} ELSE {})
        /\ h \in PageRecord
    BY <2>1, WithProductShown DEF PageRecord
  <2> HIDE DEF h
  <2>3. \A c \in Category : \A q \in ToSet(h.lists[c]) : h.rows[q] # None
    <3>1. row # None
      BY <2>1, RowConstants
    <3>2. ASSUME NEW c \in Category, NEW q \in ToSet(h.lists[c]) PROVE h.rows[q] # None
      <4>1. CASE q = p
        BY <1>0, <2>1, <2>2, <3>1, <4>1 DEF RowTable
      <4>2. CASE q # p
        <5>1. q \in ToSet(page.lists[c])
          BY <2>2, <3>2, <4>2
        <5>2. q \in Product /\ page.rows[q] # None
          BY <1>0, <5>1
        <5> QED BY <1>0, <2>1, <2>2, <4>2, <5>2 DEF RowTable
      <4> QED BY <4>1, <4>2
    <3> QED BY <3>2
  <2>4. PageShape(h) /\ h.menu = page.menu
    BY <2>2, <2>3 DEF PageShape, PageRecord
  <2> QED BY <2>1, <2>4 DEF h
<1>4. CASE r.kind = "deleteCategory"
  <2> DEFINE kept == Filtered(page.categories, Category \ {r.category})
             lists == [page.lists EXCEPT ![r.category] = <<>>]
             count == [page.count EXCEPT ![r.menu] = Len(kept)]
  <2>1. g = [page EXCEPT !.categories = kept, !.count = count, !.lists = lists]
    BY <1>0, <1>4 DEF Updated, PageRecord
  <2>2. kept \in Seq(Category)
    BY <1>0, FilterKeeps
  <2> HIDE DEF kept
  <2>3. count \in [Menu -> Nat]
    <3>1. Len(kept) \in Nat
      BY <2>2, LenProperties
    <3> QED BY <1>0, <3>1
  <2>4. lists \in [Category -> Seq(Product)] /\ \A c \in Category : ToSet(lists[c]) \subseteq ToSet(page.lists[c])
    <3>1. <<>> \in Seq(Product) /\ ToSet(<<>>) = {}
      BY EmptySeq DEF ToSet
    <3>2. r.category \in Category
      BY <1>4 DEF KindOK
    <3> QED BY <1>0, <3>1, <3>2
  <2> HIDE DEF lists, count
  <2>5. g.menu = page.menu /\ g.rows = page.rows /\ g.lists = lists /\ g \in PageRecord
    BY <1>0, <2>1, <2>2, <2>3, <2>4 DEF PageRecord
  <2> HIDE DEF g
  <2> QED BY <1>0, <2>4, <2>5 DEF PageShape, PageRecord, g
<1>5. CASE r.kind = "deleteProduct"
  <2> DEFINE lists == [c \in Category |-> Filtered(page.lists[c], Product \ {r.product})]
  <2>1. g = [page EXCEPT !.lists = lists]
    BY <1>0, <1>5 DEF Updated, PageRecord
  <2>2. \A c \in Category : lists[c] \in Seq(Product) /\ ToSet(lists[c]) \subseteq ToSet(page.lists[c])
    <3>1. ASSUME NEW c \in Category PROVE lists[c] \in Seq(Product) /\ ToSet(lists[c]) \subseteq ToSet(page.lists[c])
      <4>1. page.lists[c] \in Seq(Product) /\ lists[c] = Filtered(page.lists[c], Product \ {r.product})
        BY <1>0
      <4> HIDE DEF lists
      <4> QED BY <4>1, FilterKeeps
    <3> QED BY <3>1
  <2>3. lists \in [Category -> Seq(Product)]
    BY <2>2
  <2> HIDE DEF lists
  <2>4. g.menu = page.menu /\ g.rows = page.rows /\ g.lists = lists /\ g \in PageRecord
    BY <1>0, <2>1, <2>3 DEF PageRecord
  <2> HIDE DEF g
  <2> QED BY <1>0, <2>2, <2>4 DEF PageShape, PageRecord, g
<1>6. CASE r.kind = "bulkPrice"
  <2>1. g = [page EXCEPT !.loading = TRUE]
    BY <1>6 DEF Updated
  <2>2. g.menu = page.menu /\ g.rows = page.rows /\ g.lists = page.lists /\ g \in PageRecord
    BY <1>0, <2>1 DEF PageRecord
  <2> HIDE DEF g
  <2> QED BY <1>0, <2>2 DEF PageShape, PageRecord, g
<1>7. CASE g = page
  BY <1>7, PageFacts
<1> QED BY <1>1, <1>2, <1>3, <1>4, <1>5, <1>6, <1>7 DEF Updated

LEMMA GroupedRows ==
  ASSUME NEW rows \in RowTable, NEW c \in Category
  PROVE  InOrder(rows, c) \in Seq(Product) /\ ToSet(InOrder(rows, c)) = ProductsOf(rows, c)
<1> DEFINE S == ProductsOf(rows, c)
           below == {pair \in S \X S : LET p == pair[1]
                                           q == pair[2]
                                       IN  \/ rows[p].position < rows[q].position
                                           \/ rows[p].position = rows[q].position /\ p < q}
           at == [p \in S |-> rows[p].position]
<1>1. S \in SUBSET Product /\ IsFiniteSet(S) /\ S \subseteq Nat
  BY EditorConstants, FS_Subset DEF ProductsOf
<1>2. \A p \in S : at[p] \in Nat
  BY DEF ProductsOf, RowTable, Row
<1>3. InOrder(rows, c) = SortedBy(S, below)
  BY DEF InOrder
<1>4. ASSUME NEW p \in S, NEW q \in S
      PROVE  <<p, q>> \in below <=> (at[p] < at[q] \/ (at[p] = at[q] /\ p < q))
  OBVIOUS
<1> HIDE DEF S, below, at
<1>5. \A x \in S : <<x, x>> \notin below
  BY <1>1, <1>2, <1>4
<1>6. ASSUME NEW x \in S, NEW y \in S, NEW z \in S, <<x, y>> \in below, <<y, z>> \in below
      PROVE  <<x, z>> \in below
  <2>1. (at[x] < at[y] \/ (at[x] = at[y] /\ x < y)) /\ (at[y] < at[z] \/ (at[y] = at[z] /\ y < z))
    BY <1>4, <1>6
  <2>2. at[x] \in Nat /\ at[y] \in Nat /\ at[z] \in Nat /\ x \in Nat /\ y \in Nat /\ z \in Nat
    BY <1>1, <1>2
  <2>3. at[x] < at[z] \/ (at[x] = at[z] /\ x < z)
    BY ONLY <2>1, <2>2
  <2> QED BY <1>4, <2>3
<1>7. ASSUME NEW x \in S, NEW y \in S, x # y PROVE <<x, y>> \in below \/ <<y, x>> \in below
  <2>1. at[x] \in Nat /\ at[y] \in Nat /\ x \in Nat /\ y \in Nat
    BY <1>1, <1>2
  <2>2. (at[x] < at[y] \/ (at[x] = at[y] /\ x < y)) \/ (at[y] < at[x] \/ (at[y] = at[x] /\ y < x))
    BY ONLY <2>1, x # y
  <2> QED BY <1>4, <2>2
<1>8. SortedBy(S, below) \in Seq(S) /\ ToSet(SortedBy(S, below)) = S
  BY <1>1, <1>5, <1>6, <1>7, SortedKeeps
<1>9. SortedBy(S, below) \in Seq(Product)
  BY <1>1, <1>8, SeqMonotonic
<1> QED BY <1>3, <1>8, <1>9 DEF S

LEMMA EndedTyped ==
  ASSUME RequestsOK, NEW i \in DOMAIN requests, NEW reload \in BOOLEAN, Ended(i, reload)
  PROVE  /\ RequestsOK'
         /\ \A k \in DOMAIN requests' :
              \/ \E j \in DOMAIN requests \ {i} : requests'[k] = requests[j]
              \/ reload /\ requests'[k].phase = "sent"
         /\ \A j \in DOMAIN requests \ {i} : \E k \in DOMAIN requests' : requests'[k] = requests[j]
         /\ reload => \E k \in DOMAIN requests' : requests'[k].kind = "load"
         /\ ~reload => requests' = RemoveAt(requests, i)
         /\ (\A j \in DOMAIN requests : requests[j].alone => Len(requests) = 1) =>
              \A k \in DOMAIN requests' : requests'[k].alone =>
                Len(requests') = 1 /\ requests'[k].answer = None /\ requests'[k].products = None
<1> DEFINE over == RemoveAt(requests, i)
           reading == LoadRequest(requests[i].menu, over = <<>>)
<1>0. /\ requests \in Seq(EditorRequest) /\ DOMAIN requests = 1..Len(requests) /\ Len(requests) \in Nat
      /\ requests[i].menu \in Menu
  BY RequestFacts DEF EditorRequest
<1>1. /\ over \in Seq(EditorRequest) /\ Len(over) = Len(requests) - 1
      /\ \A k \in DOMAIN over : KindOK(over[k]) /\ \E j \in DOMAIN requests \ {i} : over[k] = requests[j]
      /\ \A j \in DOMAIN requests \ {i} : \E k \in DOMAIN over : over[k] = requests[j]
  BY OverTyped
<1>2. /\ reading \in EditorRequest /\ KindOK(reading) /\ reading.kind = "load" /\ reading.phase = "sent"
      /\ reading.alone = (over = <<>>) /\ reading.answer = None /\ reading.products = None
  <2> DEFINE m == requests[i].menu
             alone == (over = <<>>)
  <2>1. m \in Menu /\ alone \in BOOLEAN
    BY <1>0
  <2> HIDE DEF m, alone
  <2>2. LET r == LoadRequest(m, alone) IN
         /\ r \in EditorRequest /\ KindOK(r) /\ r.kind = "load" /\ r.menu = m /\ r.alone = alone /\ r.phase = "sent"
         /\ r.answer = None /\ r.products = None
    BY <2>1, LoadTyped
  <2> QED BY <2>2 DEF m, alone
<1>3. requests' = IF reload THEN Append(over, reading) ELSE over
  BY DEF Ended
<1> HIDE DEF over, reading
<1>4. ASSUME \A j \in DOMAIN requests : requests[j].alone => Len(requests) = 1
      PROVE  \A k \in DOMAIN over : ~over[k].alone
  <2>1. ASSUME NEW k \in DOMAIN over, over[k].alone PROVE FALSE
    <3>1. PICK j \in DOMAIN requests \ {i} : over[k] = requests[j]
      BY <1>1
    <3>2. Len(requests) = 1
      BY <1>4, <2>1, <3>1
    <3> QED BY <1>0, <3>1, <3>2
  <2> QED BY <2>1
<1>5. CASE ~reload
  <2>1. requests' = over
    BY <1>3, <1>5
  <2>2. RequestsOK'
    BY <1>1, <2>1 DEF RequestsOK
  <2> QED BY <1>1, <1>4, <1>5, <2>1, <2>2 DEF over
<1>6. CASE reload
  <2> DEFINE q == Append(over, reading)
  <2>1. /\ q \in Seq(EditorRequest) /\ Len(q) = Len(over) + 1
        /\ DOMAIN q = DOMAIN over \cup {Len(over) + 1}
        /\ q[Len(over) + 1] = reading /\ \A k \in DOMAIN over : q[k] = over[k]
    BY <1>1, <1>2, Appended
  <2>2. requests' = q
    BY <1>3, <1>6
  <2> HIDE DEF q
  <2>3. RequestsOK'
    BY <1>1, <1>2, <2>1, <2>2 DEF RequestsOK
  <2>4. over = <<>> => Len(over) = 0
    OBVIOUS
  <2>5. (\A j \in DOMAIN requests : requests[j].alone => Len(requests) = 1) =>
              \A k \in DOMAIN requests' : requests'[k].alone =>
                Len(requests') = 1 /\ requests'[k].answer = None /\ requests'[k].products = None
    <3> SUFFICES ASSUME \A j \in DOMAIN requests : requests[j].alone => Len(requests) = 1,
                        NEW k \in DOMAIN requests', requests'[k].alone
                 PROVE  Len(requests') = 1 /\ requests'[k].answer = None /\ requests'[k].products = None
      OBVIOUS
    <3>1. k \notin DOMAIN over
      BY <1>4, <2>1, <2>2
    <3>2. requests'[k] = reading
      BY <2>1, <2>2, <3>1
    <3>3. Len(over) = 0
      BY <1>2, <2>4, <3>2
    <3> QED BY <1>2, <2>1, <2>2, <3>2, <3>3
  <2>6. \A k \in DOMAIN requests' :
              \/ \E j \in DOMAIN requests \ {i} : requests'[k] = requests[j]
              \/ reload /\ requests'[k].phase = "sent"
    BY <1>1, <1>2, <1>6, <2>1, <2>2
  <2>7. \A j \in DOMAIN requests \ {i} : \E k \in DOMAIN requests' : requests'[k] = requests[j]
    BY <1>1, <2>1, <2>2
  <2>8. \E k \in DOMAIN requests' : requests'[k].kind = "load"
    BY <1>2, <2>1, <2>2
  <2> QED BY <1>6, <2>3, <2>5, <2>6, <2>7, <2>8
<1> QED BY <1>5, <1>6

(* A page that only starts or stops loading.                                 *)
LEMMA LoadingShape ==
  ASSUME NEW g, PageShape(g), NEW b \in BOOLEAN
  PROVE  LET h == [g EXCEPT !.loading = b] IN
         /\ PageShape(h) /\ h.menu = g.menu /\ h.categories = g.categories /\ h.rows = g.rows
         /\ h.lists = g.lists /\ h.count = g.count
<1> DEFINE h == [g EXCEPT !.loading = b]
<1>1. g \in PageRecord
  BY DEF PageShape, PageRecord
<1>2. /\ h \in PageRecord /\ h.menu = g.menu /\ h.categories = g.categories /\ h.rows = g.rows
      /\ h.lists = g.lists /\ h.count = g.count
  BY <1>1 DEF PageRecord
<1> HIDE DEF h
<1>3. PageShape(h)
  BY <1>2 DEF PageShape, PageRecord
<1> QED BY <1>2, <1>3 DEF h

LEMMA LandedLoading ==
  ASSUME NEW r, NEW g, NEW h, Landed(r, g), h.menu = g.menu, h.categories = g.categories, h.rows = g.rows,
         h.lists = g.lists, h.count = g.count
  PROVE  Landed(r, h)
<1>1. OnlyTaken(r, stored, page, stored, h)
  BY DEF Landed, OnlyTaken
<1>2. OrderAgrees(stored, g) => OrderAgrees(stored, h)
  BY DEF OrderAgrees
<1>3. \A p \in Product : ProductAgrees(p, stored, g) => ProductAgrees(p, stored, h)
  BY DEF ProductAgrees, Placed
<1>4. Agreed(r, stored, h)
  BY <1>2, <1>3 DEF Landed, Agreed
<1> QED BY <1>1, <1>4 DEF Landed

(* A load: what it brings is what is stored if nothing happened meanwhile.   *)
LEMMA ListsLandMoves ==
  ASSUME StoreOK, PageOK, RequestsOK, AloneOK, NEW i \in DOMAIN requests, ListsLand(i)
  PROVE  PageShape(page') /\ page'.menu = page.menu /\ (Claimed' => ClaimsHold(requests', stored', page'))
<1> DEFINE r == requests[i]
<1>0. r \in EditorRequest /\ KindOK(r) /\ r.menu \in Menu /\ page \in PageRecord /\ r.kind = "load" /\ stored' = stored
  BY RequestFacts DEF EditorRequest, ListsLand, PageOK, PageRecord
<1>1. CASE r.phase = "failed" /\ page' = [page EXCEPT !.loading = FALSE] /\ inSync' = FALSE
  <2>1. PageShape(page)
    BY PageFacts
  <2> QED BY <1>1, <2>1, LoadingShape DEF Claimed
<1>2. CASE /\ r.phase = "sent" /\ r.answer # None /\ r.products # None
           /\ page' = [page EXCEPT !.loading = FALSE, !.categories = r.answer, !.count[r.menu] = Len(r.answer),
                                   !.rows = r.products, !.lists = groupProducts(r.products)]
           /\ inSync' = (r.alone /\ page.menu = r.menu)
  <2> DEFINE list == r.answer
             rows == r.products
             lists == groupProducts(rows)
             count == [page.count EXCEPT ![r.menu] = Len(list)]
  <2>1. list \in Seq(Category) /\ rows \in RowTable
    BY <1>0, <1>2 DEF KindOK
  <2>2. \A c \in Category : lists[c] \in Seq(Product) /\ ToSet(lists[c]) = ProductsOf(rows, c)
    <3>1. \A c \in Category : lists[c] = InOrder(rows, c)
      BY DEF groupProducts
    <3> HIDE DEF rows, lists
    <3> QED BY <2>1, <3>1, GroupedRows
  <2>3. lists \in [Category -> Seq(Product)]
    BY <2>2 DEF groupProducts
  <2>4. count \in [Menu -> Nat] /\ count[r.menu] = Len(list)
    <3>1. Len(list) \in Nat
      BY <2>1, LenProperties
    <3> QED BY <1>0, <3>1 DEF PageRecord
  <2>5. page' = [page EXCEPT !.loading = FALSE, !.categories = list, !.count = count, !.rows = rows, !.lists = lists]
    BY <1>0, <1>2 DEF PageRecord
  <2>5a. inSync' = (r.alone /\ page.menu = r.menu) /\ list # None /\ rows # None
    BY <1>2
  <2>6. r.alone => /\ Len(requests) = 1 /\ list = CategoriesOf(stored, r.menu) /\ rows = stored.rows
    BY <1>2 DEF AloneOK
  <2>7. requests \in Seq(EditorRequest) /\ requests' = RemoveAt(requests, i)
    BY RequestFacts DEF ListsLand, Ended
  <2> HIDE DEF list, rows, lists, count, r
  <2>8. /\ page' \in PageRecord /\ page'.menu = page.menu /\ page'.categories = list /\ page'.rows = rows
        /\ page'.lists = lists /\ page'.count = count
    BY <1>0, <2>1, <2>3, <2>4, <2>5 DEF PageRecord
  <2>9. PageShape(page')
    <3>1. \A c \in Category : \A p \in ToSet(lists[c]) : rows[p] # None
      BY <2>2 DEF ProductsOf
    <3> QED BY <2>8, <3>1 DEF PageShape, PageRecord
  <2>10. ASSUME Claimed' PROVE ClaimsHold(requests', stored', page')
    <3>1. r.alone /\ page.menu = r.menu
      BY <2>5a, <2>10 DEF Claimed
    <3>2. DOMAIN requests' = {}
      <4>1. requests' \in Seq(EditorRequest) /\ Len(requests') = Len(requests) - 1
        BY ONLY <2>7, i \in DOMAIN requests, Removed
      <4>2. Len(requests') = 0
        BY <2>6, <3>1, <4>1
      <4>3. DOMAIN requests' = 1..Len(requests')
        BY ONLY <4>1, LenProperties
      <4> QED BY <4>2, <4>3
    <3>3. OrderAgrees(stored', page')
      BY <1>0, <2>6, <2>8, <3>1 DEF OrderAgrees
    <3>4. \A p \in Product : ProductAgrees(p, stored', page')
      BY <1>0, <2>2, <2>6, <2>8, <3>1 DEF ProductAgrees, Placed, InCategory, ProductsOf, SameRow
    <3> QED BY <2>4, <2>8, <3>1, <3>2, <3>3, <3>4 DEF ClaimsHold
  <2> QED BY <2>8, <2>9, <2>10
<1> QED BY <1>1, <1>2 DEF ListsLand

(* A claim is there after the end of a request that is not a load only if it *)
(* was there before.                                                        *)
LEMMA ClaimedBefore ==
  ASSUME RequestsOK, NEW i \in DOMAIN requests, requests[i].kind # "load", NEW reload \in BOOLEAN, Ended(i, reload),
         inSync' = inSync, page'.menu = page.menu, Claimed'
  PROVE  Claimed /\ ~reload
<1>1. /\ \A j \in DOMAIN requests \ {i} : \E k \in DOMAIN requests' : requests'[k] = requests[j]
      /\ reload => \E k \in DOMAIN requests' : requests'[k].kind = "load"
  BY EndedTyped
<1>2. ~ \E k \in DOMAIN requests' : requests'[k].kind = "load"
  BY DEF Claimed, Loading
<1>3. ~Loading
  BY <1>1, <1>2 DEF Loading
<1> QED BY <1>1, <1>2, <1>3 DEF Claimed

LEMMA FailureLandsMoves ==
  ASSUME StoreOK, PageOK, RequestsOK, NEW i \in DOMAIN requests, FailureLands(i),
         Claimed => ClaimsHold(requests, stored, page)
  PROVE  PageShape(page') /\ page'.menu = page.menu /\ (Claimed' => ClaimsHold(requests', stored', page'))
<1> DEFINE r == requests[i]
           g == RolledBack(r)
           stale == isStaleListError(r)
<1>0. /\ r \in EditorRequest /\ KindOK(r) /\ r.kind # "load" /\ r.phase # "done" /\ stored' = stored
      /\ inSync' = inSync /\ stale \in BOOLEAN /\ Ended(i, stale)
      /\ page' = [g EXCEPT !.loading = @ \/ stale]
  BY RequestFacts DEF FailureLands, isStaleListError
<1>1. PageShape(g) /\ g.menu = page.menu
  BY <1>0, RolledBackTyped
<1>2. Claims(r, stored, page) /\ page.count[page.menu] = Len(page.categories) => Landed(r, g)
  BY <1>0, FailureAgrees
<1> HIDE DEF g, stale
<1>3. /\ PageShape(page') /\ page'.menu = g.menu /\ page'.categories = g.categories /\ page'.rows = g.rows
      /\ page'.lists = g.lists /\ page'.count = g.count
  <2> DEFINE b == g.loading \/ stale
  <2>1. b \in BOOLEAN /\ page' = [g EXCEPT !.loading = b]
    BY <1>0, <1>1 DEF PageShape
  <2> HIDE DEF b
  <2> QED BY <1>1, <2>1, LoadingShape
<1>4. ASSUME Claimed' PROVE ClaimsHold(requests', stored', page')
  <2>1. Claimed /\ ~stale
    BY <1>0, <1>1, <1>3, <1>4, ClaimedBefore
  <2>2. ClaimsHold(requests, stored, page)
    BY <2>1
  <2>3. Claims(r, stored, page) /\ page.count[page.menu] = Len(page.categories)
    BY <2>2 DEF ClaimsHold
  <2>4. Landed(r, page')
    BY <1>2, <1>3, <2>3, LandedLoading
  <2>5. requests' = RemoveAt(requests, i)
    BY <1>0, <2>1 DEF Ended
  <2> QED BY <1>0, <2>2, <2>4, <2>5, OverHolds DEF Landed
<1> QED BY <1>1, <1>3, <1>4

LEMMA SuccessLandsMoves ==
  ASSUME StoreOK, PageOK, RequestsOK, NEW i \in DOMAIN requests, SuccessLands(i),
         Claimed => ClaimsHold(requests, stored, page)
  PROVE  PageShape(page') /\ page'.menu = page.menu /\ (Claimed' => ClaimsHold(requests', stored', page'))
<1> DEFINE r == requests[i]
           reload == (r.kind = "bulkPrice")
<1>0. /\ r \in EditorRequest /\ KindOK(r) /\ r.kind # "load" /\ r.phase = "done" /\ stored' = stored
      /\ inSync' = inSync /\ Ended(i, reload) /\ page' = Updated(r)
  BY RequestFacts DEF SuccessLands
<1>1. PageShape(page') /\ page'.menu = page.menu
  BY <1>0, UpdatedTyped
<1>2. ASSUME Claimed' PROVE ClaimsHold(requests', stored', page')
  <2>1. Claimed /\ ~reload
    <3>1. reload \in BOOLEAN /\ requests[i].kind # "load"
      BY <1>0
    <3> HIDE DEF reload
    <3> QED BY <1>0, <1>1, <1>2, <3>1, ClaimedBefore
  <2>2. ClaimsHold(requests, stored, page) /\ page.menu # None
    BY <2>1 DEF Claimed
  <2>3. Claims(r, stored, page) /\ page.count[page.menu] = Len(page.categories)
    BY <2>2 DEF ClaimsHold
  <2>4. Landed(r, page')
    BY <1>0, <2>1, <2>2, <2>3, SuccessAgrees
  <2>5. requests' = RemoveAt(requests, i)
    BY <1>0, <2>1 DEF Ended
  <2> QED BY <1>0, <2>2, <2>4, <2>5, OverHolds DEF Landed
<1> QED BY <1>1, <1>2

-----------------------------------------------------------------------------
(* The phone.                                                               *)

LEMMA PreviewMenuTyped ==
  ASSUME StoreOK, NEW m
  PROVE  PreviewMenu(stored, m) \in PreviewContent
<1> DEFINE categories == CategoriesOf(stored, m)
           rows == [p \in Product |->
             IF stored.rows[p] # None /\ stored.menuOf[stored.rows[p].category] = m THEN stored.rows[p] ELSE None]
<1>1. stored.order \in Seq(Category) /\ stored.rows \in RowTable
  BY DEF StoreOK, StoreShape
<1>2. categories \in Seq(Category)
  BY <1>1, FilterKeeps DEF CategoriesOf
<1>3. rows \in RowTable
  BY <1>1 DEF RowTable
<1>4. PreviewMenu(stored, m) = [categories |-> categories, rows |-> rows]
  BY DEF PreviewMenu
<1> HIDE DEF categories, rows
<1> QED BY <1>2, <1>3, <1>4 DEF PreviewContent

LEMMA EmptyTyped == Phone!Empty \in PreviewRecord /\ \A s, m : PhoneKept(Phone!Empty, s, m)
<1> DEFINE v == Phone!Empty
<1>1. v = [waiting |-> "no", answer |-> None, payload |-> [menu |-> None, content |-> None], failure |-> None, stale |-> FALSE]
  BY DEF Phone!Empty, Phone!NoPayload
<1>2. v \in PreviewRecord
  BY <1>1 DEF PreviewRecord
<1>3. v.waiting = "no" /\ v.payload.menu = None
  BY <1>1
<1> HIDE DEF v
<1>4. \A s, m : PhoneKept(v, s, m)
  BY <1>3 DEF PhoneKept, Phone!HasPayload
<1> QED BY <1>2, <1>4 DEF v

LEMMA RefetchTyped ==
  ASSUME NEW v \in PreviewRecord, NEW m \in Menu \cup {None}
  PROVE  Phone!Refetch(v, m) \in PreviewRecord /\ \A s : PhoneKept(Phone!Refetch(v, m), s, m)
<1>1. CASE m = None
  BY <1>1, EmptyTyped DEF Phone!Refetch
<1>2. CASE m # None
  <2> DEFINE w == [v EXCEPT !.waiting = "sent", !.answer = None, !.failure = None]
  <2>1. Phone!Refetch(v, m) = w
    BY <1>2 DEF Phone!Refetch
  <2>2. w \in PreviewRecord /\ w.waiting = "sent"
    BY DEF PreviewRecord
  <2> HIDE DEF w
  <2>3. \A s : PhoneKept(w, s, m)
    BY <2>2 DEF PhoneKept
  <2> QED BY <2>1, <2>2, <2>3
<1> QED BY <1>1, <1>2

LEMMA AnsweredTyped ==
  ASSUME NEW v \in PreviewRecord, NEW s, NEW m, NEW content \in PreviewContent, content = PreviewMenu(s, m)
  PROVE  /\ Phone!Answered(v, content) \in PreviewRecord /\ PhoneKept(Phone!Answered(v, content), s, m)
         /\ Phone!Failed(v) \in PreviewRecord /\ PhoneKept(Phone!Failed(v), s, m)
<1> DEFINE w == [v EXCEPT !.waiting = "answered", !.answer = content, !.stale = FALSE]
           x == [v EXCEPT !.waiting = "failed"]
<1>1. w \in PreviewRecord /\ w.waiting = "answered" /\ w.answer = content
  BY DEF PreviewRecord
<1>2. x \in PreviewRecord /\ x.waiting = "failed"
  BY DEF PreviewRecord
<1>3. w = Phone!Answered(v, content) /\ x = Phone!Failed(v)
  BY DEF Phone!Answered, Phone!Failed
<1> HIDE DEF w, x
<1>4. PhoneKept(w, s, m) /\ PhoneKept(x, s, m)
  BY <1>1, <1>2 DEF PhoneKept
<1> QED BY <1>1, <1>2, <1>3, <1>4

LEMMA LandedTyped ==
  ASSUME NEW v \in PreviewRecord, NEW m \in Menu \cup {None}, v.waiting \in {"answered", "failed"}, NEW s
  PROVE  /\ Phone!Landed(v, m) \in PreviewRecord /\ Phone!Landed(v, m).stale = v.stale
         /\ PhoneKept(v, s, m) => PhoneKept(Phone!Landed(v, m), s, m)
<1>1. CASE v.waiting = "answered"
  <2> DEFINE payload == [menu |-> m, content |-> v.answer]
             w == [v EXCEPT !.waiting = "no", !.answer = None, !.payload = payload]
  <2>1. Phone!Landed(v, m) = w
    BY <1>1 DEF Phone!Landed
  <2>2. payload \in [menu: Menu \cup {None}, content: {None} \cup PreviewContent] /\ payload.content = v.answer
    BY DEF PreviewRecord
  <2> HIDE DEF payload
  <2>3. w \in PreviewRecord /\ w.waiting = "no" /\ w.stale = v.stale /\ w.payload = payload
    BY <2>2 DEF PreviewRecord
  <2> HIDE DEF w
  <2>4. PhoneKept(v, s, m) => PhoneKept(w, s, m)
    BY <1>1, <2>2, <2>3 DEF PhoneKept
  <2> QED BY <2>1, <2>3, <2>4
<1>2. CASE v.waiting = "failed"
  <2> DEFINE w == [v EXCEPT !.waiting = "no", !.failure = m]
  <2>1. Phone!Landed(v, m) = w
    BY <1>2 DEF Phone!Landed
  <2>2. w \in PreviewRecord /\ w.waiting = "no" /\ w.stale = v.stale /\ w.failure = m
    BY DEF PreviewRecord
  <2> HIDE DEF w
  <2>3. PhoneKept(w, s, m)
    BY <2>2 DEF PhoneKept, Phone!ShowsOldNote
  <2> QED BY <2>1, <2>2, <2>3
<1> QED BY <1>1, <1>2

-----------------------------------------------------------------------------
(* Every kind of step keeps the invariant.                                   *)

OnlyAlone == \A i \in DOMAIN requests : requests[i].alone => Len(requests) = 1

LEMMA AloneFacts ==
  ASSUME EditorInv
  PROVE  /\ StoreOK /\ PageOK /\ RequestsOK /\ RestOK /\ AloneOK /\ PreviewOK /\ PreviewKept /\ OnlyAlone
         /\ Claimed => ClaimsHold(requests, stored, page)
         /\ page.menu \in Menu \cup {None}
  BY DEF EditorInv, AloneOK, OnlyAlone, PageOK

(* The owner asks for something.                                            *)
LEMMA HandledStep ==
  ASSUME EditorInv, NEW r, Handled(r), preview' = preview, RestOK'
  PROVE  EditorInv'
<1>1. /\ RequestsOK' /\ DOMAIN requests' = DOMAIN requests \cup {Len(requests) + 1}
      /\ requests'[Len(requests) + 1] = r
      /\ \A i \in DOMAIN requests : requests'[i] = [requests[i] EXCEPT !.alone = FALSE] /\ ~requests'[i].alone
  <2>1. requests' = Append(Disturbed, r) /\ r \in EditorRequest /\ KindOK(r)
    BY DEF Handled, Send
  <2> QED BY <2>1, AloneFacts, SendTyped
<1>2. AloneOK'
  <2>1. ~r.alone
    BY DEF Handled, KindOK
  <2> QED BY <1>1, <2>1 DEF AloneOK
<1>3. PreviewKept'
  <2>1. ASSUME Unannounced' PROVE Unannounced
    <3>1. \A i \in DOMAIN requests : requests'[i].phase = requests[i].phase
      <4>1. \A i \in DOMAIN requests : requests[i] \in EditorRequest
        BY AloneFacts, RequestFacts
      <4> QED BY <1>1, <4>1 DEF EditorRequest
    <3> QED BY <1>1, <2>1, <3>1 DEF Unannounced
  <2>2. stored' = stored /\ page'.menu = page.menu
    BY DEF Handled
  <2> QED BY <2>1, <2>2, AloneFacts DEF PreviewKept, PhoneKept, PreviewMenu, CategoriesOf
<1>4. PageOK' /\ StoreOK'
  BY AloneFacts DEF Handled, PageShape, PageOK, StoreOK, StoreShape
<1>5. PreviewOK'
  BY AloneFacts DEF PreviewOK
<1>6. Claimed' => ClaimsHold(requests', stored', page')
  BY AloneFacts, SendHolds DEF Handled
<1> QED BY <1>1, <1>2, <1>3, <1>4, <1>5, <1>6 DEF EditorInv

(* The server answers.                                                      *)
LEMMA MovedKeepsAlone ==
  ASSUME NEW i \in DOMAIN requests, AloneOK, Moved(i), RequestsOK,
         stored' = stored \/ requests[i].kind # "load",
         requests[i].alone => /\ requests'[i].answer \in {None, requests[i].answer, CategoriesOf(stored, requests[i].menu)}
                              /\ requests'[i].products \in {None, requests[i].products, stored.rows}
  PROVE  AloneOK'
<1> SUFFICES ASSUME NEW j \in DOMAIN requests', requests'[j].alone
             PROVE  /\ Len(requests') = 1
                    /\ requests'[j].answer = None \/ requests'[j].answer = CategoriesOf(stored', requests'[j].menu)
                    /\ requests'[j].products = None \/ requests'[j].products = stored'.rows
  BY DEF AloneOK, CategoriesOf
<1>1. j \in DOMAIN requests /\ requests[j].alone /\ Len(requests') = Len(requests)
  BY DEF Moved
<1>2. /\ Len(requests) = 1
      /\ requests[j].answer = None \/ requests[j].answer = CategoriesOf(stored, requests[j].menu)
      /\ requests[j].products = None \/ requests[j].products = stored.rows
  BY <1>1 DEF AloneOK
<1>3. j = i
  BY <1>1, <1>2, RequestFacts
<1>4. requests[i].kind = "load"
  BY <1>1, <1>3, RequestFacts DEF KindOK
<1> QED BY <1>1, <1>2, <1>3, <1>4 DEF Moved, CategoriesOf

LEMMA ExecuteStep ==
  ASSUME EditorInv, NEW i \in DOMAIN requests, Execute(i)
  PROVE  EditorInv'
<1>1. /\ Moved(i) /\ StoreOK' /\ (Claimed' => ClaimsHold(requests', stored', page'))
      /\ requests'[i].phase = "done" \/ preview' = [preview EXCEPT !.stale = TRUE]
  BY AloneFacts, ExecuteMoves
<1>2. requests[i].kind # "load"
  BY DEF Execute
<1>3. AloneOK'
  <2>1. ~requests[i].alone
    BY <1>2, AloneFacts, RequestFacts DEF KindOK
  <2> QED BY <1>1, <1>2, <2>1, AloneFacts, MovedKeepsAlone
<1>4. PreviewOK'
  <2>1. preview' = preview \/ preview' = [preview EXCEPT !.stale = TRUE]
    BY DEF Execute
  <2> QED BY <2>1, AloneFacts DEF PreviewOK, PreviewRecord
<1>5. ~Unannounced'
  <2>1. i \in DOMAIN requests'
    BY <1>1 DEF Moved
  <2> QED BY <1>1, <2>1, AloneFacts DEF Unannounced, PreviewOK, PreviewRecord
<1>6. PageOK' /\ RestOK'
  BY AloneFacts DEF Execute, PageOK, RestOK
<1> QED BY <1>1, <1>3, <1>4, <1>5, <1>6 DEF EditorInv, PreviewKept, Moved

LEMMA QuietAnswerStep ==
  ASSUME EditorInv, NEW i \in DOMAIN requests, RefuseRequest(i) \/ ReadCategories(i) \/ ReadProducts(i)
  PROVE  EditorInv'
<1>1. /\ Moved(i) /\ (Claimed' => ClaimsHold(requests', stored', page')) /\ requests[i].phase # "done"
      /\ requests'[i].answer \in {None, requests[i].answer, CategoriesOf(stored, requests[i].menu)}
      /\ requests'[i].products \in {None, requests[i].products, stored.rows}
  <2>1. CASE RefuseRequest(i)
    <3>1. /\ Moved(i) /\ (Claimed' => ClaimsHold(requests', stored', page'))
          /\ requests[i].phase = "sent" /\ requests'[i].phase # "done" /\ requests'[i].answer = None
          /\ requests'[i].products = requests[i].products
      BY <2>1, AloneFacts, RefuseMoves
    <3> QED BY <3>1
  <2>2. CASE ReadCategories(i) \/ ReadProducts(i)
    <3>1. /\ Moved(i) /\ ~Claimed'
          /\ \/ requests'[i].answer = CategoriesOf(stored, requests[i].menu) /\ requests'[i].products = requests[i].products
             \/ requests'[i].answer = requests[i].answer /\ requests'[i].products = stored.rows
      BY <2>2, AloneFacts, ReadMoves
    <3>2. requests[i].phase = "sent"
      BY <2>2 DEF ReadCategories, ReadProducts
    <3> QED BY <3>1, <3>2
  <2> QED BY <2>1, <2>2
<1>2. /\ stored' = stored /\ page' = page /\ preview' = preview /\ dialog' = dialog /\ deleting' = deleting
      /\ inSync' = inSync
  BY DEF RefuseRequest, ReadCategories, ReadProducts
<1>3. AloneOK'
  BY <1>1, <1>2, AloneFacts, MovedKeepsAlone
<1>4. PreviewKept'
  <2>1. Unannounced' => Unannounced
    BY <1>1, <1>2 DEF Unannounced, Moved
  <2> QED BY <1>2, <2>1, AloneFacts DEF PreviewKept, PhoneKept, PreviewMenu, CategoriesOf
<1>5. StoreOK' /\ PageOK' /\ RestOK' /\ PreviewOK'
  BY <1>2, AloneFacts DEF StoreOK, StoreShape, PageOK, RestOK, PreviewOK
<1> QED BY <1>1, <1>3, <1>4, <1>5 DEF EditorInv, Moved

(* An answer lands.                                                         *)
LEMMA LandingStep ==
  ASSUME EditorInv, NEW i \in DOMAIN requests, NEW reload \in BOOLEAN, Ended(i, reload), stored' = stored,
         PageShape(page'), page'.menu = page.menu, RestOK', Claimed' => ClaimsHold(requests', stored', page'),
         \/ preview' = preview /\ requests[i].phase # "done"
         \/ preview' = Phone!Refetch(preview, page.menu)
  PROVE  EditorInv'
<1>1. /\ RequestsOK'
      /\ \A j \in DOMAIN requests \ {i} : \E k \in DOMAIN requests' : requests'[k] = requests[j]
      /\ OnlyAlone => \A k \in DOMAIN requests' : requests'[k].alone =>
           Len(requests') = 1 /\ requests'[k].answer = None /\ requests'[k].products = None
  BY AloneFacts, EndedTyped DEF OnlyAlone
<1>2. AloneOK'
  BY <1>1, AloneFacts DEF AloneOK
<1>3. PreviewOK' /\ PreviewKept'
  <2>1. CASE preview' = preview /\ requests[i].phase # "done"
    <3>1. Unannounced' => Unannounced
      BY <1>1, <2>1 DEF Unannounced
    <3> QED BY <2>1, <3>1, AloneFacts DEF PreviewOK, PreviewKept, PhoneKept, PreviewMenu, CategoriesOf
  <2>2. CASE preview' = Phone!Refetch(preview, page.menu)
    <3> DEFINE v == Phone!Refetch(preview, page.menu)
    <3>1. v \in PreviewRecord /\ PhoneKept(v, stored, page.menu)
      BY AloneFacts, RefetchTyped DEF PreviewOK
    <3>2. preview' = v
      BY <2>2
    <3> HIDE DEF v
    <3> QED BY <3>1, <3>2 DEF PreviewOK, PreviewKept, PhoneKept, PreviewMenu, CategoriesOf
  <2> QED BY <2>1, <2>2
<1>4. PageOK' /\ StoreOK'
  BY AloneFacts DEF PageShape, PageOK, StoreOK, StoreShape
<1> QED BY <1>1, <1>2, <1>3, <1>4 DEF EditorInv

LEMMA LandingKeeps ==
  ASSUME EditorInv, Landing
  PROVE  EditorInv'
<1>1. PICK i \in DOMAIN requests : ListsLand(i) \/ FailureLands(i) \/ SuccessLands(i)
  BY DEF Landing, UnderWay
<1>2. requests[i] \in EditorRequest /\ RestOK
  BY AloneFacts, RequestFacts
<1>3. CASE ListsLand(i)
  <2>1. PageShape(page') /\ page'.menu = page.menu /\ (Claimed' => ClaimsHold(requests', stored', page'))
    BY <1>3, AloneFacts, ListsLandMoves
  <2>2. Ended(i, FALSE) /\ stored' = stored /\ preview' = preview /\ requests[i].phase # "done" /\ dialog' = dialog
        /\ deleting' = deleting
    BY <1>3 DEF ListsLand
  <2>3. RestOK'
    <3>1. inSync' \in BOOLEAN
      BY <1>2, <1>3 DEF ListsLand, EditorRequest
    <3> QED BY <1>2, <2>2, <3>1 DEF RestOK
  <2> QED BY <2>1, <2>2, <2>3, LandingStep
<1>4. CASE FailureLands(i)
  <2> DEFINE reload == isStaleListError(requests[i])
  <2>1. PageShape(page') /\ page'.menu = page.menu /\ (Claimed' => ClaimsHold(requests', stored', page'))
    BY <1>4, AloneFacts, FailureLandsMoves
  <2>2. /\ Ended(i, reload) /\ stored' = stored /\ requests[i].phase # "done"
        /\ preview' = preview \/ preview' = Phone!Refetch(preview, page.menu)
        /\ reload \in BOOLEAN
    BY <1>4 DEF FailureLands, refreshPreview, isStaleListError
  <2>3. RestOK'
    BY <1>2, <1>4 DEF FailureLands, RestOK
  <2> HIDE DEF reload
  <2> QED BY <2>1, <2>2, <2>3, LandingStep
<1>5. CASE SuccessLands(i)
  <2> DEFINE reload == (requests[i].kind = "bulkPrice")
  <2>1. PageShape(page') /\ page'.menu = page.menu /\ (Claimed' => ClaimsHold(requests', stored', page'))
    BY <1>5, AloneFacts, SuccessLandsMoves
  <2>2. /\ Ended(i, reload) /\ stored' = stored /\ preview' = Phone!Refetch(preview, page.menu)
        /\ reload \in BOOLEAN
    BY <1>5 DEF SuccessLands, refreshPreview
  <2>3. RestOK'
    BY <1>2, <1>5 DEF SuccessLands, RestOK
  <2> HIDE DEF reload
  <2> QED BY <2>1, <2>2, <2>3, LandingStep
<1> QED BY <1>1, <1>3, <1>4, <1>5

(* Another menu is chosen: a load is on its way, and if it is the only       *)
(* request, nobody disturbs it.                                             *)
LEMMA SwitchStep ==
  ASSUME EditorInv, NEW m \in Menu, SwitchMenu(m)
  PROVE  EditorInv'
<1> DEFINE r == LoadRequest(m, Quiet)
<1>1. /\ r \in EditorRequest /\ KindOK(r) /\ r.kind = "load" /\ r.alone = Quiet
      /\ r.answer = None /\ r.products = None
  <2> DEFINE alone == Quiet
  <2>1. alone \in BOOLEAN
    BY DEF Quiet
  <2> HIDE DEF alone
  <2>2. LET x == LoadRequest(m, alone) IN
         /\ x \in EditorRequest /\ KindOK(x) /\ x.kind = "load" /\ x.menu = m /\ x.alone = alone /\ x.phase = "sent"
         /\ x.answer = None /\ x.products = None
    BY <2>1, LoadTyped
  <2> QED BY <2>2 DEF alone
<1>2. /\ requests' = Append(Disturbed, r) /\ stored' = stored /\ dialog' = dialog /\ deleting' = deleting
      /\ page' = [page EXCEPT !.menu = m, !.loading = TRUE] /\ preview' = Phone!Refetch(preview, m)
      /\ inSync' = (inSync /\ (r.kind = "load" \/ ~Overlaps(r)))
  BY DEF SwitchMenu, Send
<1> HIDE DEF r
<1>3. /\ RequestsOK' /\ DOMAIN requests' = DOMAIN requests \cup {Len(requests) + 1}
      /\ requests'[Len(requests) + 1] = r /\ Len(requests') = Len(requests) + 1
      /\ \A i \in DOMAIN requests : ~requests'[i].alone
  BY <1>1, <1>2, AloneFacts, SendTyped
<1>4. ~Claimed'
  BY <1>1, <1>3 DEF Claimed, Loading
<1>5. AloneOK'
  <2>1. Quiet => Len(requests) = 0
    BY AloneFacts, RequestFacts DEF Quiet, UnderWay
  <2> QED BY <1>1, <1>3, <2>1 DEF AloneOK
<1>6. PageOK'
  <2>1. page \in PageRecord /\ \A c \in Category : \A p \in ToSet(page.lists[c]) : page.rows[p] # None
    BY AloneFacts DEF PageOK, PageRecord
  <2>2. page' \in PageRecord /\ page'.lists = page.lists /\ page'.rows = page.rows /\ page'.menu = m
    BY <1>2, <2>1 DEF PageRecord
  <2> QED BY <2>1, <2>2 DEF PageOK, PageRecord
<1>7. PreviewOK' /\ PreviewKept'
  <2> DEFINE v == Phone!Refetch(preview, m)
  <2>1. v \in PreviewRecord /\ PhoneKept(v, stored', m)
    BY AloneFacts, RefetchTyped DEF PreviewOK
  <2>2. preview' = v /\ page'.menu = m
    BY <1>2, AloneFacts DEF PageOK
  <2> HIDE DEF v
  <2> QED BY <2>1, <2>2 DEF PreviewOK, PreviewKept, PhoneKept, PreviewMenu, CategoriesOf
<1>8. StoreOK' /\ RestOK'
  BY <1>2, AloneFacts DEF StoreOK, StoreShape, RestOK
<1> QED BY <1>3, <1>4, <1>5, <1>6, <1>7, <1>8 DEF EditorInv

(* The last menu is gone.                                                   *)
LEMMA LoseStep ==
  ASSUME EditorInv, LoseMenus
  PROVE  EditorInv'
<1> DEFINE lists == [c \in Category |-> <<>>]
<1>1. /\ UNCHANGED <<stored, requests, sent, dialog, deleting, inSync>> /\ preview' = Phone!Refetch(preview, None)
      /\ page' = [page EXCEPT !.menu = None, !.loading = FALSE, !.categories = <<>>, !.lists = lists]
  BY DEF LoseMenus
<1>2. lists \in [Category -> Seq(Product)] /\ \A c \in Category : ToSet(lists[c]) = {}
  BY EmptySeq DEF ToSet
<1> HIDE DEF lists
<1>3. page' \in PageRecord /\ page'.menu = None /\ page'.lists = lists
  <2>1. page \in PageRecord /\ <<>> \in Seq(Category)
    BY AloneFacts, EmptySeq DEF PageOK, PageRecord
  <2> QED BY <1>1, <1>2, <2>1 DEF PageRecord
<1>4. PageOK' /\ ~Claimed'
  BY <1>2, <1>3 DEF PageOK, PageRecord, Claimed
<1>5. PreviewOK' /\ PreviewKept'
  <2> DEFINE v == Phone!Refetch(preview, None)
  <2>1. v \in PreviewRecord /\ PhoneKept(v, stored', None)
    BY AloneFacts, RefetchTyped DEF PreviewOK
  <2>2. preview' = v /\ page'.menu = None
    BY <1>1, <1>3
  <2> HIDE DEF v
  <2> QED BY <2>1, <2>2 DEF PreviewOK, PreviewKept, PhoneKept, PreviewMenu, CategoriesOf
<1>6. StoreOK' /\ RequestsOK' /\ RestOK' /\ AloneOK'
  BY <1>1, AloneFacts DEF StoreOK, StoreShape, RequestsOK, RestOK, AloneOK, CategoriesOf
<1> QED BY <1>4, <1>5, <1>6 DEF EditorInv

(* Another tab writes.                                                      *)
LEMMA OtherStep ==
  ASSUME EditorInv, OtherWrites
  PROVE  EditorInv'
<1>1. /\ requests' = Disturbed /\ preview' = [preview EXCEPT !.stale = TRUE] /\ inSync' = FALSE
      /\ page' = page /\ dialog' = dialog /\ deleting' = deleting
  BY DEF OtherWrites
<1>2. StoreOK'
  <2>1. CASE \E c \in ToSet(stored.order) : stored' = WithoutCategory(stored, c)
    <3>1. PICK c \in ToSet(stored.order) : stored' = WithoutCategory(stored, c)
      BY <2>1
    <3>2. c \in Category
      BY AloneFacts DEF StoreOK, StoreShape
    <3> QED BY <3>1, <3>2, AloneFacts, WithoutTyped DEF StoreOK, StoreShape
  <2>2. CASE \E p \in Product : stored.rows[p] # None /\ stored' = [stored EXCEPT !.rows[p].active = ~@]
    <3>1. PICK p \in Product : stored.rows[p] # None /\ stored' = [stored EXCEPT !.rows[p].active = ~@]
      BY <2>2
    <3> DEFINE row == [stored.rows[p] EXCEPT !.active = ~@]
    <3>2. StoreShape(stored) /\ stored.rows[p] \in Row
      BY <3>1, AloneFacts DEF StoreOK, StoreShape, RowTable
    <3>3. row \in Row /\ stored' = [stored EXCEPT !.rows = [stored.rows EXCEPT ![p] = row]]
      BY <3>1, <3>2 DEF Row, StoreShape
    <3> HIDE DEF row
    <3>4. [stored.rows EXCEPT ![p] = row] \in RowTable
      BY <3>2, <3>3 DEF StoreShape, RowTable
    <3> QED BY <3>2, <3>3, <3>4 DEF StoreOK, StoreShape
  <2> QED BY <2>1, <2>2 DEF OtherWrites
<1>3. RequestsOK' /\ AloneOK'
  <2>1. /\ Disturbed \in Seq(EditorRequest) /\ DOMAIN Disturbed = DOMAIN requests
        /\ \A i \in DOMAIN requests : KindOK(Disturbed[i]) /\ ~Disturbed[i].alone
    BY AloneFacts, DisturbedTyped
  <2> DEFINE q == Disturbed
  <2>2. requests' = q
    BY <1>1
  <2> HIDE DEF q
  <2>3. q \in Seq(EditorRequest) /\ \A i \in DOMAIN q : KindOK(q[i]) /\ ~q[i].alone
    BY <2>1 DEF q
  <2> QED BY <2>2, <2>3 DEF RequestsOK, AloneOK
<1>4. PreviewOK' /\ ~Unannounced'
  BY <1>1, AloneFacts DEF PreviewOK, PreviewRecord, Unannounced
<1>5. PageOK' /\ RestOK' /\ ~Claimed'
  BY <1>1, AloneFacts DEF PageOK, RestOK, Claimed
<1> QED BY <1>2, <1>3, <1>4, <1>5 DEF EditorInv, PreviewKept

(* The phone is answered, and shows what it got.                             *)
LEMMA PhoneStep ==
  ASSUME EditorInv, PreviewAnswer \/ PreviewLands
  PROVE  EditorInv'
<1>1. UNCHANGED <<stored, page, requests, dialog, deleting, inSync, sent>>
  BY DEF PreviewAnswer, PreviewLands
<1>2. PreviewOK' /\ PreviewKept'
  <2>1. CASE PreviewAnswer
    <3> DEFINE content == PreviewMenu(stored, page.menu)
               v == Phone!Answered(preview, content)
               w == Phone!Failed(preview)
    <3>1. content \in PreviewContent
      BY AloneFacts, PreviewMenuTyped
    <3>2. /\ v \in PreviewRecord /\ PhoneKept(v, stored, page.menu)
          /\ w \in PreviewRecord /\ PhoneKept(w, stored, page.menu)
      <4>1. preview \in PreviewRecord /\ content = PreviewMenu(stored, page.menu)
        BY AloneFacts DEF PreviewOK
      <4> HIDE DEF content
      <4> QED BY <3>1, <4>1, AnsweredTyped
    <3>3. preview' = v \/ preview' = w
      BY <2>1 DEF PreviewAnswer
    <3> HIDE DEF v, w
    <3> QED BY <1>1, <3>2, <3>3 DEF PreviewOK, PreviewKept, PhoneKept, PreviewMenu, CategoriesOf
  <2>2. CASE PreviewLands
    <3> DEFINE v == Phone!Landed(preview, page.menu)
    <3>1. /\ v \in PreviewRecord /\ v.stale = preview.stale
          /\ PhoneKept(preview, stored, page.menu) => PhoneKept(v, stored, page.menu)
      BY <2>2, AloneFacts, LandedTyped DEF PreviewOK, PreviewLands
    <3>2. preview' = v
      BY <2>2 DEF PreviewLands
    <3> HIDE DEF v
    <3>3. Unannounced' => Unannounced
      BY <1>1, <3>1, <3>2 DEF Unannounced
    <3>4. Unannounced' => PhoneKept(v, stored, page.menu)
      BY <3>1, <3>3, AloneFacts DEF PreviewKept
    <3> QED BY <1>1, <3>1, <3>2, <3>4 DEF PreviewOK, PreviewKept, PhoneKept, PreviewMenu, CategoriesOf
  <2> QED BY <2>1, <2>2
<1>3. StoreOK' /\ PageOK' /\ RequestsOK' /\ RestOK' /\ AloneOK'
  BY <1>1, AloneFacts DEF StoreOK, StoreShape, PageOK, RequestsOK, RestOK, AloneOK, CategoriesOf
<1>4. Claimed' => ClaimsHold(requests', stored', page')
  BY <1>1, AloneFacts DEF Claimed, Loading
<1> QED BY <1>2, <1>3, <1>4 DEF EditorInv

(* Nothing happens to the page.                                             *)
LEMMA SameStep ==
  ASSUME EditorInv, UNCHANGED <<stored, page, requests, preview, inSync, deleting>>,
         dialog' \in {dialog, "none"}
  PROVE  EditorInv'
<1>1. StoreOK' /\ PageOK' /\ RequestsOK' /\ RestOK' /\ AloneOK' /\ PreviewOK'
  BY AloneFacts DEF StoreOK, StoreShape, PageOK, RequestsOK, RestOK, AloneOK, CategoriesOf, PreviewOK
<1>2. PreviewKept'
  BY AloneFacts DEF PreviewKept, Unannounced, PhoneKept, PreviewMenu, CategoriesOf
<1>3. Claimed' => ClaimsHold(requests', stored', page')
  BY AloneFacts DEF Claimed, Loading
<1> QED BY <1>1, <1>2, <1>3 DEF EditorInv

LEMMA OwnerKeeps ==
  ASSUME EditorInv, Owner
  PROVE  EditorInv'
<1>0. /\ ToSet(page.categories) \subseteq Category /\ \A p \in ShownProducts : p \in Product
      /\ inSync \in BOOLEAN /\ deleting \in BOOLEAN /\ RestOK
  BY AloneFacts, PageFacts DEF RestOK
<1>1. ASSUME NEW r, Handled(r), preview' = preview, deleting' \in BOOLEAN,
             dialog' \in {dialog, "category", "product", "bulk", "deleteCategory", "deleteProduct"}
      PROVE  EditorInv'
  <2>1. inSync' \in BOOLEAN
    BY <1>0, <1>1 DEF Handled, Send
  <2>2. RestOK'
    BY <1>0, <1>1, <2>1 DEF RestOK
  <2> QED BY <1>1, <2>2, HandledStep
<1>2. CASE \E m \in Menu : SwitchMenu(m)
  BY <1>2, SwitchStep
<1>3. CASE LoseMenus
  BY <1>3, LoseStep
<1>4. CASE CloseDialog
  BY <1>4, SameStep DEF CloseDialog
<1>5. CASE \E i, j \in DOMAIN page.categories : onCategoryDragEnd(i, j)
  <2>1. PICK i \in DOMAIN page.categories, j \in DOMAIN page.categories : onCategoryDragEnd(i, j)
    BY <1>5
  <2>2. \E r : Handled(r)
    BY <2>1, AloneFacts, CategoryDragHandled
  <2>3. preview' = preview /\ dialog' = dialog /\ deleting' = deleting
    BY <2>1 DEF onCategoryDragEnd
  <2> QED BY <1>0, <1>1, <2>2, <2>3
<1>6. CASE \E c \in ToSet(page.categories) : \E i, j \in DOMAIN page.lists[c] : onProductDragEnd(c, i, j)
  <2>0. PICK c \in ToSet(page.categories) : \E i, j \in DOMAIN page.lists[c] : onProductDragEnd(c, i, j)
    BY <1>6
  <2>1. PICK i \in DOMAIN page.lists[c], j \in DOMAIN page.lists[c] : onProductDragEnd(c, i, j)
    BY <2>0
  <2>2. \E r : Handled(r)
    BY <2>1, AloneFacts, ProductDragHandled
  <2>3. preview' = preview /\ dialog' = dialog /\ deleting' = deleting
    BY <2>1 DEF onProductDragEnd
  <2> QED BY <1>0, <1>1, <2>2, <2>3
<1>7. CASE \E p \in ShownProducts : \E price \in Price : onProductPriceChange(p, price)
  <2>1. PICK p \in ShownProducts, price \in Price : onProductPriceChange(p, price)
    BY <1>7
  <2>2. \E r : Handled(r)
    BY <2>1, AloneFacts, PriceHandled
  <2>3. preview' = preview /\ dialog' = dialog /\ deleting' = deleting
    BY <2>1 DEF onProductPriceChange
  <2> QED BY <1>0, <1>1, <2>2, <2>3
<1>8. CASE \E p \in ShownProducts : onProductActiveChange(p)
  <2>1. PICK p \in ShownProducts : onProductActiveChange(p)
    BY <1>8
  <2>2. \E r : Handled(r)
    BY <2>1, AloneFacts, ActiveHandled
  <2>3. preview' = preview /\ dialog' = dialog /\ deleting' = deleting
    BY <2>1 DEF onProductActiveChange
  <2> QED BY <1>0, <1>1, <2>2, <2>3
<1>9. CASE \E p \in ShownProducts : confirmProductDelete(p)
  <2>1. PICK p \in ShownProducts : confirmProductDelete(p)
    BY <1>9
  <2>2. \E r : Handled(r)
    BY <2>1, AloneFacts, DeleteProductHandled
  <2>3. preview' = preview /\ dialog' = "deleteProduct" /\ deleting' = TRUE
    BY <2>1 DEF confirmProductDelete
  <2> QED BY <1>1, <2>2, <2>3
<1>10. CASE \E c \in Category : SaveCategory(c)
  <2>1. PICK c \in Category : SaveCategory(c)
    BY <1>10
  <2>2. \E r : Handled(r)
    BY <2>1, AloneFacts, SaveCategoryHandled
  <2>3. preview' = preview /\ dialog' = "category" /\ deleting' = deleting
    BY <2>1 DEF SaveCategory
  <2> QED BY <1>0, <1>1, <2>2, <2>3
<1>11. CASE \E p \in Product, c \in ToSet(page.categories), price \in Price : SaveProduct(p, c, price)
  <2>1. PICK p \in Product, c \in ToSet(page.categories), price \in Price : SaveProduct(p, c, price)
    BY <1>11
  <2>2. \E r : Handled(r)
    BY <2>1, AloneFacts, SaveProductHandled
  <2>3. preview' = preview /\ dialog' = "product" /\ deleting' = deleting
    BY <2>1 DEF SaveProduct
  <2> QED BY <1>0, <1>1, <2>2, <2>3
<1>12. CASE \E c \in ToSet(page.categories) : confirmCategoryDelete(c)
  <2>1. PICK c \in ToSet(page.categories) : confirmCategoryDelete(c)
    BY <1>12
  <2>2. \E r : Handled(r)
    BY <2>1, AloneFacts, DeleteCategoryHandled
  <2>3. preview' = preview /\ dialog' = "deleteCategory" /\ deleting' = TRUE
    BY <2>1 DEF confirmCategoryDelete
  <2> QED BY <1>1, <2>2, <2>3
<1>13. CASE \E price \in Price : ApplyBulkPrice(price)
  <2>1. PICK price \in Price : ApplyBulkPrice(price)
    BY <1>13
  <2>2. \E r : Handled(r)
    BY <2>1, AloneFacts, BulkHandled
  <2>3. preview' = preview /\ dialog' = "bulk" /\ deleting' = deleting
    BY <2>1 DEF ApplyBulkPrice
  <2> QED BY <1>0, <1>1, <2>2, <2>3
<1> QED BY <1>2, <1>3, <1>4, <1>5, <1>6, <1>7, <1>8, <1>9, <1>10, <1>11, <1>12, <1>13 DEF Owner

LEMMA InitHolds == EditorInit => EditorInv
<1> SUFFICES ASSUME EditorInit PROVE EditorInv
  OBVIOUS
<1>1. StoreOK
  <2> DEFINE there == {c \in Category : MenuAtStart[c] # None}
             below == {pair \in Category \X Category : pair[1] < pair[2]}
             list == SortedBy(there, below)
  <2>1. there \subseteq Category /\ IsFiniteSet(there) /\ there \subseteq Nat
    BY EditorConstants, FS_Subset
  <2>2. \A x, y \in there : <<x, y>> \in below <=> x < y
    BY <2>1
  <2>3. stored = [order |-> list, menuOf |-> MenuAtStart, rows |-> RowAtStart]
    BY DEF EditorInit
  <2> HIDE DEF below
  <2>4. /\ \A x \in there : <<x, x>> \notin below
        /\ \A x, y, z \in there : <<x, y>> \in below /\ <<y, z>> \in below => <<x, z>> \in below
        /\ \A x, y \in there : x # y => <<x, y>> \in below \/ <<y, x>> \in below
    <3> HIDE DEF there
    <3> QED BY <2>1, <2>2
  <2>5. list \in Seq(there) /\ ToSet(list) = there
    <3> HIDE DEF there
    <3> QED BY <2>1, <2>4, SortedKeeps
  <2>6. list \in Seq(Category)
    BY <2>1, <2>5, SeqMonotonic
  <2>7. MenuAtStart \in [Category -> Menu \cup {None}] /\ RowAtStart \in RowTable
    BY EditorConstants, RowConstants DEF RowTable
  <2> HIDE DEF list
  <2>8. stored.order = list /\ stored.menuOf = MenuAtStart /\ stored.rows = RowAtStart
    BY <2>3
  <2>9. stored \in [order: Seq(Category), menuOf: [Category -> Menu \cup {None}], rows: RowTable]
    BY <2>3, <2>6, <2>7
  <2> QED BY <2>5, <2>8, <2>9 DEF StoreOK, StoreShape
<1>2. PageOK
  <2> DEFINE lists == [c \in Category |-> <<>>]
             rows == [p \in Product |-> None]
             count == [m \in Menu |-> Cardinality({c \in Category : MenuAtStart[c] = m})]
  <2>1. page = [menu |-> FirstMenu, loading |-> TRUE, categories |-> <<>>, rows |-> rows, lists |-> lists, count |-> count]
    BY DEF EditorInit
  <2>2. lists \in [Category -> Seq(Product)] /\ \A c \in Category : ToSet(lists[c]) = {}
    BY EmptySeq DEF ToSet
  <2>3. rows \in RowTable
    BY DEF RowTable
  <2>4. count \in [Menu -> Nat]
    <3>1. ASSUME NEW m \in Menu PROVE Cardinality({c \in Category : MenuAtStart[c] = m}) \in Nat
      <4>1. IsFiniteSet({c \in Category : MenuAtStart[c] = m})
        BY EditorConstants, FS_Subset
      <4> QED BY <4>1, FS_CardinalityType
    <3> QED BY <3>1
  <2>5. FirstMenu \in Menu /\ <<>> \in Seq(Category)
    BY EditorConstants, EmptySeq
  <2> HIDE DEF lists, rows, count
  <2>6. page \in [menu: Menu \cup {None}, loading: BOOLEAN, categories: Seq(Category), rows: RowTable,
                  lists: [Category -> Seq(Product)], count: [Menu -> Nat]]
    BY <2>1, <2>2, <2>3, <2>4, <2>5
  <2>7. page.lists = lists
    BY <2>1
  <2> QED BY <2>2, <2>6, <2>7 DEF PageOK
<1>3. /\ RequestsOK /\ AloneOK /\ ~Claimed
  <2> DEFINE r == LoadRequest(FirstMenu, TRUE)
  <2>1. r \in EditorRequest /\ KindOK(r) /\ r.kind = "load" /\ r.answer = None /\ r.products = None
    BY EditorConstants, LoadTyped
  <2>2. requests = <<r>>
    BY DEF EditorInit
  <2> HIDE DEF r
  <2>3. requests \in Seq(EditorRequest) /\ DOMAIN requests = {1} /\ requests[1] = r /\ Len(requests) = 1
    BY <2>1, <2>2
  <2> QED BY <2>1, <2>3 DEF RequestsOK, AloneOK, Claimed, Loading
<1>4. RestOK
  BY DEF EditorInit, RestOK
<1>5. PreviewOK /\ PreviewKept
  <2> DEFINE v == Phone!Refetch(Phone!Empty, FirstMenu)
  <2>1. v \in PreviewRecord /\ PhoneKept(v, stored, FirstMenu)
    BY EditorConstants, EmptyTyped, RefetchTyped
  <2>2. preview = v /\ page.menu = FirstMenu
    BY DEF EditorInit
  <2> HIDE DEF v
  <2> QED BY <2>1, <2>2 DEF PreviewOK, PreviewKept
<1> QED BY <1>1, <1>2, <1>3, <1>4, <1>5 DEF EditorInv

(* The invariant of the menu editor: every request under way still carries  *)
(* what its answer needs to make page and database agree, whichever answer  *)
(* it will be, and whatever no request has taken agrees already             *)
(* (MenuEditor.jsx:434).                                                    *)
THEOREM EditorKeeps == EditorSpec => []EditorInv
<1>1. EditorInit => EditorInv
  BY InitHolds
<1>2. EditorInv /\ [EditorNext]_editorVars => EditorInv'
  <2> SUFFICES ASSUME EditorInv, [EditorNext]_editorVars PROVE EditorInv'
    OBVIOUS
  <2>1. CASE Owner
    BY <2>1, OwnerKeeps
  <2>2. CASE Server
    BY <2>2, ExecuteStep, QuietAnswerStep DEF Server, UnderWay
  <2>3. CASE OtherWrites
    BY <2>3, OtherStep
  <2>4. CASE Landing
    BY <2>4, LandingKeeps
  <2>5. CASE PreviewAnswer \/ PreviewLands
    BY <2>5, PhoneStep
  <2>6. CASE UNCHANGED editorVars
    BY <2>6, SameStep DEF editorVars
  <2> QED BY <2>1, <2>2, <2>3, <2>4, <2>5, <2>6 DEF EditorNext
<1> QED BY <1>1, <1>2, PTL DEF EditorSpec

LEMMA EditorTyped == EditorInv => EditorTypeOK
<1> SUFFICES ASSUME EditorInv PROVE EditorTypeOK
  OBVIOUS
<1>1. \A i \in DOMAIN requests : requests[i].phase \in {"sent", "done", "gone", "failed"}
  BY AloneFacts, RequestFacts DEF EditorRequest
<1>2. \A c \in Category : \A p \in ToSet(page.lists[c]) : page.rows[p] \in Row
  BY AloneFacts, PageFacts
<1>3. page.menu \in Menu \cup {None} /\ page.loading \in BOOLEAN
  BY AloneFacts DEF PageOK
<1>4. /\ stored.menuOf \in [Category -> Menu \cup {None}]
      /\ \A p \in Product : stored.rows[p] = None \/ stored.rows[p] \in Row
  BY AloneFacts DEF StoreOK, StoreShape, RowTable
<1> QED BY <1>1, <1>2, <1>3, <1>4, AloneFacts DEF EditorTypeOK, RestOK

LEMMA EditorSettled == EditorInv => SettledShowsStored
<1> SUFFICES ASSUME EditorInv, Quiet, inSync, hasMenu PROVE
      /\ page.categories = CategoriesOf(stored, page.menu)
      /\ page.count[page.menu] = Len(page.categories)
      /\ \A c \in ToSet(page.categories) :
           /\ ToSet(page.lists[c]) = {p \in Product : stored.rows[p] # None /\ stored.rows[p].category = c}
           /\ \A p \in ToSet(page.lists[c]) : /\ page.rows[p].price = stored.rows[p].price
                                              /\ page.rows[p].active = stored.rows[p].active
  BY DEF SettledShowsStored
<1>1. DOMAIN requests = {}
  BY DEF Quiet, UnderWay
<1>2. ClaimsHold(requests, stored, page)
  BY <1>1, AloneFacts DEF Claimed, Loading, hasMenu
<1>3. /\ OrderAgrees(stored, page) /\ page.count[page.menu] = Len(page.categories)
      /\ \A p \in Product : ProductAgrees(p, stored, page)
  BY <1>1, <1>2 DEF ClaimsHold
<1>4. ASSUME NEW c \in ToSet(page.categories)
      PROVE  /\ ToSet(page.lists[c]) = {p \in Product : stored.rows[p] # None /\ stored.rows[p].category = c}
             /\ \A p \in ToSet(page.lists[c]) : /\ page.rows[p].price = stored.rows[p].price
                                                /\ page.rows[p].active = stored.rows[p].active
  <2>1. c \in Category /\ ToSet(page.lists[c]) \subseteq Product
    BY AloneFacts, PageFacts
  <2>2. \A p \in Product : p \in ToSet(page.lists[c]) <=> stored.rows[p] # None /\ stored.rows[p].category = c
    BY <1>3, <2>1 DEF ProductAgrees, Placed, InCategory
  <2>3. \A p \in Product : stored.rows[p] # None => SameRow(page.rows[p], stored.rows[p])
    BY <1>3 DEF ProductAgrees
  <2> QED BY <2>1, <2>2, <2>3 DEF SameRow
<1> QED BY <1>3, <1>4 DEF OrderAgrees

LEMMA EditorPreview == EditorInv => PreviewShowsStored
<1> SUFFICES ASSUME EditorInv, Quiet, preview.waiting = "no", ~preview.stale,
                    Phone!PhoneShows(preview, page.menu) = "menu", ~Phone!ShowsOldNote(preview, page.menu)
             PROVE  preview.payload.content = PreviewMenu(stored, page.menu)
  BY DEF PreviewShowsStored
<1>1. Unannounced
  BY DEF Unannounced, Quiet, UnderWay
<1>2. Phone!HasPayload(preview, page.menu)
  BY DEF Phone!PhoneShows
<1> QED BY <1>1, <1>2, AloneFacts DEF PreviewKept, PhoneKept

(* The page, its requests and the database keep their shape at any time:     *)
(* no answer and no rollback of MenuEditor.jsx puts into a list a product    *)
(* the page has no row of.                                                  *)
THEOREM EditorTyping == EditorSpec => []EditorTypeOK
<1> QED BY EditorKeeps, EditorTyped, PTL

(* For any menus, categories, products and prices, any number of requests in  *)
(* any order, refused or not: once none is under way, none overlapped        *)
(* another or lost its answer and nobody else wrote, the page shows the rows  *)
(* of the database.  Every optimistic change of MenuEditor.jsx is confirmed   *)
(* or put back by what its handler kept.                                    *)
THEOREM SettledShows == EditorSpec => []SettledShowsStored
<1> QED BY EditorKeeps, EditorSettled, PTL

(* The same of the phone beside the lists: whatever order answers come in,   *)
(* and even when requests overlap, it shows the menu as it is stored once     *)
(* nothing is under way, unless it says that it is old.  Every write the page *)
(* hears of makes the phone ask again, after the write (LivePreview.jsx).     *)
THEOREM PreviewShows == EditorSpec => []PreviewShowsStored
<1> QED BY EditorKeeps, EditorPreview, PTL

-----------------------------------------------------------------------------
(* Both halves of the dashboard.                                            *)

LEMMA DashboardHalves == DashboardSpec => EditorSpec /\ ContextSpec
<1>1. DashboardInit => EditorInit /\ ContextInit
  BY DEF DashboardInit
<1>2. [DashboardNext]_dashboardVars => [EditorNext]_editorVars /\ [ContextNext]_contextVars
  BY DEF DashboardNext, OnEditor, OnContext, dashboardVars
<1> QED BY <1>1, <1>2, PTL DEF DashboardSpec, EditorSpec, ContextSpec

(* For every value of the constants: the page and the menu context keep      *)
(* their shape, and once nothing is under way and nothing explains a         *)
(* difference the lists and the phone show what is stored                    *)
(* (MenuEditor.jsx:434).                                                    *)
THEOREM DashboardSound == DashboardSpec => []DashboardShowsStored
<1>1. EditorTypeOK /\ ContextTypeOK /\ SettledShowsStored /\ PreviewShowsStored => DashboardShowsStored
  BY DEF DashboardShowsStored
<1> QED BY <1>1, DashboardHalves, EditorTyping, ContextTyping, SettledShows, PreviewShows, PTL
=============================================================================
