----------------------------- MODULE EventGate -----------------------------
(***************************************************************************)
(* The event gate (backend/internal/eventgate/eventgate.go) and the part   *)
(* of TrackEvent (handlers/analytics.go) that goes through it: an event is *)
(* claimed against repeats, admitted against the daily cap of its          *)
(* business and inserted; a failed insert hands both back.                 *)
(*                                                                         *)
(* Each action is one critical section of the gate's mutex or one call to  *)
(* the database, so requests interleave at every unlock.  The checks of    *)
(* the request body before the gate are left out.  Time is a count of      *)
(* ticks; a calendar day is TicksPerDay of them.                           *)
(***************************************************************************)
EXTENDS Naturals, FiniteSets

CONSTANTS
  Request, Business, Key,
  KeyOf,            \* request -> the repeat key of its event
  BusinessOf,       \* repeat key -> business: the key names the menu
  None,
  Cap,              \* DailyCap, 0 for none
  Window,           \* RepeatWindow, in ticks
  MaxKeys,          \* MaxRepeatKeys
  TicksPerDay, LastTick,
  MaxRestarts,
  MaxLate           \* bound: the requests a tick may find that outlive their window or their day

ASSUME GateConstants ==
  /\ KeyOf \in [Request -> Key] /\ BusinessOf \in [Key -> Business]
  /\ None \notin Request \cup Nat /\ IsFiniteSet(Request)
  /\ Cap \in Nat /\ Window \in Nat \ {0} /\ MaxKeys \in Nat \ {0}
  /\ TicksPerDay \in Nat \ {0} /\ LastTick \in Nat /\ MaxRestarts \in Nat
  /\ MaxLate \in Nat

VARIABLES
  clock,
  repeats,     \* key -> the tick it stops being a repeat at; 0 when absent
  nextSweep,
  day,         \* the day the counts belong to, None before the first
  counts,      \* business -> its entry, named by the request that made it
  entries,     \* the entries, which a request may still point to once dropped
  rows,        \* menu_events
  reports,     \* the refusals reported as the first of the day
  requests,    \* request -> where its handler is
  restarts,
  turnedBack,  \* the days a request of an earlier day rolled the gate back over
  late         \* whether a request has outlived the window of its claim or the day it began on

gateVars == <<clock, repeats, nextSweep, day, counts, entries, rows, reports, requests, restarts,
              turnedBack, late>>

Today == clock \div TicksPerDay

Steps == {"idle", "readClock", "look", "count", "install", "admit", "insert", "release", "return", "done"}

Entry == [stored : Nat, reported : BOOLEAN]

Handler == [
  step : Steps,
  claimed : Nat,                  \* when it claimed its key
  remembered : BOOLEAN,           \* whether the set had room for the claim
  today : Nat,                    \* the day Admit read off the clock
  read : Nat,                     \* what the database had stored
  entry : Request \cup {None}]    \* the entry it points to

GateTypeOK ==
  /\ clock \in Nat /\ nextSweep \in Nat
  /\ repeats \in [Key -> Nat]
  /\ Cardinality({k \in Key : repeats[k] # 0}) <= MaxKeys
  /\ day \in Nat \cup {None}
  /\ counts \in [Business -> Request \cup {None}]
  /\ entries \in [Request -> Entry]
  /\ rows \subseteq [by : Request, claimed : Nat, remembered : BOOLEAN, day : Nat, life : 0..MaxRestarts]
  /\ reports \subseteq [by : Request, day : Nat, life : 0..MaxRestarts]
  /\ requests \in [Request -> Handler]
  /\ restarts \in 0..MaxRestarts
  /\ turnedBack \subseteq [life : 0..MaxRestarts, day : Nat] /\ late \in BOOLEAN

Shop(r) == BusinessOf[KeyOf[r]]

At(r, step) == requests[r].step = step

GoTo(r, step) == requests' = [requests EXCEPT ![r].step = step]

InFlight == {r \in Request : ~At(r, "idle") /\ ~At(r, "done")}

Rows(b, d) == {row \in rows : Shop(row.by) = b /\ row.day = d}
-----------------------------------------------------------------------------
GateInit ==
  /\ clock = 1
  /\ repeats = [k \in Key |-> 0] /\ nextSweep = 0
  /\ day = None /\ counts = [b \in Business |-> None]
  /\ entries = [r \in Request |-> [stored |-> 0, reported |-> FALSE]]
  /\ rows = {} /\ reports = {}
  /\ requests = [r \in Request |->
                   [step |-> "idle", claimed |-> 0, remembered |-> FALSE, today |-> 0, read |-> 0, entry |-> None]]
  /\ restarts = 0 /\ turnedBack = {} /\ late = FALSE

Remembered == {k \in Key : repeats[k] # 0}

SweepDue == clock > nextSweep \/ Cardinality(Remembered) >= MaxKeys

(* A sweep that drops every claim, whether it has expired or not.          *)
SweptAll == IF SweepDue THEN [k \in Key |-> 0] ELSE repeats

(* The claims left once Claim has swept, which it does once a window or    *)
(* when the set is full.                                                   *)
Swept ==
  IF SweepDue THEN [k \in Key |-> IF clock >= repeats[k] THEN 0 ELSE repeats[k]] ELSE repeats

Room == Cardinality({k \in Key : Swept[k] # 0}) < MaxKeys

Claim(r) ==
  LET k == KeyOf[r] IN
  /\ At(r, "idle")
  /\ IF k \in Remembered /\ clock < repeats[k]
     THEN GoTo(r, "done") /\ UNCHANGED <<repeats, nextSweep>>
     ELSE /\ requests' = [requests EXCEPT ![r].step = "readClock", ![r].claimed = clock,
                                              ![r].remembered = Room]
          /\ repeats' = IF Room THEN [Swept EXCEPT ![k] = clock + Window] ELSE Swept
          /\ nextSweep' = IF SweepDue THEN clock + Window ELSE nextSweep
  /\ UNCHANGED <<clock, day, counts, entries, rows, reports, restarts, turnedBack, late>>

(* Admit reads the clock before it takes the lock.                         *)
ReadClock(r) ==
  /\ At(r, "readClock")
  /\ requests' = [requests EXCEPT ![r].today = Today,
                                  ![r].step = IF Cap = 0 THEN "insert" ELSE "look"]
  /\ UNCHANGED <<clock, repeats, nextSweep, day, counts, entries, rows, reports, restarts, turnedBack, late>>

(* rollDay: the counts of another day are dropped.                         *)
Rolled(d) == IF day # d THEN [b \in Business |-> None] ELSE counts

(* rollDay goes back too, for a request that read the clock before midnight *)
(* and comes to the gate after one that read it later: the days from its    *)
(* own to the gate's may be counted anew.                                   *)
RolledBack(d) ==
  IF day # None /\ day > d THEN turnedBack \cup [life : {restarts}, day : d..day] ELSE turnedBack

Look(r) ==
  /\ At(r, "look")
  /\ day' = requests[r].today
  /\ counts' = Rolled(requests[r].today)
  /\ requests' = [requests EXCEPT ![r].entry = counts'[Shop(r)],
                                  ![r].step = IF counts'[Shop(r)] = None THEN "count" ELSE "admit"]
  /\ turnedBack' = RolledBack(requests[r].today)
  /\ UNCHANGED <<clock, repeats, nextSweep, entries, rows, reports, restarts, late>>

(* What the business stored since midnight is read outside the lock.  When *)
(* the read fails the claim is released and nothing was admitted.          *)
Count(r) ==
  /\ At(r, "count")
  /\ \/ requests' = [requests EXCEPT
          ![r].read = Cardinality({row \in rows : /\ Shop(row.by) = Shop(r)
                                                  /\ row.day >= requests[r].today}),
          ![r].step = "install"]
     \/ GoTo(r, "release")
  /\ UNCHANGED <<clock, repeats, nextSweep, day, counts, entries, rows, reports, restarts, turnedBack, late>>

(* Every reading is installed, over the entry of another request too.      *)
FirstReadingOver(r) == TRUE

(* The first reading of the day is installed; a later one is dropped.      *)
FirstReading(r) == Rolled(requests[r].today)[Shop(r)] = None

Install(r) ==
  /\ At(r, "install")
  /\ day' = requests[r].today
  /\ IF FirstReading(r)
     THEN /\ counts' = [Rolled(requests[r].today) EXCEPT ![Shop(r)] = r]
          /\ entries' = [entries EXCEPT ![r] = [stored |-> requests[r].read, reported |-> FALSE]]
     ELSE /\ counts' = Rolled(requests[r].today)
          /\ UNCHANGED entries
  /\ requests' = [requests EXCEPT ![r].entry = counts'[Shop(r)], ![r].step = "admit"]
  /\ turnedBack' = RolledBack(requests[r].today)
  /\ UNCHANGED <<clock, repeats, nextSweep, rows, reports, restarts, late>>

Full(e) == entries[e].stored >= Cap

EveryRefusal(e) == TRUE

FirstRefusal(e) == ~entries[e].reported

(* The event is counted in the entry the request looked up, which need no  *)
(* longer be the one its business has.                                     *)
Admit(r) ==
  LET e == requests[r].entry IN
  /\ At(r, "admit")
  /\ IF Full(e)
     THEN /\ reports' = IF FirstRefusal(e)
                        THEN reports \cup {[by |-> r, day |-> requests[r].today, life |-> restarts]}
                        ELSE reports
          /\ entries' = [entries EXCEPT ![e].reported = TRUE]
          /\ GoTo(r, "done")
     ELSE /\ entries' = [entries EXCEPT ![e].stored = @ + 1]
          /\ GoTo(r, "insert")
          /\ UNCHANGED reports
  /\ UNCHANGED <<clock, repeats, nextSweep, day, counts, rows, restarts, turnedBack, late>>

(* The database stamps the row as it is inserted.                          *)
Insert(r) ==
  /\ At(r, "insert")
  /\ \/ /\ rows' = rows \cup {[by |-> r, claimed |-> requests[r].claimed,
                               remembered |-> requests[r].remembered, day |-> Today, life |-> restarts]}
        /\ GoTo(r, "done")
     \/ GoTo(r, "release") /\ UNCHANGED rows
  /\ UNCHANGED <<clock, repeats, nextSweep, day, counts, entries, reports, restarts, turnedBack, late>>

(* Only an insert that failed has an admission to return as well.          *)
Release(r) ==
  /\ At(r, "release")
  /\ repeats' = [repeats EXCEPT ![KeyOf[r]] = 0]
  /\ GoTo(r, IF requests[r].entry # None THEN "return" ELSE "done")
  /\ UNCHANGED <<clock, nextSweep, day, counts, entries, rows, reports, restarts, turnedBack, late>>

ReturnNothing(r) ==
  /\ At(r, "return")
  /\ GoTo(r, "done")
  /\ UNCHANGED <<clock, repeats, nextSweep, day, counts, entries, rows, reports, restarts, turnedBack, late>>

(* Return takes the event off the entry the business has now.              *)
Return(r) ==
  LET e == counts[Shop(r)] IN
  /\ At(r, "return")
  /\ entries' = IF e # None /\ entries[e].stored > 0
                THEN [entries EXCEPT ![e].stored = @ - 1] ELSE entries
  /\ GoTo(r, "done")
  /\ UNCHANGED <<clock, repeats, nextSweep, day, counts, rows, reports, restarts, turnedBack, late>>

(* The requests a tick would leave behind the window of their claim, or the *)
(* day they began on.                                                      *)
Outlived ==
  {r \in InFlight : clock + 1 >= requests[r].claimed + Window \/ (clock + 1) \div TicksPerDay # Today}

(* Time passes, also under the requests that are on their way.             *)
Tick ==
  /\ clock < LastTick /\ Cardinality(Outlived) <= MaxLate
  /\ clock' = clock + 1
  /\ late' = (late \/ Outlived # {})
  /\ UNCHANGED <<repeats, nextSweep, day, counts, entries, rows, reports, requests, restarts, turnedBack>>

(* The process stops, its requests with it, and starts with an empty gate. *)
Restart ==
  /\ restarts < MaxRestarts
  /\ restarts' = restarts + 1
  /\ repeats' = [k \in Key |-> 0] /\ nextSweep' = 0
  /\ day' = None /\ counts' = [b \in Business |-> None]
  /\ requests' = [r \in Request |-> IF At(r, "idle") THEN requests[r]
                                    ELSE [requests[r] EXCEPT !.step = "done", !.entry = None]]
  /\ UNCHANGED <<clock, entries, rows, reports, turnedBack, late>>

Finished == clock = LastTick /\ (\A r \in Request : At(r, "done")) /\ UNCHANGED gateVars

Handle(r) ==
  \/ Claim(r) \/ ReadClock(r) \/ Look(r) \/ Count(r) \/ Install(r)
  \/ Admit(r) \/ Insert(r) \/ Release(r) \/ Return(r)

GateNext == (\E r \in Request : Handle(r)) \/ Tick \/ Restart \/ Finished

GateSpec == GateInit /\ [][GateNext]_gateVars
-----------------------------------------------------------------------------
(* Properties.                                                             *)

(* The events of a business that are counted and on their way to the       *)
(* database, or on their way back after a failed insert.                   *)
Admitted(b) ==
  {r \in Request : /\ Shop(r) = b
                   /\ At(r, "insert") \/ At(r, "return") \/ (At(r, "release") /\ requests[r].entry # None)}

Used(b) ==
  IF day = Today /\ counts[b] # None THEN entries[counts[b]].stored
  ELSE Cardinality(Rows(b, Today))

(* eventgate.go, Admit and Return: whatever the interleaving of requests,  *)
(* failed inserts and restarts, the count of a business is its rows of the *)
(* day and the events still on their way.                                  *)
CountIsRowsAndAdmitted ==
  \A b \in Business : Used(b) = Cardinality(Rows(b, Today)) + Cardinality(Admitted(b))

(* eventgate.go, Admit and Return: the gate keeps the promise of a daily   *)
(* allowance, step by step, until a request is late.                       *)
Allowance == INSTANCE DailyAllowance WITH
  used <- [b \in Business |-> Used(b)],
  stored <- [b \in Business |-> Cardinality(Rows(b, Today))]

KeepsAllowance ==
  Allowance!AllowanceInit /\ [][late' \/ Allowance!AllowanceNext]_(Allowance!allowanceVars)

(* eventgate.go: each business stores at most Cap events per calendar day, *)
(* whatever fails or restarts meanwhile.                                   *)
StoredWithinCap ==
  Cap # 0 => \A b \in Business, d \in 0..Today : Cardinality(Rows(b, d)) <= Cap

(* The gate's memory: typed and bounded and, until a request is late, its  *)
(* counts the rows and the places held, and what it lets through within    *)
(* the cap.                                                                *)
GateHolds == GateTypeOK /\ (late \/ (CountIsRowsAndAdmitted /\ StoredWithinCap))

SameRefusal(p, q) == Shop(p.by) = Shop(q.by) /\ p.day = q.day /\ p.life = q.life

(* eventgate.go, Admit: however the requests cross, last past midnight and *)
(* fail, the first refusal of a business's day is reported once in the     *)
(* life of a process, unless a request of an earlier day came to the gate  *)
(* late and rolled its counts back over that day.                          *)
ReportedOnce ==
  \A p, q \in reports :
    SameRefusal(p, q) /\ [life |-> p.life, day |-> p.day] \notin turnedBack => p = q

(* eventgate.go:17-19 as it is written: the first refusal of the day is    *)
(* reported once.                                                          *)
FirstRefusalReportedOnce == \A p, q \in reports : SameRefusal(p, q) => p = q

(* Every claim of the key found room in the set.                           *)
AlwaysRoom(k) ==
  \A r \in Request : KeyOf[r] = k /\ requests[r].claimed # 0 => requests[r].remembered

(* eventgate.go: a repeat of a stored event within the window is dropped,  *)
(* so two stored events of one key were claimed a window apart, unless the *)
(* set was full at a claim of the key: such a claim is not remembered, and *)
(* when its event is not stored Release forgets another one's.             *)
ClaimedApart ==
  \A p, q \in rows :
    (/\ p # q /\ KeyOf[p.by] = KeyOf[q.by] /\ p.life = q.life
     /\ AlwaysRoom(KeyOf[p.by]) /\ p.claimed <= q.claimed)
      => q.claimed >= p.claimed + Window

(* So it is until a request is late: one that outlives the window of its   *)
(* claim may release the claim of its successor.                           *)
RepeatsDropped == late \/ ClaimedApart
=============================================================================
