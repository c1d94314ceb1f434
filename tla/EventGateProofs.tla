-------------------------- MODULE EventGateProofs ---------------------------
(* The event gate for any number of requests, keys, businesses, ticks and     *)
(* restarts: its counts, its allowance and its repeats as long as no request  *)
(* has outlived its window or its day, its memory and its reports however     *)
(* long requests last.                                                        *)
EXTENDS EventGate, FiniteSetTheorems, TLAPS

-----------------------------------------------------------------------------
(* The inductive invariant of the daily count.                               *)

(* The business has an entry of today.                                      *)
Open(b) == day = Today /\ counts[b] # None

(* The request holds a place: its event is counted and not yet stored.       *)
Holds(r) == At(r, "insert") \/ At(r, "return") \/ (At(r, "release") /\ requests[r].entry # None)

AfterClock == {"look", "count", "install", "admit", "insert", "release", "return"}

(* What a request has read is what there is, as long as it is under way.     *)
HandlerOK(r) ==
  /\ requests[r].step \in AfterClock => requests[r].today = Today
  /\ At(r, "admit") \/ Holds(r) => Open(Shop(r)) /\ requests[r].entry = counts[Shop(r)]
  /\ At(r, "count") => requests[r].entry = None
  /\ At(r, "install") /\ ~Open(Shop(r)) => requests[r].read = Cardinality(Rows(Shop(r), Today))

(* No two businesses share an entry, and none is of a day to come.           *)
EntriesNamed ==
  \A b \in Business : counts[b] # None =>
    counts[b] \in Request /\ Shop(counts[b]) = b /\ day \in Nat /\ day <= Today

EntriesCount ==
  \A b \in Business : Open(b) =>
    /\ entries[counts[b]].stored = Cardinality(Rows(b, Today)) + Cardinality(Admitted(b))
    /\ entries[counts[b]].stored <= Cap

RowsOK ==
  /\ IsFiniteSet(rows)
  /\ \A row \in rows : row.day <= Today /\ row.life <= restarts /\ requests[row.by].step = "done"

RepeatsOK ==
  /\ repeats \in [Key -> Nat] /\ nextSweep \in Nat
  /\ IsFiniteSet(Remembered) /\ Cardinality(Remembered) <= MaxKeys

(* What is recorded of the reports and of the days rolled back over.         *)
HistoryOK ==
  /\ reports \subseteq [by : Request, day : Nat, life : 0..MaxRestarts]
  /\ turnedBack \subseteq [life : 0..MaxRestarts, day : Nat]

GateInv ==
  /\ GateTypeOK /\ RepeatsOK /\ RowsOK
  /\ \A r \in Request : HandlerOK(r)
  /\ EntriesNamed /\ EntriesCount /\ StoredWithinCap

-----------------------------------------------------------------------------
(* Facts about days, rows and places.                                        *)

LEMMA DayIsNat ==
  ASSUME NEW t \in Nat, NEW n \in Nat \ {0} PROVE t \div n \in Nat
  OBVIOUS

LEMMA DaysGoOn ==
  ASSUME NEW t \in Nat, NEW n \in Nat \ {0} PROVE t \div n <= (t + 1) \div n
<1> DEFINE q == t \div n
           s == (t + 1) \div n
<1>1. q \in Nat /\ s \in Nat /\ n * q <= t /\ t + 1 < n * (s + 1)
  OBVIOUS
<1> HIDE DEF q, s
<1>2. \A x, y \in Nat : x > y => n * x >= n * (y + 1)
  OBVIOUS
<1>3. q <= s
  BY <1>1, <1>2
<1> QED BY <1>3 DEF q, s

LEMMA Constants ==
  /\ \A r \in Request : KeyOf[r] \in Key /\ Shop(r) \in Business
  /\ None \notin Request /\ IsFiniteSet(Request)
  /\ Cap \in Nat /\ Window \in Nat \ {0} /\ MaxKeys \in Nat \ {0} /\ TicksPerDay \in Nat \ {0} /\ MaxRestarts \in Nat
  BY GateConstants DEF Shop

LEMMA TodayIsNat == ASSUME GateTypeOK PROVE Today \in Nat
  BY DayIsNat, Constants DEF GateTypeOK, Today

LEMMA RowsFinite ==
  ASSUME RowsOK, NEW b, NEW d
  PROVE  IsFiniteSet(Rows(b, d)) /\ Cardinality(Rows(b, d)) \in Nat
  BY FS_Subset, FS_CardinalityType DEF RowsOK, Rows

LEMMA AdmittedFinite ==
  ASSUME NEW b
  PROVE  /\ Admitted(b) = {r \in Request : Shop(r) = b /\ Holds(r)}
         /\ IsFiniteSet(Admitted(b)) /\ Cardinality(Admitted(b)) \in Nat
<1>1. Admitted(b) = {r \in Request : Shop(r) = b /\ Holds(r)}
  BY DEF Admitted, Holds
<1>2. Admitted(b) \subseteq Request
  BY <1>1
<1> QED BY <1>1, <1>2, Constants, FS_Subset, FS_CardinalityType

(* Nobody holds a place of a business that has no entry of today.            *)
LEMMA ClosedHasNoPlaces ==
  ASSUME GateInv, NEW b \in Business, ~Open(b)
  PROVE  Admitted(b) = {}
  BY AdmittedFinite DEF GateInv, HandlerOK

LEMMA CountHolds == ASSUME GateInv PROVE CountIsRowsAndAdmitted
<1> SUFFICES ASSUME NEW b \in Business PROVE Used(b) = Cardinality(Rows(b, Today)) + Cardinality(Admitted(b))
  BY DEF CountIsRowsAndAdmitted
<1>1. CASE Open(b)
  BY <1>1 DEF GateInv, EntriesCount, Used, Open
<1>2. CASE ~Open(b)
  <2>1. Cardinality(Admitted(b)) = 0
    BY <1>2, ClosedHasNoPlaces, FS_EmptySet
  <2>2. Cardinality(Rows(b, Today)) \in Nat
    BY RowsFinite DEF GateInv
  <2> QED BY <1>2, <2>1, <2>2 DEF Used, Open
<1> QED BY <1>1, <1>2

LEMMA GateInvInit == GateInit => GateInv
<1> SUFFICES ASSUME GateInit PROVE GateInv
  OBVIOUS
<1>1. rows = {} /\ reports = {} /\ turnedBack = {} /\ late = FALSE /\ restarts = 0 /\ clock = 1 /\ nextSweep = 0 /\ day = None
      /\ (\A b \in Business : counts[b] = None) /\ counts \in [Business -> Request \cup {None}]
  BY DEF GateInit
<1>2. requests \in [Request -> Handler] /\ \A r \in Request : requests[r].step = "idle"
  BY DEF GateInit, Handler, Steps
<1>3. Remembered = {} /\ IsFiniteSet(Remembered) /\ Cardinality(Remembered) = 0
  <2>1. Remembered = {}
    BY DEF GateInit, Remembered
  <2> QED BY <2>1, FS_EmptySet
<1>4. RepeatsOK
  BY <1>1, <1>3, Constants DEF GateInit, RepeatsOK
<1>5. GateTypeOK
  <2>1. entries \in [Request -> Entry]
    BY DEF GateInit, Entry
  <2>2. restarts \in 0..MaxRestarts
    BY <1>1, Constants
  <2> QED BY <1>1, <1>2, <1>4, <2>1, <2>2 DEF RepeatsOK, Remembered, GateTypeOK
<1>6. RowsOK
  BY <1>1, FS_EmptySet DEF RowsOK
<1>7. \A r \in Request : HandlerOK(r)
  BY <1>2 DEF HandlerOK, Holds, At, AfterClock
<1>8. EntriesNamed /\ EntriesCount
  BY <1>1 DEF EntriesNamed, EntriesCount, Open
<1>9. StoredWithinCap
  <2>1. \A b \in Business, d \in 0..Today : Cardinality(Rows(b, d)) = 0
    BY <1>1, FS_EmptySet DEF Rows
  <2> QED BY <2>1, Constants DEF StoredWithinCap
<1> QED BY <1>4, <1>5, <1>6, <1>7, <1>8, <1>9 DEF GateInv

-----------------------------------------------------------------------------
(* Steps that count nothing.                                                 *)

Moved(r) == requests' \in [Request -> Handler] /\ \A p \in Request \ {r} : requests'[p] = requests[p]

(* What another request has read stays right when the counts and rows do.    *)
LEMMA OthersOK ==
  ASSUME GateInv, NEW r \in Request, Moved(r), UNCHANGED <<clock, day, counts, rows>>
  PROVE  \A p \in Request \ {r} : HandlerOK(p)'
  BY DEF GateInv, Moved, HandlerOK, Holds, At, Open, Today, Rows

LEMMA QuietKeeps ==
  ASSUME GateInv, NEW r \in Request, Moved(r), requests[r].step # "done",
         UNCHANGED <<clock, day, counts, entries, rows, restarts, turnedBack, late>>,
         HandlerOK(r)', Holds(r)' <=> Holds(r),
         RepeatsOK', HistoryOK'
  PROVE  GateInv'
<1>1. \A p \in Request : HandlerOK(p)'
  BY OthersOK
<1>2. \A p \in Request : Holds(p)' <=> Holds(p)
  BY DEF Moved, Holds, At
<1>3. \A b : Admitted(b)' = Admitted(b)
  BY <1>2 DEF Admitted, Holds
<1>4. Today' = Today /\ \A b, d : Rows(b, d)' = Rows(b, d)
  BY DEF Today, Rows
<1>5. EntriesNamed' /\ StoredWithinCap'
  BY <1>4 DEF GateInv, EntriesNamed, StoredWithinCap
<1>6. EntriesCount'
  BY <1>3, <1>4 DEF GateInv, EntriesCount, Open
<1>7. RowsOK'
  BY <1>4 DEF GateInv, GateTypeOK, RowsOK, Moved
<1>8. GateTypeOK'
  BY DEF GateInv, GateTypeOK, RepeatsOK, Remembered, Moved, HistoryOK
<1> QED BY <1>1, <1>5, <1>6, <1>7, <1>8 DEF GateInv

LEMMA GoToMoves ==
  ASSUME GateInv, NEW r \in Request, NEW step \in Steps, GoTo(r, step)
  PROVE  Moved(r) /\ requests'[r].step = step /\ requests'[r].entry = requests[r].entry
         /\ requests'[r].today = requests[r].today /\ requests'[r].claimed = requests[r].claimed
         /\ requests'[r].remembered = requests[r].remembered
  BY DEF GateInv, GateTypeOK, GoTo, Moved, Handler

LEMMA RepeatsStay ==
  ASSUME GateInv, UNCHANGED <<repeats, nextSweep>> PROVE RepeatsOK'
  BY DEF GateInv, RepeatsOK, Remembered

LEMMA ReportsNow ==
  ASSUME GateInv, UNCHANGED <<reports, turnedBack>> PROVE HistoryOK'
  BY DEF GateInv, GateTypeOK, HistoryOK

LEMMA RolledBackTyped ==
  ASSUME day \in Nat \cup {None}, restarts \in 0..MaxRestarts, NEW d \in Nat,
         turnedBack \subseteq [life : 0..MaxRestarts, day : Nat]
  PROVE  RolledBack(d) \subseteq [life : 0..MaxRestarts, day : Nat]
  BY DEF RolledBack

LEMMA TypesNow ==
  ASSUME GateInv
  PROVE  /\ requests \in [Request -> Handler] /\ clock \in Nat /\ Today \in Nat /\ restarts \in 0..MaxRestarts
         /\ counts \in [Business -> Request \cup {None}] /\ entries \in [Request -> Entry]
  BY TodayIsNat DEF GateInv, GateTypeOK

LEMMA SweptOK ==
  ASSUME RepeatsOK, clock \in Nat
  PROVE  /\ Swept \in [Key -> Nat]
         /\ \A k \in Key : Swept[k] \in {0, repeats[k]} /\ (clock < repeats[k] => Swept[k] = repeats[k])
         /\ IsFiniteSet({k \in Key : Swept[k] # 0}) /\ Cardinality({k \in Key : Swept[k] # 0}) \in Nat
         /\ Cardinality({k \in Key : Swept[k] # 0}) <= MaxKeys
<1>1. repeats \in [Key -> Nat] /\ clock \in Nat
  BY DEF RepeatsOK
<1>2. Swept \in [Key -> Nat] /\ \A k \in Key : Swept[k] \in {0, repeats[k]} /\ (clock < repeats[k] => Swept[k] = repeats[k])
  BY <1>1 DEF Swept
<1>3. {k \in Key : Swept[k] # 0} \subseteq Remembered
  BY <1>2 DEF Remembered
<1>4. IsFiniteSet(Remembered) /\ Cardinality(Remembered) <= MaxKeys /\ MaxKeys \in Nat
  BY Constants DEF RepeatsOK
<1> HIDE DEF Swept
<1>5. IsFiniteSet({k \in Key : Swept[k] # 0}) /\ Cardinality({k \in Key : Swept[k] # 0}) <= Cardinality(Remembered)
  BY <1>3, <1>4, FS_Subset
<1>6. Cardinality({k \in Key : Swept[k] # 0}) \in Nat /\ Cardinality(Remembered) \in Nat
  BY <1>4, <1>5, FS_CardinalityType
<1> QED BY <1>2, <1>4, <1>5, <1>6

(* A claim never takes the set beyond its limit.                             *)
LEMMA ClaimedOK ==
  ASSUME RepeatsOK, clock \in Nat, NEW k \in Key,
         repeats' = IF Room THEN [Swept EXCEPT ![k] = clock + Window] ELSE Swept,
         nextSweep' = IF SweepDue THEN clock + Window ELSE nextSweep
  PROVE  RepeatsOK'
<1> DEFINE Left == {j \in Key : Swept[j] # 0}
<1>1. clock \in Nat /\ Window \in Nat /\ nextSweep \in Nat /\ MaxKeys \in Nat
  BY Constants DEF RepeatsOK
<1>2. Swept \in [Key -> Nat] /\ IsFiniteSet(Left) /\ Cardinality(Left) \in Nat /\ Cardinality(Left) <= MaxKeys
  BY SweptOK
<1>3. repeats' \in [Key -> Nat] /\ nextSweep' \in Nat
  BY <1>1, <1>2
<1>4. Room <=> Cardinality(Left) < MaxKeys
  BY DEF Room
<1>5. Remembered' \subseteq IF Room THEN Left \cup {k} ELSE Left
  BY <1>2 DEF Remembered
<1> HIDE DEF Left
<1>6. IsFiniteSet(Left \cup {k}) /\ Cardinality(Left \cup {k}) <= Cardinality(Left) + 1 /\ Cardinality(Left \cup {k}) \in Nat
  <2>1. IsFiniteSet(Left \cup {k})
        /\ Cardinality(Left \cup {k}) = IF k \in Left THEN Cardinality(Left) ELSE Cardinality(Left) + 1
    BY <1>2, FS_AddElement, Zenon
  <2> QED BY <1>2, <2>1
<1>7. IsFiniteSet(Remembered') /\ Cardinality(Remembered') <= MaxKeys
  <2>1. CASE Room
    <3>1. IsFiniteSet(Remembered') /\ Cardinality(Remembered') <= Cardinality(Left \cup {k}) /\ Cardinality(Remembered') \in Nat
      BY <1>5, <1>6, <2>1, FS_Subset, FS_CardinalityType
    <3> QED BY <1>1, <1>2, <1>4, <1>6, <2>1, <3>1
  <2>2. CASE ~Room
    <3>1. IsFiniteSet(Remembered') /\ Cardinality(Remembered') <= Cardinality(Left) /\ Cardinality(Remembered') \in Nat
      BY <1>2, <1>5, <2>2, FS_Subset, FS_CardinalityType
    <3> QED BY <1>1, <1>2, <3>1
  <2> QED BY <2>1, <2>2
<1> QED BY <1>3, <1>7 DEF RepeatsOK

LEMMA ReleasedOK ==
  ASSUME RepeatsOK, NEW k \in Key, repeats' = [repeats EXCEPT ![k] = 0], UNCHANGED nextSweep
  PROVE  RepeatsOK'
<1>1. repeats' \in [Key -> Nat] /\ Remembered' \subseteq Remembered
  BY DEF RepeatsOK, Remembered
<1>2. IsFiniteSet(Remembered') /\ Cardinality(Remembered') <= Cardinality(Remembered)
      /\ Cardinality(Remembered') \in Nat /\ Cardinality(Remembered) \in Nat
  BY <1>1, FS_Subset, FS_CardinalityType DEF RepeatsOK
<1> QED BY <1>1, <1>2, Constants DEF RepeatsOK

(* A process that starts remembers no claim.                                 *)
LEMMA ForgottenOK ==
  ASSUME repeats' = [k \in Key |-> 0], nextSweep' = 0
  PROVE  RepeatsOK'
<1>1. Remembered' = {}
  BY DEF Remembered
<1> QED BY <1>1, FS_EmptySet, Constants DEF RepeatsOK

LEMMA ClaimKeeps ==
  ASSUME GateInv, NEW r \in Request, Claim(r)
  PROVE  GateInv' /\ Moved(r)
<1>1. requests[r].step = "idle" /\ UNCHANGED <<clock, day, counts, entries, rows, reports, restarts, turnedBack, late>>
  BY DEF Claim, At
<1>2. CASE GoTo(r, "done") /\ UNCHANGED <<repeats, nextSweep>>
  <2>1. Moved(r) /\ requests'[r].step = "done"
    BY <1>2, GoToMoves DEF Steps
  <2>2. HandlerOK(r)' /\ (Holds(r)' <=> Holds(r))
    BY <1>1, <2>1 DEF HandlerOK, Holds, At, AfterClock
  <2> QED BY <1>1, <1>2, <2>1, <2>2, RepeatsStay, ReportsNow, QuietKeeps
<1>3. CASE /\ requests' = [requests EXCEPT ![r].step = "readClock", ![r].claimed = clock, ![r].remembered = Room]
           /\ repeats' = IF Room THEN [Swept EXCEPT ![KeyOf[r]] = clock + Window] ELSE Swept
           /\ nextSweep' = IF SweepDue THEN clock + Window ELSE nextSweep
  <2>1. Room \in BOOLEAN
    BY DEF Room
  <2>2. PICK room \in BOOLEAN :
          requests' = [requests EXCEPT ![r].step = "readClock", ![r].claimed = clock, ![r].remembered = room]
    BY <1>3, <2>1, Zenon
  <2> DEFINE answered == [requests[r] EXCEPT !.step = "readClock", !.claimed = clock, !.remembered = room]
  <2>3. requests' = [requests EXCEPT ![r] = answered]
    BY <2>2, TypesNow
  <2>4. answered \in Handler /\ answered.step = "readClock"
    BY TypesNow DEF Handler, Steps
  <2> HIDE DEF answered
  <2>5. Moved(r) /\ requests'[r].step = "readClock"
    BY <2>3, <2>4, TypesNow DEF Moved
  <2>6. HandlerOK(r)' /\ (Holds(r)' <=> Holds(r))
    BY <1>1, <2>5 DEF HandlerOK, Holds, At, AfterClock
  <2>7. RepeatsOK'
    BY <1>3, Constants, TypesNow, ClaimedOK DEF GateInv
  <2> QED BY <1>1, <2>5, <2>6, <2>7, ReportsNow, QuietKeeps
<1> QED BY <1>2, <1>3 DEF Claim

LEMMA ReadClockKeeps ==
  ASSUME GateInv, Cap # 0, NEW r \in Request, ReadClock(r)
  PROVE  GateInv' /\ Moved(r)
<1>1. requests[r].step = "readClock" /\ UNCHANGED <<clock, repeats, nextSweep, day, counts, entries, rows, reports, restarts, turnedBack, late>>
      /\ requests' = [requests EXCEPT ![r].today = Today, ![r].step = "look"]
  BY DEF ReadClock, At
<1>2. Moved(r) /\ requests'[r].step = "look" /\ requests'[r].today = Today
  BY <1>1, TypesNow DEF Moved, Handler, Steps
<1>3. HandlerOK(r)' /\ (Holds(r)' <=> Holds(r))
  BY <1>1, <1>2 DEF HandlerOK, Holds, At, Today
<1> QED BY <1>1, <1>2, <1>3, RepeatsStay, ReportsNow, QuietKeeps

(* What is read of the database is what there is of today.                   *)
LEMMA CountKeeps ==
  ASSUME GateInv, NEW r \in Request, Count(r)
  PROVE  GateInv' /\ Moved(r)
<1>1. requests[r].step = "count" /\ requests[r].today = Today /\ requests[r].entry = None
      /\ UNCHANGED <<clock, repeats, nextSweep, day, counts, entries, rows, reports, restarts, turnedBack, late>>
  BY DEF Count, At, GateInv, HandlerOK, AfterClock
<1>2. CASE GoTo(r, "release")
  <2>1. Moved(r) /\ requests'[r].step = "release" /\ requests'[r].entry = None /\ requests'[r].today = Today
    BY <1>1, <1>2, GoToMoves DEF Steps
  <2>2. HandlerOK(r)' /\ (Holds(r)' <=> Holds(r))
    BY <1>1, <2>1 DEF HandlerOK, Holds, At, Today
  <2> QED BY <1>1, <2>1, <2>2, RepeatsStay, ReportsNow, QuietKeeps
<1>3. CASE requests' = [requests EXCEPT
             ![r].read = Cardinality({row \in rows : Shop(row.by) = Shop(r) /\ row.day >= requests[r].today}),
             ![r].step = "install"]
  <2>1. {row \in rows : Shop(row.by) = Shop(r) /\ row.day >= requests[r].today} = Rows(Shop(r), Today)
    BY <1>1, TypesNow DEF GateInv, GateTypeOK, RowsOK, Rows
  <2> DEFINE n == Cardinality(Rows(Shop(r), Today))
  <2>2. n \in Nat
    BY RowsFinite DEF GateInv
  <2>3. requests' = [requests EXCEPT ![r].read = n, ![r].step = "install"]
    BY <1>3, <2>1
  <2> HIDE DEF n
  <2>4. Moved(r) /\ requests'[r].step = "install" /\ requests'[r].today = Today /\ requests'[r].read = n
    BY <1>1, <2>2, <2>3, TypesNow DEF Moved, Handler, Steps
  <2>5. Rows(Shop(r), Today)' = Rows(Shop(r), Today) /\ Today' = Today
    BY <1>1 DEF Rows, Today
  <2>6. HandlerOK(r)' /\ (Holds(r)' <=> Holds(r))
    BY <1>1, <2>4, <2>5 DEF HandlerOK, Holds, At, n
  <2> QED BY <1>1, <2>4, <2>6, RepeatsStay, ReportsNow, QuietKeeps
<1> QED BY <1>2, <1>3 DEF Count

LEMMA ReleaseKeeps ==
  ASSUME GateInv, NEW r \in Request, Release(r)
  PROVE  GateInv' /\ Moved(r)
<1>1. requests[r].step = "release" /\ requests[r].today = Today
      /\ UNCHANGED <<clock, nextSweep, day, counts, entries, rows, reports, restarts, turnedBack, late>>
      /\ repeats' = [repeats EXCEPT ![KeyOf[r]] = 0]
  BY DEF Release, At, GateInv, HandlerOK, AfterClock
<1>2. PICK step \in {"return", "done"} : GoTo(r, step) /\ (step = "return" <=> requests[r].entry # None)
  BY DEF Release
<1>3. Moved(r) /\ requests'[r].step = step /\ requests'[r].entry = requests[r].entry /\ requests'[r].today = Today
  BY <1>1, <1>2, GoToMoves DEF Steps
<1>4. Holds(r)' <=> Holds(r)
  BY <1>1, <1>2, <1>3 DEF Holds, At
<1>5. HandlerOK(r)'
  BY <1>1, <1>2, <1>3, <1>4 DEF GateInv, HandlerOK, At, Today, Open
<1>6. RepeatsOK'
  BY <1>1, Constants, ReleasedOK DEF GateInv
<1> QED BY <1>1, <1>3, <1>4, <1>5, <1>6, ReportsNow, QuietKeeps

LEMMA FailedInsertKeeps ==
  ASSUME GateInv, NEW r \in Request, At(r, "insert"), GoTo(r, "release"),
         UNCHANGED <<clock, repeats, nextSweep, day, counts, entries, rows, reports, restarts, turnedBack, late>>
  PROVE  GateInv' /\ Moved(r)
<1>1. requests[r].today = Today /\ requests[r].entry # None /\ Open(Shop(r)) /\ requests[r].entry = counts[Shop(r)]
  BY DEF GateInv, HandlerOK, Holds, At, AfterClock, Open
<1>2. Moved(r) /\ requests'[r].step = "release" /\ requests'[r].entry = requests[r].entry /\ requests'[r].today = Today
  BY <1>1, GoToMoves DEF Steps
<1>3. HandlerOK(r)' /\ (Holds(r)' <=> Holds(r))
  BY <1>1, <1>2 DEF HandlerOK, Holds, At, Today, Open
<1> QED BY <1>2, <1>3, RepeatsStay, ReportsNow, QuietKeeps DEF At

-----------------------------------------------------------------------------
(* Steps that change the counts.                                             *)

(* Whoever has an entry of today keeps it.                                   *)
EntriesStay == \A b \in Business : Open(b) => Open(b)' /\ counts'[b] = counts[b]

LEMMA OthersStillOK ==
  ASSUME GateInv, NEW r \in Request, Moved(r), EntriesStay, UNCHANGED <<clock, rows>>
  PROVE  \A p \in Request \ {r} : HandlerOK(p)'
<1>1. Today' = Today /\ \A b, d : Rows(b, d)' = Rows(b, d)
  BY DEF Today, Rows
<1>2. ASSUME NEW p \in Request \ {r} PROVE HandlerOK(p)'
  <2>1. requests'[p] = requests[p] /\ HandlerOK(p) /\ Shop(p) \in Business
    BY Constants DEF GateInv, Moved
  <2>2. Open(Shop(p)) => Open(Shop(p))' /\ counts'[Shop(p)] = counts[Shop(p)]
    BY <2>1 DEF EntriesStay
  <2> QED BY <1>1, <2>1, <2>2 DEF HandlerOK, Holds, At
<1> QED BY <1>2

LEMMA PlacesOfOthers ==
  ASSUME NEW r \in Request, Moved(r), NEW b
  PROVE  /\ b # Shop(r) \/ (Holds(r)' <=> Holds(r)) => Admitted(b)' = Admitted(b)
         /\ Holds(r)' /\ b = Shop(r) => Admitted(b)' = Admitted(b) \cup {r}
         /\ ~Holds(r)' /\ b = Shop(r) => Admitted(b)' = Admitted(b) \ {r}
         /\ b = Shop(r) => (r \in Admitted(b) <=> Holds(r))
<1>1. \A p \in Request \ {r} : Holds(p)' <=> Holds(p)
  BY DEF Moved, Holds, At
<1>2. Admitted(b) = {p \in Request : Shop(p) = b /\ Holds(p)}
      /\ Admitted(b)' = {p \in Request : Shop(p) = b /\ Holds(p)'}
  BY DEF Admitted, Holds
<1> QED BY <1>1, <1>2

LEMMA OnePlaceMore ==
  ASSUME NEW b, NEW r \in Request, r \notin Admitted(b), Admitted(b)' = Admitted(b) \cup {r}
  PROVE  Cardinality(Admitted(b))' = Cardinality(Admitted(b)) + 1
<1>1. IsFiniteSet(Admitted(b))
  BY AdmittedFinite
<1>2. Cardinality(Admitted(b) \cup {r}) = IF r \in Admitted(b) THEN Cardinality(Admitted(b)) ELSE Cardinality(Admitted(b)) + 1
  BY <1>1, FS_AddElement, Zenon
<1> QED BY <1>2

LEMMA OnePlaceLess ==
  ASSUME NEW b, NEW r \in Request, r \in Admitted(b), Admitted(b)' = Admitted(b) \ {r}
  PROVE  Cardinality(Admitted(b)) \in Nat /\ Cardinality(Admitted(b))' \in Nat
         /\ Cardinality(Admitted(b)) = Cardinality(Admitted(b))' + 1
<1>1. IsFiniteSet(Admitted(b)) /\ Cardinality(Admitted(b)) \in Nat
  BY AdmittedFinite
<1>2. IsFiniteSet(Admitted(b) \ {r})
      /\ Cardinality(Admitted(b) \ {r}) = IF r \in Admitted(b) THEN Cardinality(Admitted(b)) - 1 ELSE Cardinality(Admitted(b))
  BY <1>1, FS_RemoveElement, Zenon
<1>3. Cardinality(Admitted(b) \ {r}) \in Nat
  BY <1>2, FS_CardinalityType
<1> QED BY <1>1, <1>2, <1>3

LEMMA LookKeeps ==
  ASSUME GateInv, NEW r \in Request, Look(r)
  PROVE  GateInv' /\ Moved(r)
<1>1. requests[r].step = "look" /\ requests[r].today = Today /\ day' = Today /\ counts' = Rolled(Today)
      /\ UNCHANGED <<clock, repeats, nextSweep, entries, rows, reports, restarts, late>>
  BY DEF Look, At, GateInv, HandlerOK, AfterClock
<1>2. Today' = Today /\ \A b, d : Rows(b, d)' = Rows(b, d)
  BY <1>1 DEF Today, Rows
<1>3. counts' \in [Business -> Request \cup {None}] /\ day' \in Nat
      /\ \A b \in Business : counts'[b] = IF day = Today THEN counts[b] ELSE None
  BY <1>1, TypesNow DEF Rolled
<1>4. \A b \in Business : (Open(b)' <=> Open(b)) /\ (Open(b) => counts'[b] = counts[b]) /\ (counts'[b] # None => Open(b)')
  BY <1>1, <1>2, <1>3 DEF Open
<1>5. PICK step \in {"count", "admit"} :
        /\ requests' = [requests EXCEPT ![r].entry = counts'[Shop(r)], ![r].step = step]
        /\ step = "count" <=> counts'[Shop(r)] = None
  BY DEF Look
<1>6. Moved(r) /\ requests'[r].step = step /\ requests'[r].entry = counts'[Shop(r)] /\ requests'[r].today = Today
  <2>1. counts'[Shop(r)] \in Request \cup {None}
    BY <1>3, Constants
  <2> QED BY <1>1, <1>5, <2>1, TypesNow DEF Moved, Handler, Steps
<1>7. ~Holds(r) /\ ~Holds(r)'
  BY <1>1, <1>6 DEF Holds, At
<1>8. HandlerOK(r)'
  BY <1>2, <1>4, <1>5, <1>6, <1>7, Constants DEF HandlerOK, At
<1>9. \A p \in Request : HandlerOK(p)'
  BY <1>1, <1>4, <1>6, <1>8, OthersStillOK DEF EntriesStay
<1>10. \A b : Admitted(b)' = Admitted(b)
  BY <1>6, <1>7, PlacesOfOthers
<1>11. EntriesNamed'
  BY <1>1, <1>2, <1>3, <1>4, TypesNow DEF GateInv, EntriesNamed, Open
<1>12. EntriesCount'
  BY <1>1, <1>2, <1>4, <1>10 DEF GateInv, EntriesCount
<1>13. StoredWithinCap' /\ RowsOK'
  BY <1>1, <1>2, <1>6 DEF GateInv, GateTypeOK, StoredWithinCap, RowsOK, Moved
<1>14. GateTypeOK' /\ RepeatsOK'
  <2>1. turnedBack' \subseteq [life : 0..MaxRestarts, day : Nat]
    BY <1>1, TypesNow, RolledBackTyped DEF Look, GateInv, GateTypeOK
  <2> QED BY <1>1, <1>3, <1>6, <2>1 DEF GateInv, GateTypeOK, RepeatsOK, Remembered, Moved
<1> QED BY <1>6, <1>9, <1>11, <1>12, <1>13, <1>14 DEF GateInv

LEMMA InstallKeeps ==
  ASSUME GateInv, Cap # 0, NEW r \in Request, Install(r)
  PROVE  GateInv' /\ Moved(r)
<1> DEFINE s == Shop(r)
<1>1. requests[r].step = "install" /\ requests[r].today = Today /\ day' = Today /\ s \in Business
      /\ UNCHANGED <<clock, repeats, nextSweep, rows, reports, restarts, late>>
  BY Constants DEF Install, At, GateInv, HandlerOK, AfterClock
<1>2. Today' = Today /\ \A b, d : Rows(b, d)' = Rows(b, d)
  BY <1>1 DEF Today, Rows
<1>3. FirstReading(r) <=> ~Open(s)
  BY <1>1 DEF FirstReading, Rolled, Open
<1>4. /\ counts' \in [Business -> Request \cup {None}] /\ counts'[s] \in Request
      /\ \A b \in Business : counts'[b] = IF b = s /\ ~Open(s) THEN r ELSE IF day = Today THEN counts[b] ELSE None
  <2>1. Rolled(Today) \in [Business -> Request \cup {None}]
        /\ \A b \in Business : Rolled(Today)[b] = IF day = Today THEN counts[b] ELSE None
    BY TypesNow DEF Rolled
  <2>2. counts' = IF ~Open(s) THEN [Rolled(Today) EXCEPT ![s] = r] ELSE Rolled(Today)
    BY <1>1, <1>3 DEF Install
  <2> QED BY <1>1, <2>1, <2>2, TypesNow DEF Open
<1>5. \A b \in Business :
        /\ Open(b) => Open(b)' /\ counts'[b] = counts[b]
        /\ Open(b)' => Open(b) \/ (b = s /\ ~Open(s) /\ counts'[b] = r)
        /\ counts'[b] # None => Open(b)'
  BY <1>1, <1>2, <1>4 DEF Open
<1>6. Moved(r) /\ requests'[r].step = "admit" /\ requests'[r].entry = counts'[s] /\ requests'[r].today = Today
  <2>1. requests' = [requests EXCEPT ![r].entry = counts'[s], ![r].step = "admit"]
    BY DEF Install
  <2> QED BY <1>1, <1>4, <2>1, TypesNow DEF Moved, Handler, Steps
<1>7. entries' \in [Request -> Entry]
      /\ \A e \in Request : entries'[e] = IF e = r /\ ~Open(s) THEN [stored |-> requests[r].read, reported |-> FALSE] ELSE entries[e]
  <2>1. requests[r].read \in Nat
    BY TypesNow DEF Handler
  <2>2. entries' = IF ~Open(s) THEN [entries EXCEPT ![r] = [stored |-> requests[r].read, reported |-> FALSE]] ELSE entries
    BY <1>3 DEF Install
  <2> QED BY <2>1, <2>2, TypesNow DEF Entry
<1>8. ~Holds(r) /\ ~Holds(r)'
  BY <1>1, <1>6 DEF Holds, At
<1>9. HandlerOK(r)'
  BY <1>1, <1>2, <1>4, <1>5, <1>6, <1>8, Constants DEF HandlerOK, At, Open
<1>10. \A p \in Request : HandlerOK(p)'
  BY <1>1, <1>5, <1>6, <1>9, OthersStillOK DEF EntriesStay
<1>11. \A b : Admitted(b)' = Admitted(b)
  BY <1>6, <1>8, PlacesOfOthers
<1>12. EntriesNamed'
  BY <1>1, <1>2, <1>4, <1>5, TypesNow DEF GateInv, EntriesNamed, Open
<1>13. EntriesCount'
  <2> SUFFICES ASSUME NEW b \in Business, Open(b)'
      PROVE /\ entries'[counts'[b]].stored = Cardinality(Rows(b, Today)) + Cardinality(Admitted(b))
            /\ entries'[counts'[b]].stored <= Cap
    BY <1>2, <1>11 DEF EntriesCount
  <2>1. CASE Open(b)
    <3>1. counts'[b] = counts[b] /\ counts[b] \in Request /\ Shop(counts[b]) = b
      BY <1>5, <2>1 DEF GateInv, EntriesNamed, Open
    <3>2. ~(counts[b] = r /\ ~Open(s))
      BY <2>1, <3>1
    <3>3. entries'[counts'[b]] = entries[counts[b]]
      BY <1>7, <3>1, <3>2
    <3> QED BY <2>1, <3>3 DEF GateInv, EntriesCount
  <2>2. CASE b = s /\ ~Open(s) /\ counts'[b] = r
    <3>1. entries'[r].stored = Cardinality(Rows(s, Today))
      BY <1>1, <1>7, <2>2 DEF GateInv, HandlerOK, At
    <3>2. Cardinality(Admitted(s)) = 0
      BY <1>1, <2>2, ClosedHasNoPlaces, FS_EmptySet
    <3>3. Cardinality(Rows(s, Today)) \in Nat /\ Cardinality(Rows(s, Today)) <= Cap
      BY <1>1, RowsFinite, TypesNow DEF GateInv, StoredWithinCap
    <3> QED BY <2>2, <3>1, <3>2, <3>3
  <2> QED BY <1>5, <2>1, <2>2
<1>14. StoredWithinCap' /\ RowsOK'
  BY <1>1, <1>2, <1>6 DEF GateInv, GateTypeOK, StoredWithinCap, RowsOK, Moved
<1>15. GateTypeOK' /\ RepeatsOK'
  <2>1. turnedBack' \subseteq [life : 0..MaxRestarts, day : Nat]
    BY <1>1, TypesNow, RolledBackTyped DEF Install, GateInv, GateTypeOK
  <2> QED BY <1>1, <1>4, <1>6, <1>7, <2>1, TypesNow DEF GateInv, GateTypeOK, RepeatsOK, Remembered, Moved
<1> QED BY <1>6, <1>10, <1>12, <1>13, <1>14, <1>15 DEF GateInv

(* The step of a request that changes an entry, its own business's one.      *)
LEMMA AdmitKeeps ==
  ASSUME GateInv, Cap # 0, NEW r \in Request, Admit(r)
  PROVE  GateInv' /\ Moved(r)
<1> DEFINE s == Shop(r)
           e == requests[r].entry
<1>1. requests[r].step = "admit" /\ requests[r].today = Today /\ Open(s) /\ e = counts[s] /\ s \in Business
      /\ UNCHANGED <<clock, repeats, nextSweep, day, counts, rows, restarts, turnedBack, late>>
  BY Constants DEF Admit, At, GateInv, HandlerOK, AfterClock
<1>2. e \in Request /\ \A b \in Business : b # s => counts[b] # e
  BY <1>1, Constants DEF GateInv, EntriesNamed, Open
<1>3. Today' = Today /\ \A b, d : Rows(b, d)' = Rows(b, d)
  BY <1>1 DEF Today, Rows
<1>4. entries[e].stored \in Nat /\ entries[e].stored = Cardinality(Rows(s, Today)) + Cardinality(Admitted(s))
  BY <1>1, <1>2, TypesNow DEF GateInv, EntriesCount, Entry
<1>5. PICK step \in {"done", "insert"} : GoTo(r, step) /\ (step = "done" <=> Full(e))
  BY DEF Admit
<1>6. Moved(r) /\ requests'[r].step = step /\ requests'[r].entry = e /\ requests'[r].today = Today
  BY <1>1, <1>5, GoToMoves DEF Steps
<1>7. ~Holds(r) /\ (Holds(r)' <=> step = "insert")
  BY <1>1, <1>5, <1>6 DEF Holds, At
<1>8. /\ entries' \in [Request -> Entry]
      /\ \A q \in Request : entries'[q].stored = IF q = e /\ ~Full(e) THEN entries[q].stored + 1 ELSE entries[q].stored
  <2>1. CASE Full(e)
    <3>1. entries' = [entries EXCEPT ![e].reported = TRUE]
      BY <2>1 DEF Admit
    <3> QED BY <1>2, <2>1, <3>1, TypesNow DEF Entry
  <2>2. CASE ~Full(e)
    <3>1. entries' = [entries EXCEPT ![e].stored = @ + 1]
      BY <2>2 DEF Admit
    <3> QED BY <1>2, <1>4, <2>2, <3>1, TypesNow DEF Entry
  <2> QED BY <2>1, <2>2
<1>9. \A p \in Request : HandlerOK(p)'
  <2>1. HandlerOK(r)'
    BY <1>1, <1>3, <1>5, <1>6, <1>7 DEF HandlerOK, At, Open
  <2> QED BY <1>1, <1>6, <2>1, OthersOK
<1>10. EntriesCount'
  <2> SUFFICES ASSUME NEW b \in Business, Open(b)
      PROVE /\ entries'[counts[b]].stored = Cardinality(Rows(b, Today)) + Cardinality(Admitted(b))'
            /\ entries'[counts[b]].stored <= Cap
    BY <1>1, <1>3 DEF EntriesCount, Open
  <2>1. counts[b] \in Request /\ entries[counts[b]].stored = Cardinality(Rows(b, Today)) + Cardinality(Admitted(b))
        /\ entries[counts[b]].stored <= Cap
    BY DEF GateInv, EntriesCount, EntriesNamed, Open
  <2>2. CASE b = s /\ step = "insert"
    <3>1. Cardinality(Admitted(s))' = Cardinality(Admitted(s)) + 1
      BY <1>6, <1>7, <2>2, PlacesOfOthers, OnePlaceMore
    <3>2. entries'[e].stored = entries[e].stored + 1 /\ entries[e].stored < Cap
      BY <1>2, <1>4, <1>5, <1>8, <2>2, Constants DEF Full
    <3>3. Cardinality(Rows(s, Today)) \in Nat /\ Cardinality(Admitted(s)) \in Nat
      BY RowsFinite, AdmittedFinite DEF GateInv
    <3> QED BY <1>1, <1>4, <2>2, <3>1, <3>2, <3>3, Constants
  <2>3. CASE ~(b = s /\ step = "insert")
    <3>1. Admitted(b)' = Admitted(b)
      BY <1>5, <1>6, <1>7, <2>3, PlacesOfOthers
    <3>2. entries'[counts[b]].stored = entries[counts[b]].stored
      BY <1>2, <1>5, <1>8, <2>1, <2>3
    <3> QED BY <2>1, <3>1, <3>2
  <2> QED BY <2>2, <2>3
<1>11. EntriesNamed' /\ StoredWithinCap' /\ RowsOK'
  BY <1>1, <1>3, <1>6 DEF GateInv, GateTypeOK, EntriesNamed, StoredWithinCap, RowsOK, Moved
<1>12. reports' \subseteq [by : Request, day : Nat, life : 0..MaxRestarts]
  BY <1>1, TypesNow DEF Admit, GateInv, GateTypeOK
<1>13. GateTypeOK' /\ RepeatsOK'
  BY <1>1, <1>6, <1>8, <1>12, TypesNow DEF GateInv, GateTypeOK, RepeatsOK, Remembered, Moved
<1> QED BY <1>6, <1>9, <1>10, <1>11, <1>13 DEF GateInv

(* A row stored is a place given up.                                         *)
LEMMA InsertKeeps ==
  ASSUME GateInv, Cap # 0, NEW r \in Request, Insert(r)
  PROVE  GateInv' /\ Moved(r)
<1>1. CASE GoTo(r, "release") /\ UNCHANGED rows
  BY <1>1, FailedInsertKeeps DEF Insert
<1>2. CASE ~(GoTo(r, "release") /\ UNCHANGED rows)
  <2> DEFINE s == Shop(r)
             new == [by |-> r, claimed |-> requests[r].claimed, remembered |-> requests[r].remembered,
                     day |-> Today, life |-> restarts]
  <2>1. requests[r].step = "insert" /\ Open(s) /\ s \in Business
        /\ UNCHANGED <<clock, repeats, nextSweep, day, counts, entries, reports, restarts, turnedBack, late>>
        /\ rows' = rows \cup {new} /\ GoTo(r, "done")
    BY <1>2, Constants DEF Insert, At, GateInv, HandlerOK, Holds
  <2>2. new \in [by : Request, claimed : Nat, remembered : BOOLEAN, day : Nat, life : 0..MaxRestarts]
        /\ new.by = r /\ new.day = Today /\ new.life = restarts
    BY TypesNow DEF Handler
  <2> HIDE DEF new
  <2>3. new \notin rows
    BY <2>1, <2>2 DEF GateInv, RowsOK
  <2>4. Moved(r) /\ requests'[r].step = "done"
    BY <2>1, GoToMoves DEF Steps
  <2>5. Holds(r) /\ ~Holds(r)'
    BY <2>1, <2>4 DEF Holds, At
  <2>6. Today' = Today
    BY <2>1 DEF Today
  <2>7. \A b, d : Rows(b, d)' = IF b = s /\ d = Today THEN Rows(b, d) \cup {new} ELSE Rows(b, d)
    BY <2>1, <2>2 DEF Rows
  <2>8. Cardinality(Rows(s, Today))' = Cardinality(Rows(s, Today)) + 1 /\ Cardinality(Rows(s, Today)) \in Nat
    <3>1. IsFiniteSet(Rows(s, Today)) /\ Cardinality(Rows(s, Today)) \in Nat
      BY RowsFinite DEF GateInv
    <3>2. Cardinality(Rows(s, Today) \cup {new})
            = IF new \in Rows(s, Today) THEN Cardinality(Rows(s, Today)) ELSE Cardinality(Rows(s, Today)) + 1
      BY <3>1, FS_AddElement, Zenon
    <3>3. new \notin Rows(s, Today)
      BY <2>3 DEF Rows
    <3> QED BY <2>6, <2>7, <3>1, <3>2, <3>3
  <2>9. Cardinality(Admitted(s)) \in Nat /\ Cardinality(Admitted(s))' \in Nat
        /\ Cardinality(Admitted(s)) = Cardinality(Admitted(s))' + 1
    BY <2>4, <2>5, PlacesOfOthers, OnePlaceLess
  <2>10. entries[counts[s]].stored = Cardinality(Rows(s, Today)) + Cardinality(Admitted(s)) /\ entries[counts[s]].stored <= Cap
    BY <2>1 DEF GateInv, EntriesCount
  <2>11. \A b \in Business : b # s => Rows(b, Today)' = Rows(b, Today) /\ Admitted(b)' = Admitted(b)
    BY <2>4, <2>6, <2>7, PlacesOfOthers
  <2>12. EntriesCount'
    <3> SUFFICES ASSUME NEW b \in Business, Open(b)
        PROVE /\ entries[counts[b]].stored = Cardinality(Rows(b, Today))' + Cardinality(Admitted(b))'
              /\ entries[counts[b]].stored <= Cap
      BY <2>1, <2>6 DEF EntriesCount, Open
    <3>1. CASE b = s
      BY <2>8, <2>9, <2>10, <3>1
    <3>2. CASE b # s
      BY <2>11, <3>2 DEF GateInv, EntriesCount
    <3> QED BY <3>1, <3>2
  <2>13. StoredWithinCap'
    <3> SUFFICES ASSUME NEW b \in Business, NEW d \in 0..Today PROVE Cardinality(Rows(b, d)') <= Cap
      BY <2>6 DEF StoredWithinCap
    <3>1. CASE b = s /\ d = Today
      BY <2>6, <2>8, <2>9, <2>10, <3>1, Constants
    <3>2. CASE ~(b = s /\ d = Today)
      BY <2>7, <3>2 DEF GateInv, StoredWithinCap
    <3> QED BY <3>1, <3>2
  <2>14. \A p \in Request : HandlerOK(p)'
    <3>1. HandlerOK(r)'
      BY <2>4, <2>5 DEF HandlerOK, At, AfterClock
    <3>2. ASSUME NEW p \in Request \ {r} PROVE HandlerOK(p)'
      <4>1. requests'[p] = requests[p] /\ HandlerOK(p) /\ Shop(p) \in Business
        BY <2>4, Constants DEF GateInv, Moved
      <4>2. (Open(Shop(p))' <=> Open(Shop(p))) /\ (~Open(Shop(p)) => Rows(Shop(p), Today)' = Rows(Shop(p), Today))
        BY <2>1, <2>6, <2>11, <4>1 DEF Open
      <4> QED BY <2>1, <2>6, <4>1, <4>2 DEF HandlerOK, Holds, At
    <3> QED BY <3>1, <3>2
  <2>15. EntriesNamed'
    BY <2>1, <2>6 DEF GateInv, EntriesNamed
  <2>16. RowsOK'
    <3>1. IsFiniteSet(rows')
      BY <2>1, FS_AddElement DEF GateInv, RowsOK
    <3>2. \A row \in rows : row.by \in Request /\ requests[row.by].step = "done" /\ row.day <= Today /\ row.life <= restarts
      BY DEF GateInv, GateTypeOK, RowsOK
    <3>3. ASSUME NEW row \in rows' PROVE row.day <= Today' /\ row.life <= restarts' /\ requests'[row.by].step = "done"
      <4>1. CASE row \in rows
        BY <2>1, <2>4, <2>6, <3>2, <4>1 DEF Moved
      <4>2. CASE row = new
        BY <2>1, <2>2, <2>4, <2>6, <4>2, TypesNow
      <4> QED BY <2>1, <3>3, <4>1, <4>2
    <3> QED BY <3>1, <3>3 DEF RowsOK
  <2>17. GateTypeOK' /\ RepeatsOK'
    BY <2>1, <2>2, <2>4 DEF GateInv, GateTypeOK, RepeatsOK, Remembered, Moved
  <2> QED BY <2>4, <2>12, <2>13, <2>14, <2>15, <2>16, <2>17 DEF GateInv
<1> QED BY <1>1, <1>2

LEMMA ReturnKeeps ==
  ASSUME GateInv, NEW r \in Request, Return(r)
  PROVE  GateInv' /\ Moved(r)
<1> DEFINE s == Shop(r)
           e == counts[s]
<1>1. requests[r].step = "return" /\ Open(s) /\ s \in Business /\ e # None /\ e \in Request
      /\ UNCHANGED <<clock, repeats, nextSweep, day, counts, rows, reports, restarts, turnedBack, late>> /\ GoTo(r, "done")
  BY Constants DEF Return, At, GateInv, HandlerOK, Holds, EntriesNamed, Open
<1>2. \A b \in Business : b # s => counts[b] # e
  BY <1>1, Constants DEF GateInv, EntriesNamed
<1>3. Today' = Today /\ \A b, d : Rows(b, d)' = Rows(b, d)
  BY <1>1 DEF Today, Rows
<1>4. Moved(r) /\ requests'[r].step = "done"
  BY <1>1, GoToMoves DEF Steps
<1>5. Holds(r) /\ ~Holds(r)'
  BY <1>1, <1>4 DEF Holds, At
<1>6. Cardinality(Admitted(s)) \in Nat /\ Cardinality(Admitted(s))' \in Nat
      /\ Cardinality(Admitted(s)) = Cardinality(Admitted(s))' + 1
  BY <1>4, <1>5, PlacesOfOthers, OnePlaceLess
<1>7. entries[e].stored = Cardinality(Rows(s, Today)) + Cardinality(Admitted(s)) /\ entries[e].stored <= Cap
      /\ Cardinality(Rows(s, Today)) \in Nat
  BY <1>1, RowsFinite DEF GateInv, EntriesCount
<1>8. entries' = [entries EXCEPT ![e].stored = @ - 1]
  BY <1>1, <1>6, <1>7 DEF Return
<1>9. /\ entries' \in [Request -> Entry]
      /\ \A q \in Request : entries'[q].stored = IF q = e THEN entries[q].stored - 1 ELSE entries[q].stored
  <2>1. entries[e].stored - 1 \in Nat
    BY <1>6, <1>7
  <2> QED BY <1>1, <1>8, <2>1, TypesNow DEF Entry
<1>10. \A p \in Request : HandlerOK(p)'
  <2>1. HandlerOK(r)'
    BY <1>4, <1>5 DEF HandlerOK, At, AfterClock
  <2> QED BY <1>1, <1>4, <2>1, OthersOK
<1>11. EntriesCount'
  <2> SUFFICES ASSUME NEW b \in Business, Open(b)
      PROVE /\ entries'[counts[b]].stored = Cardinality(Rows(b, Today)) + Cardinality(Admitted(b))'
            /\ entries'[counts[b]].stored <= Cap
    BY <1>1, <1>3 DEF EntriesCount, Open
  <2>1. CASE b = s
    BY <1>1, <1>6, <1>7, <1>9, <2>1, Constants
  <2>2. CASE b # s
    <3>1. Admitted(b)' = Admitted(b)
      BY <1>4, <2>2, PlacesOfOthers
    <3>2. counts[b] \in Request /\ entries'[counts[b]].stored = entries[counts[b]].stored
      BY <1>2, <1>9, <2>2 DEF GateInv, EntriesNamed, Open
    <3> QED BY <3>1, <3>2 DEF GateInv, EntriesCount
  <2> QED BY <2>1, <2>2
<1>12. EntriesNamed' /\ StoredWithinCap' /\ RowsOK'
  BY <1>1, <1>3, <1>4 DEF GateInv, GateTypeOK, EntriesNamed, StoredWithinCap, RowsOK, Moved
<1>13. GateTypeOK' /\ RepeatsOK'
  BY <1>1, <1>4, <1>9, TypesNow DEF GateInv, GateTypeOK, RepeatsOK, Remembered, Moved
<1> QED BY <1>4, <1>10, <1>11, <1>12, <1>13 DEF GateInv

-----------------------------------------------------------------------------
(* Time and restarts.                                                        *)

LEMMA NobodyHolds ==
  ASSUME InFlight = {}, NEW b PROVE Admitted(b) = {} /\ Cardinality(Admitted(b)) = 0
<1>1. \A r \in Request : At(r, "idle") \/ At(r, "done")
  BY DEF InFlight
<1>2. Admitted(b) = {}
  BY <1>1 DEF Admitted, At
<1> QED BY <1>2, FS_EmptySet

(* As long as no request is late, a new day finds nobody on the way.         *)
LEMMA NobodyOutlives ==
  ASSUME Tick, ~late'
  PROVE  /\ Today' # Today => InFlight = {}
         /\ \A r \in InFlight : ~(clock + 1 >= requests[r].claimed + Window)
<1>1. Outlived = {} /\ clock' = clock + 1
  BY DEF Tick
<1> QED BY <1>1 DEF Outlived, Today

LEMMA TickKeeps ==
  ASSUME GateInv, ~late', Tick
  PROVE  GateInv'
<1>1. clock \in Nat /\ clock' = clock + 1 /\ Today \in Nat /\ late' \in BOOLEAN
      /\ UNCHANGED <<repeats, nextSweep, day, counts, entries, rows, reports, requests, restarts, turnedBack>>
  BY TypesNow DEF Tick
<1>2. Today' \in Nat /\ Today <= Today'
  BY <1>1, Constants, DaysGoOn, DayIsNat DEF Today
<1>3. GateTypeOK' /\ RepeatsOK'
  BY <1>1 DEF GateInv, GateTypeOK, RepeatsOK, Remembered
<1>4. RowsOK'
  <2>1. \A row \in rows : row.day \in Nat
    BY DEF GateInv, GateTypeOK
  <2> QED BY <1>1, <1>2, <2>1 DEF GateInv, RowsOK
<1>5. EntriesNamed'
  BY <1>1, <1>2 DEF GateInv, EntriesNamed
<1>6. \A b : Admitted(b)' = Admitted(b)
  BY <1>1 DEF Admitted, At
<1>7. \A b, d : Rows(b, d)' = Rows(b, d)
  BY <1>1 DEF Rows
<1>8. CASE Today' = Today
  <2>1. \A p \in Request : HandlerOK(p)'
    BY <1>1, <1>7, <1>8 DEF GateInv, HandlerOK, Holds, At, Open
  <2>2. EntriesCount' /\ StoredWithinCap'
    BY <1>1, <1>6, <1>7, <1>8 DEF GateInv, EntriesCount, Open, StoredWithinCap
  <2> QED BY <1>3, <1>4, <1>5, <2>1, <2>2 DEF GateInv
<1>9. CASE Today' # Today
  <2>1. InFlight = {}
    BY <1>9, NobodyOutlives
  <2>2. \A p \in Request : HandlerOK(p)'
    BY <1>1, <2>1 DEF InFlight, HandlerOK, Holds, At, AfterClock
  <2>3. EntriesCount'
    <3>1. \A b \in Business : ~Open(b)'
      BY <1>1, <1>2, <1>9 DEF GateInv, EntriesNamed, Open
    <3> QED BY <3>1 DEF EntriesCount
  <2>4. StoredWithinCap'
    <3> SUFFICES ASSUME Cap # 0, NEW b \in Business, NEW d \in 0..Today' PROVE Cardinality(Rows(b, d)') <= Cap
      BY DEF StoredWithinCap
    <3>1. CASE d \in 0..Today
      BY <1>7, <3>1 DEF GateInv, StoredWithinCap
    <3>2. CASE d \notin 0..Today
      <4>1. Rows(b, d) = {}
        BY <1>1, <1>2, <3>2 DEF GateInv, GateTypeOK, RowsOK, Rows
      <4> QED BY <1>7, <4>1, FS_EmptySet, Constants
    <3> QED BY <3>1, <3>2
  <2> QED BY <1>3, <1>4, <1>5, <2>2, <2>3, <2>4 DEF GateInv
<1> QED BY <1>8, <1>9

LEMMA RestartKeeps ==
  ASSUME GateInv, Restart
  PROVE  GateInv'
<1>1. restarts' = restarts + 1 /\ restarts' \in 0..MaxRestarts /\ day' = None /\ nextSweep' = 0
      /\ counts' = [b \in Business |-> None] /\ repeats' = [k \in Key |-> 0]
      /\ UNCHANGED <<clock, entries, rows, reports, turnedBack, late>>
  <2>1. restarts < MaxRestarts /\ restarts' = restarts + 1 /\ day' = None /\ nextSweep' = 0
        /\ counts' = [b \in Business |-> None] /\ repeats' = [k \in Key |-> 0]
        /\ UNCHANGED <<clock, entries, rows, reports, turnedBack, late>>
    BY Zenon DEF Restart
  <2> QED BY <2>1, TypesNow, Constants
<1>2. requests' \in [Request -> Handler]
      /\ \A p \in Request : requests'[p].step \in {"idle", "done"} /\ (requests[p].step = "done" => requests'[p].step = "done")
  BY TypesNow DEF Restart, InFlight, At, Handler, Steps
<1>3. Today' = Today /\ \A b, d : Rows(b, d)' = Rows(b, d)
  BY <1>1 DEF Today, Rows
<1>4. RepeatsOK'
  BY <1>1, ForgottenOK
<1>5. GateTypeOK'
  <2>1. counts' \in [Business -> Request \cup {None}]
    BY <1>1
  <2> QED BY <1>1, <1>2, <1>4, <2>1 DEF GateInv, GateTypeOK, RepeatsOK, Remembered
<1>6. RowsOK'
  BY <1>1, <1>2, <1>3, TypesNow DEF GateInv, GateTypeOK, RowsOK
<1>7. \A p \in Request : HandlerOK(p)'
  BY <1>2 DEF HandlerOK, Holds, At, AfterClock
<1>8. EntriesNamed' /\ EntriesCount'
  BY <1>1 DEF EntriesNamed, EntriesCount, Open
<1>9. StoredWithinCap'
  BY <1>3 DEF GateInv, StoredWithinCap
<1> QED BY <1>4, <1>5, <1>6, <1>7, <1>8, <1>9 DEF GateInv

LEMMA GateStutters == ASSUME GateInv, UNCHANGED gateVars PROVE GateInv'
  BY DEF gateVars, GateInv, GateTypeOK, RepeatsOK, Remembered, RowsOK, HandlerOK, Holds, At, Open, Today, Rows,
         Admitted, EntriesNamed, EntriesCount, StoredWithinCap

LEMMA HandleKeeps ==
  ASSUME GateInv, Cap # 0, NEW r \in Request, Handle(r)
  PROVE  GateInv' /\ Moved(r)
  BY ClaimKeeps, ReadClockKeeps, LookKeeps, CountKeeps, InstallKeeps, AdmitKeeps, InsertKeeps, ReleaseKeeps, ReturnKeeps
  DEF Handle

LEMMA GateInvStep ==
  ASSUME Cap # 0
  PROVE  GateInv /\ ~late' /\ [GateNext]_gateVars => GateInv'
  BY HandleKeeps, TickKeeps, RestartKeeps, GateStutters DEF GateNext, Finished

LEMMA StaysLate == late /\ [GateNext]_gateVars => late'
<1> SUFFICES ASSUME late, [GateNext]_gateVars PROVE late'
  OBVIOUS
<1>1. CASE \E r \in Request : Handle(r)
  BY <1>1 DEF Handle, Claim, ReadClock, Look, Count, Install, Admit, Insert, Release, Return
<1>2. CASE Tick \/ Restart \/ UNCHANGED gateVars
  BY <1>2 DEF Tick, Restart, gateVars
<1> QED BY <1>1, <1>2 DEF GateNext, Finished

(* Until a request is late the invariant holds.                              *)
LEMMA GateInvAlways ==
  ASSUME Cap # 0
  PROVE  GateSpec => [](late \/ GateInv)
<1>1. (late \/ GateInv) /\ [GateNext]_gateVars => (late \/ GateInv)'
  BY GateInvStep, StaysLate
<1> QED BY <1>1, GateInvInit, PTL DEF GateSpec
-----------------------------------------------------------------------------
(* The gate implements the daily allowance.                                  *)

CountAlways == GateInv /\ CountIsRowsAndAdmitted

StoredToday(b) == Cardinality(Rows(b, Today))

LEMMA UsedIsStoredAndHeld ==
  ASSUME CountAlways, NEW b \in Business
  PROVE  /\ Used(b) = StoredToday(b) + Cardinality(Admitted(b))
         /\ StoredToday(b) \in Nat /\ Cardinality(Admitted(b)) \in Nat
  BY RowsFinite, AdmittedFinite DEF CountAlways, CountIsRowsAndAdmitted, GateInv, StoredToday

LEMMA UsedIsStoredAndHeldNext ==
  ASSUME CountAlways', NEW b \in Business
  PROVE  /\ Used(b)' = StoredToday(b)' + Cardinality(Admitted(b))'
         /\ StoredToday(b)' \in Nat /\ Cardinality(Admitted(b))' \in Nat
<1>1. RowsOK' /\ Used(b)' = StoredToday(b)' + Cardinality(Admitted(b))'
  BY DEF CountAlways, CountIsRowsAndAdmitted, GateInv, StoredToday
<1>2. Rows(b, Today)' \subseteq rows' /\ Admitted(b)' \subseteq Request
  BY DEF Rows, Admitted
<1> QED BY <1>1, <1>2, Constants, FS_Subset, FS_CardinalityType DEF RowsOK, StoredToday

(* Nothing stored, no place taken or given up.                               *)
LEMMA SameCountsStutter ==
  ASSUME CountAlways, CountAlways',
         \A b \in Business : StoredToday(b)' = StoredToday(b) /\ Cardinality(Admitted(b))' = Cardinality(Admitted(b))
  PROVE  UNCHANGED Allowance!allowanceVars
<1>1. \A b \in Business : Used(b)' = Used(b) /\ Cardinality(Rows(b, Today))' = Cardinality(Rows(b, Today))
  BY UsedIsStoredAndHeld, UsedIsStoredAndHeldNext DEF StoredToday
<1> QED BY <1>1 DEF Allowance!allowanceVars

LEMMA SameRows ==
  ASSUME UNCHANGED <<clock, rows>> PROVE Today' = Today /\ \A b : StoredToday(b)' = StoredToday(b)
  BY DEF StoredToday, Rows, Today

LEMMA QuietStutters ==
  ASSUME CountAlways, CountAlways', NEW r \in Request, Moved(r), UNCHANGED <<clock, rows>>,
         Holds(r)' <=> Holds(r)
  PROVE  UNCHANGED Allowance!allowanceVars
<1>1. \A b : Admitted(b)' = Admitted(b)
  BY PlacesOfOthers
<1> QED BY <1>1, SameRows, SameCountsStutter

(* What one place more or less, or one row more, is to the allowance.        *)
LEMMA UsedOf ==
  ASSUME NEW s \in Business, NEW n,
         \A b \in Business : Used(b)' = IF b = s THEN n ELSE Used(b)
  PROVE  [b \in Business |-> Used(b)]' = [[b \in Business |-> Used(b)] EXCEPT ![s] = n]
  OBVIOUS

LEMMA StoredOf ==
  ASSUME NEW s \in Business, NEW n,
         \A b \in Business : StoredToday(b)' = IF b = s THEN n ELSE StoredToday(b)
  PROVE  [b \in Business |-> Cardinality(Rows(b, Today))]'
           = [[b \in Business |-> Cardinality(Rows(b, Today))] EXCEPT ![s] = n]
  BY DEF StoredToday

LEMMA AdmitTakes ==
  ASSUME CountAlways, CountAlways', Cap # 0, NEW r \in Request, Moved(r), Admit(r)
  PROVE  UNCHANGED Allowance!allowanceVars \/ Allowance!Take(Shop(r))
<1> DEFINE s == Shop(r)
           e == requests[r].entry
<1>1. requests[r].step = "admit" /\ Open(s) /\ e = counts[s] /\ s \in Business /\ UNCHANGED <<clock, rows>>
  BY Constants DEF Admit, At, CountAlways, GateInv, HandlerOK
<1>2. ~Holds(r)
  BY <1>1 DEF Holds, At
<1>3. CASE Full(e)
  <2>1. requests' = [requests EXCEPT ![r].step = "done"]
    BY <1>3 DEF Admit, GoTo
  <2>2. ~Holds(r)'
    BY <2>1, TypesNow DEF Holds, At, CountAlways
  <2> QED BY <1>1, <1>2, <2>2, QuietStutters
<1>4. CASE ~Full(e)
  <2>1. requests' = [requests EXCEPT ![r].step = "insert"]
    BY <1>4 DEF Admit, GoTo
  <2>2. Holds(r)'
    BY <2>1, TypesNow DEF Holds, At, CountAlways
  <2>3. Used(s) < Cap
    <3>1. counts[s] \in Request
      BY <1>1 DEF CountAlways, GateInv, EntriesNamed, Open
    <3> QED BY <1>1, <1>4, <3>1, Constants, TypesNow DEF CountAlways, Used, Open, Full, Entry
  <2>4. Cardinality(Admitted(s))' = Cardinality(Admitted(s)) + 1
    BY <1>2, <2>2, PlacesOfOthers, OnePlaceMore
  <2>5. \A b \in Business : StoredToday(b)' = StoredToday(b) /\ (b # s => Admitted(b)' = Admitted(b))
    BY <1>1, SameRows, PlacesOfOthers
  <2>6. \A b \in Business : Used(b)' = IF b = s THEN Used(s) + 1 ELSE Used(b)
    BY <1>1, <2>4, <2>5, UsedIsStoredAndHeld, UsedIsStoredAndHeldNext
  <2>7. [b \in Business |-> Used(b)]' = [[b \in Business |-> Used(b)] EXCEPT ![s] = Used(s) + 1]
    BY <1>1, <2>6, UsedOf
  <2>8. [b \in Business |-> Cardinality(Rows(b, Today))]' = [b \in Business |-> Cardinality(Rows(b, Today))]
    BY <2>5 DEF StoredToday
  <2> QED BY <1>1, <2>3, <2>7, <2>8 DEF Allowance!Take
<1> QED BY <1>3, <1>4

LEMMA InsertStores ==
  ASSUME CountAlways, CountAlways', NEW r \in Request, Moved(r), Insert(r)
  PROVE  UNCHANGED Allowance!allowanceVars \/ Allowance!Store(Shop(r))
<1> DEFINE s == Shop(r)
<1>1. requests[r].step = "insert" /\ requests[r].entry # None /\ s \in Business /\ UNCHANGED clock /\ Holds(r)
  BY Constants DEF Insert, At, CountAlways, GateInv, HandlerOK, Open, Holds
<1>2. CASE GoTo(r, "release") /\ UNCHANGED rows
  <2>1. Holds(r)'
    BY <1>1, <1>2, GoToMoves DEF Holds, At, CountAlways, Steps
  <2> QED BY <1>1, <1>2, <2>1, QuietStutters
<1>3. CASE ~(GoTo(r, "release") /\ UNCHANGED rows)
  <2> DEFINE new == [by |-> r, claimed |-> requests[r].claimed, remembered |-> requests[r].remembered,
                     day |-> Today, life |-> restarts]
  <2>1. rows' = rows \cup {new} /\ GoTo(r, "done")
    BY <1>3 DEF Insert
  <2>2. new.by = r /\ new.day = Today
    OBVIOUS
  <2> HIDE DEF new
  <2>3. new \notin rows
    BY <1>1, <2>2 DEF CountAlways, GateInv, RowsOK
  <2>4. ~Holds(r)'
    BY <2>1, GoToMoves DEF Holds, At, CountAlways, Steps
  <2>5. \A b \in Business : Rows(b, Today)' = IF b = s THEN Rows(b, Today) \cup {new} ELSE Rows(b, Today)
    BY <1>1, <2>1, <2>2 DEF Rows, Today
  <2>6. StoredToday(s)' = StoredToday(s) + 1
    <3>1. IsFiniteSet(Rows(s, Today)) /\ new \notin Rows(s, Today)
      BY <2>3, RowsFinite DEF CountAlways, GateInv, Rows
    <3>2. Cardinality(Rows(s, Today) \cup {new})
            = IF new \in Rows(s, Today) THEN Cardinality(Rows(s, Today)) ELSE Cardinality(Rows(s, Today)) + 1
      BY <3>1, FS_AddElement, Zenon
    <3> QED BY <1>1, <2>5, <3>1, <3>2 DEF StoredToday
  <2>7. Cardinality(Admitted(s)) = Cardinality(Admitted(s))' + 1
    BY <1>1, <2>4, PlacesOfOthers, OnePlaceLess
  <2>8. \A b \in Business : b # s => Admitted(b)' = Admitted(b) /\ StoredToday(b)' = StoredToday(b)
    BY <2>5, PlacesOfOthers DEF StoredToday
  <2>9. \A b \in Business : Used(b)' = Used(b)
    BY <1>1, <2>6, <2>7, <2>8, UsedIsStoredAndHeld, UsedIsStoredAndHeldNext
  <2>10. StoredToday(s) < Used(s)
    BY <1>1, <2>7, UsedIsStoredAndHeld, UsedIsStoredAndHeldNext
  <2>11. [b \in Business |-> Cardinality(Rows(b, Today))]'
           = [[b \in Business |-> Cardinality(Rows(b, Today))] EXCEPT ![s] = StoredToday(s) + 1]
    BY <1>1, <2>6, <2>8, StoredOf
  <2> QED BY <1>1, <2>9, <2>10, <2>11 DEF Allowance!Store, StoredToday
<1> QED BY <1>2, <1>3

LEMMA ReturnGivesBack ==
  ASSUME CountAlways, CountAlways', NEW r \in Request, Moved(r), Return(r)
  PROVE  Allowance!GiveBack(Shop(r))
<1> DEFINE s == Shop(r)
<1>1. requests[r].step = "return" /\ s \in Business /\ UNCHANGED <<clock, rows>> /\ GoTo(r, "done") /\ Holds(r)
  BY Constants DEF Return, At, Holds
<1>2. ~Holds(r)'
  BY <1>1, GoToMoves DEF Holds, At, CountAlways, Steps
<1>3. Cardinality(Admitted(s)) = Cardinality(Admitted(s))' + 1
  BY <1>1, <1>2, PlacesOfOthers, OnePlaceLess
<1>4. \A b \in Business : StoredToday(b)' = StoredToday(b) /\ (b # s => Admitted(b)' = Admitted(b))
  BY <1>1, SameRows, PlacesOfOthers
<1>5. \A b \in Business : Used(b)' = IF b = s THEN Used(s) - 1 ELSE Used(b)
  BY <1>1, <1>3, <1>4, UsedIsStoredAndHeld, UsedIsStoredAndHeldNext
<1>6. StoredToday(s) < Used(s)
  BY <1>1, <1>3, UsedIsStoredAndHeld, UsedIsStoredAndHeldNext
<1>7. [b \in Business |-> Used(b)]' = [[b \in Business |-> Used(b)] EXCEPT ![s] = Used(s) - 1]
  BY <1>1, <1>5, UsedOf
<1>8. [b \in Business |-> Cardinality(Rows(b, Today))]' = [b \in Business |-> Cardinality(Rows(b, Today))]
  BY <1>4 DEF StoredToday
<1> QED BY <1>1, <1>6, <1>7, <1>8 DEF Allowance!GiveBack, StoredToday

LEMMA HandleImplements ==
  ASSUME CountAlways, CountAlways', Cap # 0, NEW r \in Request, Handle(r)
  PROVE  UNCHANGED Allowance!allowanceVars \/ Allowance!Take(Shop(r)) \/ Allowance!Store(Shop(r)) \/ Allowance!GiveBack(Shop(r))
<1>1. Moved(r) /\ requests \in [Request -> Handler]
  BY HandleKeeps, TypesNow DEF CountAlways
<1>2. CASE Claim(r) \/ ReadClock(r) \/ Look(r) \/ Install(r)
  <2>1. UNCHANGED <<clock, rows>> /\ ~Holds(r)
    BY <1>2 DEF Claim, ReadClock, Look, Install, Holds, At
  <2>2. requests'[r].step \in {"done", "readClock", "look", "count", "admit"}
    <3>1. CASE Claim(r)
      <4>1. CASE GoTo(r, "done")
        BY <1>1, <4>1 DEF GoTo
      <4>2. CASE requests' = [requests EXCEPT ![r].step = "readClock", ![r].claimed = clock, ![r].remembered = Room]
        <5> HIDE DEF Room
        <5> QED BY <1>1, <4>2
      <4> QED BY <3>1, <4>1, <4>2 DEF Claim
    <3>2. CASE ReadClock(r)
      BY <1>1, <3>2 DEF ReadClock
    <3>3. CASE Look(r)
      BY <1>1, <3>3 DEF Look
    <3>4. CASE Install(r)
      BY <1>1, <3>4 DEF Install
    <3> QED BY <1>2, <3>1, <3>2, <3>3, <3>4
  <2>3. ~Holds(r)'
    BY <2>2 DEF Holds, At
  <2> QED BY <1>1, <2>1, <2>3, QuietStutters
<1>3. CASE Count(r)
  <2>1. UNCHANGED <<clock, rows>> /\ ~Holds(r) /\ requests[r].entry = None
    BY <1>3 DEF Count, Holds, At, CountAlways, GateInv, HandlerOK
  <2>2. requests'[r].step \in {"install", "release"} /\ requests'[r].entry = None
    BY <1>1, <1>3, <2>1 DEF Count, GoTo, Handler
  <2>3. ~Holds(r)'
    BY <2>2 DEF Holds, At
  <2> QED BY <1>1, <2>1, <2>3, QuietStutters
<1>4. CASE Release(r)
  <2>1. UNCHANGED <<clock, rows>> /\ (Holds(r) <=> requests[r].entry # None)
    BY <1>4 DEF Release, Holds, At
  <2>2. requests'[r].step = IF requests[r].entry # None THEN "return" ELSE "done"
    BY <1>1, <1>4 DEF Release, GoTo, Handler
  <2>3. Holds(r)' <=> Holds(r)
    BY <2>1, <2>2 DEF Holds, At
  <2> QED BY <1>1, <2>1, <2>3, QuietStutters
<1> QED BY <1>1, <1>2, <1>3, <1>4, AdmitTakes, InsertStores, ReturnGivesBack DEF Handle

LEMMA TickImplements ==
  ASSUME CountAlways, CountAlways', ~late', Tick
  PROVE  UNCHANGED Allowance!allowanceVars \/ Allowance!NewDay
<1>1. UNCHANGED <<rows, requests>> /\ clock \in Nat /\ clock' = clock + 1 /\ Today \in Nat
  BY TypesNow DEF Tick, CountAlways
<1>2. Today' \in Nat /\ Today <= Today'
  BY <1>1, Constants, DaysGoOn, DayIsNat DEF Today
<1>3. CASE Today' = Today
  <2>1. \A b : StoredToday(b)' = StoredToday(b) /\ Admitted(b)' = Admitted(b)
    BY <1>1, <1>3 DEF StoredToday, Rows, Admitted, At
  <2> QED BY <2>1, SameCountsStutter
<1>4. CASE Today' # Today
  <2>1. InFlight = {}
    BY <1>4, NobodyOutlives
  <2>2. \A b : Cardinality(Admitted(b))' = 0
    <3>1. \A b : Admitted(b)' = Admitted(b)
      BY <1>1 DEF Admitted, At
    <3> QED BY <2>1, <3>1, NobodyHolds
  <2>3. \A row \in rows : row.day # Today'
    BY <1>1, <1>2, <1>4 DEF CountAlways, GateInv, GateTypeOK, RowsOK
  <2>4. \A b : Rows(b, Today)' = {}
    BY <1>1, <2>3 DEF Rows
  <2>5. \A b \in Business : StoredToday(b)' = 0 /\ Used(b)' = 0
    BY <2>2, <2>4, FS_EmptySet, UsedIsStoredAndHeldNext DEF StoredToday
  <2> QED BY <2>5 DEF Allowance!NewDay, StoredToday
<1> QED BY <1>3, <1>4

LEMMA RestartImplements ==
  ASSUME CountAlways, CountAlways', Restart
  PROVE  Allowance!GiveAllBack
<1>1. UNCHANGED <<clock, rows>> /\ \A r \in Request : requests'[r].step \in {"idle", "done"}
  BY TypesNow DEF Restart, CountAlways, InFlight, At, Handler
<1>2. \A b : Cardinality(Admitted(b))' = 0
  <2>1. \A b : Admitted(b)' = {}
    BY <1>1 DEF Admitted, At
  <2> QED BY <2>1, FS_EmptySet
<1>3. \A b \in Business : StoredToday(b)' = StoredToday(b) /\ Used(b)' = StoredToday(b)
  BY <1>1, <1>2, SameRows, UsedIsStoredAndHeldNext
<1> QED BY <1>3 DEF Allowance!GiveAllBack, StoredToday

LEMMA AllowanceStep ==
  ASSUME Cap # 0
  PROVE  (late \/ CountAlways) /\ (late \/ CountAlways)' /\ [GateNext]_gateVars
           => [late' \/ Allowance!AllowanceNext]_(Allowance!allowanceVars)
<1> SUFFICES ASSUME late \/ CountAlways, (late \/ CountAlways)', [GateNext]_gateVars, ~late'
    PROVE [Allowance!AllowanceNext]_(Allowance!allowanceVars)
  OBVIOUS
<1>0. CountAlways /\ CountAlways'
  BY StaysLate
<1>1. CASE \E r \in Request : Handle(r)
  BY <1>0, <1>1, HandleImplements, Constants DEF Allowance!AllowanceNext
<1>2. CASE Tick
  BY <1>0, <1>2, TickImplements DEF Allowance!AllowanceNext
<1>3. CASE Restart
  BY <1>0, <1>3, RestartImplements DEF Allowance!AllowanceNext
<1>4. CASE UNCHANGED gateVars
  <2>1. \A b : StoredToday(b)' = StoredToday(b) /\ Admitted(b)' = Admitted(b)
    BY <1>4 DEF gateVars, StoredToday, Rows, Today, Admitted, At
  <2> QED BY <1>0, <2>1, SameCountsStutter
<1> QED BY <1>1, <1>2, <1>3, <1>4 DEF GateNext, Finished

LEMMA AllowanceStart == GateInit => Allowance!AllowanceInit
<1> SUFFICES ASSUME GateInit PROVE Allowance!AllowanceInit
  OBVIOUS
<1>1. rows = {} /\ \A b \in Business : counts[b] = None
  BY DEF GateInit
<1>2. \A b \in Business : Cardinality(Rows(b, Today)) = 0 /\ Used(b) = 0
  BY <1>1, FS_EmptySet DEF Rows, Used
<1> QED BY <1>2 DEF Allowance!AllowanceInit

(* The gate with its unlocked reading of the database, its failed inserts and *)
(* its restarts does nothing a daily allowance without them would not do,     *)
(* until a request has outlived its window or its day.                        *)
THEOREM GateKeepsAllowance ==
  ASSUME Cap # 0
  PROVE  GateSpec => KeepsAllowance
<1>1. late \/ GateInv => late \/ CountAlways
  BY CountHolds DEF CountAlways
<1> QED BY <1>1, GateInvAlways, AllowanceStart, AllowanceStep, PTL DEF GateSpec, KeepsAllowance
-----------------------------------------------------------------------------
(* The first refusal of the day.  Requests may last past midnight here, and   *)
(* the cap may be none.                                                       *)

(* A request that made the entry it points to, in this life of the process.   *)
Made(e) == requests[e].entry = e

(* The gate has been rolled back over the day in this life of the process.    *)
Back(d) == [life |-> restarts, day |-> d] \in turnedBack

ReportTypes ==
  /\ clock \in Nat /\ day \in Nat \cup {None} /\ restarts \in 0..MaxRestarts
  /\ counts \in [Business -> Request \cup {None}]
  /\ entries \in [Request -> Entry]
  /\ requests \in [Request -> Handler]
  /\ IsFiniteSet(rows)
  /\ HistoryOK

(* A request points to an entry once it has looked it up, to one of its own   *)
(* business and day.                                                          *)
Pointing(r) ==
  LET e == requests[r].entry IN
  /\ requests[r].step \in {"idle", "readClock", "look", "count", "install"} => e = None
  /\ At(r, "admit") => e # None
  /\ e # None => Made(e) /\ Shop(e) = Shop(r) /\ requests[e].today = requests[r].today

(* The counts are entries of the gate's day.                                  *)
Counted(b) ==
  counts[b] # None => Made(counts[b]) /\ Shop(counts[b]) = b /\ requests[counts[b]].today = day

(* An entry is of the gate's day or an earlier one, and is the one of its     *)
(* business if it is of the gate's day, unless the gate went back over it.    *)
Current(e) ==
  Made(e) =>
    /\ day # None
    /\ \/ Back(requests[e].today)
       \/ /\ requests[e].today <= day
          /\ requests[e].today = day => counts[Shop(e)] = e

(* So a business has one entry of a day.                                      *)
OneEntryADay ==
  \A e, f \in Request :
    Made(e) /\ Made(f) /\ Shop(e) = Shop(f) /\ requests[e].today = requests[f].today
      => e = f \/ Back(requests[e].today)

(* A report of this life is noted in the entry of the request that made it.   *)
Noted(p) ==
  p.life = restarts =>
    /\ requests[p.by].entry # None /\ entries[requests[p.by].entry].reported
    /\ p.day = requests[p.by].today

OneReportAnEntry ==
  \A p, q \in reports :
    p.life = restarts /\ q.life = restarts /\ requests[p.by].entry = requests[q.by].entry => p = q

Gone == \A p \in reports : p.life <= restarts

GateLinks ==
  /\ \A r \in Request : Pointing(r)
  /\ \A b \in Business : Counted(b)
  /\ \A e \in Request : Current(e)
  /\ OneEntryADay

Reports == (\A p \in reports : Noted(p)) /\ OneReportAnEntry /\ Gone /\ ReportedOnce

ReportInv == ReportTypes /\ GateLinks /\ Reports

LEMMA ReportInvInit == GateInit => ReportInv
<1> SUFFICES ASSUME GateInit PROVE ReportInv
  OBVIOUS
<1>1. reports = {} /\ turnedBack = {} /\ restarts = 0 /\ clock = 1 /\ day = None /\ IsFiniteSet(rows)
  BY FS_EmptySet DEF GateInit
<1>2. counts \in [Business -> Request \cup {None}] /\ \A b \in Business : counts[b] = None
  BY DEF GateInit
<1>3. requests \in [Request -> Handler] /\ \A r \in Request : requests[r].step = "idle" /\ requests[r].entry = None
  BY DEF GateInit, Handler, Steps
<1>4. entries \in [Request -> Entry]
  BY DEF GateInit, Entry
<1>5. \A e \in Request : ~Made(e)
  BY <1>3, GateConstants DEF Made
<1>6. ReportTypes
  BY <1>1, <1>2, <1>3, <1>4, GateConstants DEF ReportTypes, HistoryOK
<1>7. GateLinks
  BY <1>2, <1>3, <1>5 DEF GateLinks, Pointing, At, Counted, Current, OneEntryADay
<1>8. Reports
  BY <1>1 DEF Reports, Noted, OneReportAnEntry, Gone, ReportedOnce
<1> QED BY <1>6, <1>7, <1>8 DEF ReportInv

(* A step that makes no entry and points to none.                             *)
LEMMA LinksKept ==
  ASSUME ReportInv, NEW r \in Request,
         requests' \in [Request -> Handler], \A p \in Request \ {r} : requests'[p] = requests[p],
         requests'[r].entry = requests[r].entry,
         requests'[r].today = requests[r].today \/ requests[r].entry = None,
         requests'[r].step \in {"readClock", "look", "count", "install"} => requests[r].entry = None,
         requests'[r].step \notin {"idle", "admit"},
         UNCHANGED <<day, counts, restarts, turnedBack>>
  PROVE  /\ GateLinks'
         /\ \A p \in Request : requests'[p].entry = requests[p].entry
                                /\ (requests[p].entry # None => requests'[p].today = requests[p].today)
<1>1. \A p \in Request : requests'[p].entry = requests[p].entry /\ (Made(p)' <=> Made(p))
                         /\ (requests[p].entry # None => requests'[p].today = requests[p].today)
  BY DEF Made
<1>2. \A p \in Request : Made(p) => requests'[p].today = requests[p].today
  BY <1>1, GateConstants DEF Made
<1>3. \A p \in Request : Pointing(p) /\ requests[p].entry \in Request \cup {None}
  BY DEF ReportInv, GateLinks, ReportTypes, Handler
<1>4. ASSUME NEW p \in Request PROVE Pointing(p)'
  <2>1. requests[p].entry # None =>
          requests[p].entry \in Request /\ Made(requests[p].entry) /\ Shop(requests[p].entry) = Shop(p)
          /\ requests[requests[p].entry].today = requests[p].today
    BY <1>3 DEF Pointing
  <2>2. requests[p].entry # None =>
          requests'[requests[p].entry].entry = requests[p].entry
          /\ requests'[requests[p].entry].today = requests'[p].today
    BY <1>1, <1>2, <2>1 DEF Made
  <2>3. CASE p = r
    BY <1>1, <2>1, <2>2, <2>3 DEF Pointing, At, Made
  <2>4. CASE p # r
    BY <1>1, <1>3, <2>1, <2>2, <2>4 DEF Pointing, At, Made
  <2> QED BY <2>3, <2>4
<1>5. \A b \in Business : Counted(b)'
  <2>1. \A b \in Business : counts[b] \in Request \cup {None} /\ Counted(b)
    BY DEF ReportInv, GateLinks, ReportTypes
  <2> QED BY <1>1, <1>2, <2>1 DEF Counted, Made
<1>6. \A e \in Request : Current(e)'
  BY <1>1, <1>2 DEF ReportInv, GateLinks, Current, Back
<1>7. OneEntryADay'
  BY <1>1, <1>2 DEF ReportInv, GateLinks, OneEntryADay, Back
<1> QED BY <1>1, <1>4, <1>5, <1>6, <1>7 DEF GateLinks

LEMMA QuietStepReports ==
  ASSUME ReportInv, NEW r \in Request,
         Claim(r) \/ ReadClock(r) \/ Count(r) \/ Insert(r) \/ Release(r) \/ Return(r)
  PROVE  ReportInv'
<1>1. /\ requests \in [Request -> Handler] /\ entries \in [Request -> Entry] /\ clock \in Nat /\ IsFiniteSet(rows)
      /\ Pointing(r) /\ clock \div TicksPerDay \in Nat /\ counts \in [Business -> Request \cup {None}]
      /\ Shop(r) \in Business
  BY DayIsNat, Constants DEF ReportInv, GateLinks, ReportTypes
<1>2. UNCHANGED <<clock, day, counts, reports, restarts, turnedBack>>
  BY DEF Claim, ReadClock, Count, Insert, Release, Return
<1>3. IsFiniteSet(rows')
  <2>1. CASE UNCHANGED rows
    BY <1>1, <2>1
  <2>2. CASE Insert(r) /\ ~UNCHANGED rows
    <3>1. PICK row : rows' = rows \cup {row}
      BY <2>2 DEF Insert
    <3> QED BY <1>1, <3>1, FS_AddElement
  <2> QED BY <2>1, <2>2 DEF Claim, ReadClock, Count, Release, Return
<1>4. entries' \in [Request -> Entry] /\ \A e \in Request : entries'[e].reported = entries[e].reported
  <2>1. CASE UNCHANGED entries
    BY <1>1, <2>1
  <2>2. CASE Return(r) /\ ~UNCHANGED entries
    <3>1. PICK f \in Request : entries[f].stored > 0 /\ entries' = [entries EXCEPT ![f].stored = @ - 1]
      BY <1>1, <2>2 DEF Return
    <3>2. entries[f].stored - 1 \in Nat
      BY <1>1, <3>1 DEF Entry
    <3> QED BY <1>1, <3>1, <3>2 DEF Entry
  <2> QED BY <2>1, <2>2 DEF Claim, ReadClock, Count, Insert, Release
<1>5. /\ requests' \in [Request -> Handler] /\ \A p \in Request \ {r} : requests'[p] = requests[p]
      /\ requests'[r].entry = requests[r].entry
      /\ requests'[r].today = requests[r].today \/ requests[r].entry = None
      /\ requests'[r].step \in {"readClock", "look", "count", "install"} => requests[r].entry = None
      /\ requests'[r].step \notin {"idle", "admit"}
  <2>1. CASE Claim(r)
    <3>1. At(r, "idle") /\ requests[r].entry = None
      BY <1>1, <2>1 DEF Claim, Pointing, At
    <3>2. Room \in BOOLEAN
      BY DEF Room
    <3>3. PICK room \in BOOLEAN :
            \/ GoTo(r, "done")
            \/ requests' = [requests EXCEPT ![r].step = "readClock", ![r].claimed = clock, ![r].remembered = room]
      BY <2>1, <3>2, Zenon DEF Claim
    <3> QED BY <1>1, <3>1, <3>3 DEF GoTo, Handler, Steps
  <2>2. CASE ReadClock(r)
    <3>1. requests[r].entry = None
      BY <1>1, <2>2 DEF ReadClock, Pointing, At
    <3>2. PICK step \in {"insert", "look"} : requests' = [requests EXCEPT ![r].today = Today, ![r].step = step]
      BY <2>2 DEF ReadClock
    <3> QED BY <1>1, <3>1, <3>2 DEF Today, Handler, Steps
  <2>3. CASE Count(r)
    <3>1. requests[r].entry = None
      BY <1>1, <2>3 DEF Count, Pointing, At
    <3> DEFINE seen == {row \in rows : Shop(row.by) = Shop(r) /\ row.day >= requests[r].today}
    <3>2. Cardinality(seen) \in Nat
      BY <1>1, FS_Subset, FS_CardinalityType
    <3>3. PICK n \in Nat : requests' = [requests EXCEPT ![r].read = n, ![r].step = "install"] \/ GoTo(r, "release")
      BY <2>3, <3>2 DEF Count
    <3> QED BY <1>1, <3>1, <3>3 DEF GoTo, Handler, Steps
  <2>4. CASE Insert(r) \/ Release(r) \/ Return(r)
    <3>1. PICK step \in {"done", "release", "return"} : GoTo(r, step)
      BY <2>4 DEF Insert, Release, Return
    <3> QED BY <1>1, <3>1 DEF GoTo, Handler, Steps
  <2> QED BY <2>1, <2>2, <2>3, <2>4
<1>6. GateLinks' /\ \A p \in Request : requests'[p].entry = requests[p].entry
                                        /\ (requests[p].entry # None => requests'[p].today = requests[p].today)
  BY <1>2, <1>5, LinksKept
<1>7. ReportTypes'
  BY <1>1, <1>2, <1>3, <1>4, <1>5 DEF ReportInv, ReportTypes, HistoryOK
<1>8. Reports'
  <2>1. \A p \in reports : p.by \in Request /\ requests[p.by].entry \in Request \cup {None}
    BY DEF ReportInv, ReportTypes, HistoryOK, Handler
  <2>2. \A p \in reports : Noted(p)'
    BY <1>2, <1>4, <1>6, <2>1 DEF ReportInv, Reports, Noted
  <2>3. OneReportAnEntry' /\ Gone' /\ ReportedOnce'
    BY <1>2, <1>6, <2>1 DEF ReportInv, Reports, OneReportAnEntry, Gone, ReportedOnce, SameRefusal
  <2> QED BY <1>2, <2>2, <2>3 DEF Reports
<1> QED BY <1>6, <1>7, <1>8 DEF ReportInv

(* The gate comes to the day of a request: an entry of that day is then the   *)
(* one of its business, unless the gate went back.                            *)
LEMMA DayRolled ==
  ASSUME ReportInv, NEW d \in Nat, day' = d, UNCHANGED restarts, turnedBack' = RolledBack(d)
  PROVE  /\ turnedBack \subseteq turnedBack' /\ turnedBack' \subseteq [life : 0..MaxRestarts, day : Nat]
         /\ \A e \in Request : Made(e) =>
              \/ [life |-> restarts, day |-> requests[e].today] \in turnedBack'
              \/ requests[e].today < d
              \/ requests[e].today = d /\ Rolled(d)[Shop(e)] = e
<1>1. day \in Nat \cup {None} /\ restarts \in 0..MaxRestarts /\ turnedBack \subseteq [life : 0..MaxRestarts, day : Nat]
  BY DEF ReportInv, ReportTypes, HistoryOK
<1>2. turnedBack \subseteq turnedBack' /\ turnedBack' \subseteq [life : 0..MaxRestarts, day : Nat]
  BY <1>1, RolledBackTyped DEF RolledBack
<1>3. ASSUME NEW e \in Request, Made(e), [life |-> restarts, day |-> requests[e].today] \notin turnedBack'
      PROVE  requests[e].today < d \/ (requests[e].today = d /\ Rolled(d)[Shop(e)] = e)
  <2> DEFINE t == requests[e].today
  <2>1. t \in Nat
    BY DEF ReportInv, ReportTypes, Handler
  <2>2. day \in Nat /\ t <= day /\ (t = day => counts[Shop(e)] = e)
    BY <1>1, <1>2, <1>3 DEF ReportInv, GateLinks, Current, Back
  <2>3. CASE day > d
    <3>1. turnedBack' = turnedBack \cup [life : {restarts}, day : d..day]
      BY <2>2, <2>3, GateConstants DEF RolledBack
    <3>2. t \notin d..day
      BY <1>3, <3>1
    <3> QED BY <2>1, <2>2, <3>2
  <2>4. CASE day = d
    BY <2>1, <2>2, <2>4 DEF Rolled
  <2>5. CASE day < d
    BY <2>1, <2>2, <2>5
  <2> QED BY <2>2, <2>3, <2>4, <2>5
<1> QED BY <1>2, <1>3

(* A request looks its entry up, and makes it if there is none and it has     *)
(* read the database.                                                         *)
LEMMA LookupReports ==
  ASSUME ReportInv, NEW r \in Request, Look(r) \/ Install(r)
  PROVE  ReportInv'
<1> DEFINE d == requests[r].today
           s == Shop(r)
           found == Rolled(d)[s]
           makes == Install(r) /\ found = None
<1>1. /\ d \in Nat /\ s \in Business /\ requests[r].entry = None /\ ~Made(r)
      /\ requests \in [Request -> Handler] /\ entries \in [Request -> Entry]
      /\ counts \in [Business -> Request \cup {None}]
  BY Constants DEF ReportInv, GateLinks, ReportTypes, Pointing, At, Look, Install, Made, Handler
<1>2. day' = d /\ turnedBack' = RolledBack(d) /\ UNCHANGED <<clock, rows, reports, restarts>>
  BY DEF Look, Install
<1>3. /\ Rolled(d) \in [Business -> Request \cup {None}]
      /\ \A b \in Business : Rolled(d)[b] # None =>
           /\ Made(Rolled(d)[b]) /\ Shop(Rolled(d)[b]) = b /\ requests[Rolled(d)[b]].today = d
           /\ Rolled(d)[b] \in Request \ {r}
  <2>1. Rolled(d) \in [Business -> Request \cup {None}] /\ \A b \in Business : Rolled(d)[b] \in {None, counts[b]}
        /\ (Rolled(d)[b] # None => day = d)
    BY <1>1 DEF Rolled
  <2>2. \A b \in Business : Counted(b)
    BY DEF ReportInv, GateLinks
  <2> QED BY <1>1, <2>1, <2>2 DEF Counted
<1>4. /\ counts' \in [Business -> Request \cup {None}]
      /\ \A b \in Business : counts'[b] = IF b = s /\ makes THEN r ELSE Rolled(d)[b]
      /\ entries' \in [Request -> Entry] /\ \A e \in Request : e # r => entries'[e] = entries[e]
  <2>1. CASE Look(r)
    <3>1. requests[r].step = "look" /\ counts' = Rolled(d) /\ entries' = entries
      BY <2>1 DEF Look, At
    <3>2. ~makes
      BY <3>1 DEF Install, At
    <3> QED BY <1>1, <1>3, <3>1, <3>2
  <2>2. CASE Install(r)
    <3>1. requests[r].read \in Nat
      BY <1>1 DEF Handler
    <3>2. CASE FirstReading(r)
      <4>1. makes /\ counts' = [Rolled(d) EXCEPT ![s] = r]
            /\ entries' = [entries EXCEPT ![r] = [stored |-> requests[r].read, reported |-> FALSE]]
        BY <2>2, <3>2 DEF Install, FirstReading
      <4> QED BY <1>1, <1>3, <3>1, <4>1 DEF Entry
    <3>3. CASE ~FirstReading(r)
      <4>1. ~makes /\ counts' = Rolled(d) /\ entries' = entries
        BY <2>2, <3>3 DEF Install, FirstReading
      <4> QED BY <1>1, <1>3, <4>1
    <3> QED BY <3>2, <3>3
  <2> QED BY <2>1, <2>2
<1> DEFINE f == counts'[s]
<1>5. /\ requests' \in [Request -> Handler] /\ \A p \in Request \ {r} : requests'[p] = requests[p]
      /\ requests'[r].entry = f /\ requests'[r].today = d
      /\ f # None => requests'[r].step = "admit"
      /\ f = None => requests'[r].step = "count"
  <2>1. f \in Request \cup {None} /\ (Install(r) => f # None)
    BY <1>1, <1>3, <1>4, GateConstants
  <2>2. PICK step \in {"count", "admit"} :
          requests' = [requests EXCEPT ![r].entry = f, ![r].step = step] /\ (step = "count" <=> f = None)
    BY <2>1 DEF Look, Install
  <2> HIDE DEF f
  <2> QED BY <1>1, <2>1, <2>2 DEF Handler, Steps
<1>6. f = IF makes THEN r ELSE found
  BY <1>1, <1>4
<1> HIDE DEF f, makes
<1>7. \A p \in Request : Made(p)' <=> Made(p) \/ (p = r /\ makes)
  BY <1>1, <1>3, <1>5, <1>6, GateConstants DEF Made
<1>8. \A p \in Request : requests'[p].today = requests[p].today
  BY <1>5
<1>9. /\ turnedBack \subseteq turnedBack' /\ turnedBack' \subseteq [life : 0..MaxRestarts, day : Nat]
      /\ \A e \in Request : Made(e) =>
           \/ [life |-> restarts, day |-> requests[e].today] \in turnedBack'
           \/ requests[e].today < d
           \/ requests[e].today = d /\ Rolled(d)[Shop(e)] = e
  BY <1>1, <1>2, DayRolled
<1>10. ReportTypes'
  BY <1>1, <1>2, <1>4, <1>5, <1>9 DEF ReportInv, ReportTypes, HistoryOK
<1>11. \A p \in Request : Pointing(p)'
  <2>1. Pointing(r)'
    BY <1>1, <1>3, <1>5, <1>6, <1>7, <1>8 DEF Pointing, At
  <2>2. ASSUME NEW p \in Request \ {r} PROVE Pointing(p)'
    <3>1. Pointing(p) /\ requests'[p] = requests[p] /\ requests[p].entry \in Request \cup {None}
      BY <1>1, <1>5 DEF ReportInv, GateLinks, Handler
    <3> QED BY <1>7, <1>8, <3>1 DEF Pointing, At
  <2> QED BY <2>1, <2>2
<1>12. \A b \in Business : Counted(b)'
  BY <1>1, <1>2, <1>3, <1>4, <1>7, <1>8 DEF Counted
<1>13. \A e \in Request : Current(e)'
  <2> SUFFICES ASSUME NEW e \in Request, Made(e)' PROVE Current(e)'
    BY DEF Current
  <2>1. day' # None /\ requests'[e].today = requests[e].today /\ Shop(e) \in Business /\ restarts' = restarts
    BY <1>1, <1>2, <1>8, Constants, GateConstants
  <2>2. CASE e = r
    <3>1. makes
      BY <1>1, <1>7, <2>2
    <3> QED BY <1>1, <1>2, <1>4, <2>1, <2>2, <3>1 DEF Current
  <2>3. CASE e # r
    <3>1. Made(e)
      BY <1>7, <2>3
    <3>2. Shop(e) = s /\ makes => Rolled(d)[Shop(e)] # e
      BY Constants DEF makes
    <3>3. \/ [life |-> restarts, day |-> requests[e].today] \in turnedBack'
          \/ requests[e].today < d
          \/ requests[e].today = d /\ Rolled(d)[Shop(e)] = e
      BY <1>9, <3>1
    <3>4. Rolled(d)[Shop(e)] = e => counts'[Shop(e)] = e
      BY <1>4, <2>1, <3>2
    <3>5. requests[e].today \in Nat
      BY <1>1 DEF Handler
    <3> QED BY <1>1, <1>2, <2>1, <3>3, <3>4, <3>5 DEF Current, Back
  <2> QED BY <2>2, <2>3
<1>14. OneEntryADay'
  <2> DEFINE back(e) == [life |-> restarts, day |-> requests[e].today] \in turnedBack'
  <2> SUFFICES ASSUME NEW e \in Request, NEW g \in Request, Made(e)', Made(g)', Shop(e) = Shop(g),
                      requests[e].today = requests[g].today
      PROVE  e = g \/ back(e)
    BY <1>2, <1>8 DEF OneEntryADay, Back
  <2>1. CASE Made(e) /\ Made(g)
    BY <1>9, <2>1 DEF ReportInv, GateLinks, OneEntryADay, Back
  <2>2. ASSUME NEW h \in Request, makes, Made(h), Shop(h) = s, requests[h].today = d PROVE back(h)
    BY <1>1, <1>9, <2>2, Constants DEF makes
  <2> HIDE DEF back
  <2>3. CASE e = r /\ makes /\ Made(g)
    <3>1. back(g)
      BY <2>2, <2>3
    <3> QED BY <3>1 DEF back
  <2>4. CASE g = r /\ makes /\ Made(e)
    BY <2>2, <2>4
  <2> QED BY <1>7, <2>1, <2>3, <2>4
<1>15. Reports'
  <2>1. ASSUME NEW p \in reports, p.life = restarts
        PROVE  p.by \in Request \ {r} /\ requests[p.by].entry \in Request \ {r}
    <3>1. p.by \in Request /\ requests[p.by].entry # None
      BY <2>1 DEF ReportInv, ReportTypes, HistoryOK, Reports, Noted
    <3>2. Made(requests[p.by].entry) /\ requests[p.by].entry \in Request
      BY <1>1, <3>1 DEF ReportInv, GateLinks, Pointing, Handler
    <3> QED BY <1>1, <3>1, <3>2
  <2>2. \A p \in reports : Noted(p)'
    BY <1>2, <1>4, <1>5, <2>1 DEF ReportInv, Reports, Noted
  <2>3. OneReportAnEntry'
    BY <1>2, <1>5, <2>1 DEF ReportInv, Reports, OneReportAnEntry
  <2>4. Gone' /\ ReportedOnce'
    BY <1>2, <1>9 DEF ReportInv, Reports, Gone, ReportedOnce, SameRefusal
  <2> QED BY <1>2, <2>2, <2>3, <2>4 DEF Reports
<1> QED BY <1>10, <1>11, <1>12, <1>13, <1>14, <1>15 DEF ReportInv, GateLinks

(* A refusal is reported once for an entry.                                   *)
LEMMA AdmitReports ==
  ASSUME ReportInv, NEW r \in Request, Admit(r)
  PROVE  ReportInv'
<1> DEFINE e == requests[r].entry
<1>1. /\ requests \in [Request -> Handler] /\ entries \in [Request -> Entry] /\ requests[r].step = "admit"
      /\ e \in Request /\ Made(e) /\ Shop(e) = Shop(r) /\ requests[e].today = requests[r].today
  BY DEF ReportInv, GateLinks, ReportTypes, Pointing, At, Admit, Handler
<1>2. UNCHANGED <<clock, day, counts, rows, restarts, turnedBack>>
  BY DEF Admit
<1>3. /\ requests' \in [Request -> Handler] /\ \A p \in Request \ {r} : requests'[p] = requests[p]
      /\ requests'[r].entry = e /\ requests'[r].today = requests[r].today
      /\ requests'[r].step \in {"done", "insert"}
  <2>1. PICK step \in {"done", "insert"} : GoTo(r, step)
    BY DEF Admit
  <2> QED BY <1>1, <2>1 DEF GoTo, Handler, Steps
<1>4. /\ entries' \in [Request -> Entry]
      /\ \A f \in Request : entries[f].reported => entries'[f].reported
      /\ Full(e) => entries'[e].reported
  <2>1. CASE Full(e)
    <3>1. entries' = [entries EXCEPT ![e].reported = TRUE]
      BY <2>1 DEF Admit
    <3> QED BY <1>1, <3>1 DEF Entry
  <2>2. CASE ~Full(e)
    <3>1. entries' = [entries EXCEPT ![e].stored = @ + 1]
      BY <2>2 DEF Admit
    <3> QED BY <1>1, <2>2, <3>1 DEF Entry
  <2> QED BY <2>1, <2>2
<1> PICK new : new = [by |-> r, day |-> requests[r].today, life |-> restarts]
  OBVIOUS
<1>5. reports' = reports \/ (reports' = reports \cup {new} /\ Full(e) /\ ~entries[e].reported)
  BY DEF Admit, FirstRefusal
<1>6. /\ GateLinks'
      /\ \A p \in Request : requests'[p].entry = requests[p].entry /\ requests'[p].today = requests[p].today
  <2>1. GateLinks'
    BY <1>2, <1>3, LinksKept
  <2> QED BY <1>3, <2>1
<1>7. new \in [by : Request, day : Nat, life : 0..MaxRestarts] /\ new.by = r /\ new.day = requests[r].today
      /\ new.life = restarts
  BY <1>1 DEF ReportInv, ReportTypes, Handler
<1>8. ReportTypes'
  BY <1>2, <1>3, <1>4, <1>5, <1>7 DEF ReportInv, ReportTypes, HistoryOK
<1>9. \A p \in reports : p.by \in Request /\ requests[p.by].entry \in Request \cup {None}
  BY <1>1 DEF ReportInv, ReportTypes, HistoryOK, Handler
<1>10. \A p \in reports : Noted(p)'
  BY <1>2, <1>4, <1>6, <1>9 DEF ReportInv, Reports, Noted
<1>11. CASE reports' = reports
  <2>1. OneReportAnEntry' /\ Gone' /\ ReportedOnce'
    BY <1>2, <1>6, <1>9, <1>11 DEF ReportInv, Reports, OneReportAnEntry, Gone, ReportedOnce, SameRefusal
  <2> QED BY <1>6, <1>8, <1>10, <1>11, <2>1 DEF ReportInv, Reports
<1>12. CASE reports' = reports \cup {new} /\ Full(e) /\ ~entries[e].reported
  <2>1. Noted(new)'
    <3>1. entries'[e].reported /\ requests'[new.by].entry = e /\ requests'[new.by].today = new.day /\ e # None
      BY <1>1, <1>3, <1>4, <1>7, <1>12, GateConstants
    <3> QED BY <3>1 DEF Noted
  <2>2. \A p \in reports : p.life = restarts => requests[p.by].entry # e
    BY <1>12 DEF ReportInv, Reports, Noted
  <2>3. OneReportAnEntry'
    BY <1>2, <1>3, <1>6, <1>7, <1>9, <1>12, <2>2 DEF ReportInv, Reports, OneReportAnEntry
  <2>4. ASSUME NEW p \in reports, p.life = restarts, p.day = requests[r].today, Shop(p.by) = Shop(r)
        PROVE  Back(requests[r].today)
    <3> DEFINE f == requests[p.by].entry
    <3>1. f # None /\ p.day = requests[p.by].today
      BY <2>4 DEF ReportInv, Reports, Noted
    <3>2. f \in Request /\ Made(f) /\ Shop(f) = Shop(p.by) /\ requests[f].today = requests[p.by].today
      BY <1>9, <3>1 DEF ReportInv, GateLinks, Pointing
    <3>3. e # f
      BY <2>2, <2>4
    <3> QED BY <1>1, <2>4, <3>1, <3>2, <3>3 DEF ReportInv, GateLinks, OneEntryADay
  <2>5. ReportedOnce'
    BY <1>2, <1>7, <1>12, <2>4 DEF ReportInv, Reports, ReportedOnce, SameRefusal, Back
  <2>6. Gone'
    BY <1>2, <1>7, <1>12 DEF ReportInv, ReportTypes, Reports, Gone
  <2> QED BY <1>6, <1>8, <1>10, <1>12, <2>1, <2>3, <2>5, <2>6 DEF ReportInv, Reports
<1> QED BY <1>5, <1>11, <1>12

(* A process that starts points to nothing and has reported nothing.          *)
LEMMA RestartReports ==
  ASSUME ReportInv, Restart
  PROVE  ReportInv'
<1>1. restarts' = restarts + 1 /\ restarts' \in 0..MaxRestarts /\ restarts \in 0..MaxRestarts
      /\ day' = None /\ counts' = [b \in Business |-> None]
      /\ UNCHANGED <<clock, entries, rows, reports, turnedBack>>
  <2>1. restarts < MaxRestarts /\ restarts' = restarts + 1 /\ day' = None /\ counts' = [b \in Business |-> None]
        /\ UNCHANGED <<clock, entries, rows, reports, turnedBack>>
    BY Zenon DEF Restart
  <2>2. restarts \in 0..MaxRestarts
    BY DEF ReportInv, ReportTypes
  <2> QED BY <2>1, <2>2, Constants
<1>2. requests' \in [Request -> Handler]
      /\ \A p \in Request : requests'[p].entry = None /\ requests'[p].step \in {"idle", "done"}
  <2>1. requests \in [Request -> Handler]
        /\ \A p \in Request : Pointing(p)
    BY DEF ReportInv, ReportTypes, GateLinks
  <2> QED BY <2>1 DEF Restart, Pointing, At, Handler, Steps
<1>3. \A p \in Request : ~Made(p)'
  BY <1>2, Constants DEF Made
<1>4. ReportTypes'
  <2>1. counts' \in [Business -> Request \cup {None}]
    BY <1>1
  <2> QED BY <1>1, <1>2, <2>1 DEF ReportInv, ReportTypes, HistoryOK
<1>5. GateLinks'
  BY <1>1, <1>2, <1>3 DEF GateLinks, Pointing, At, Counted, Current, OneEntryADay
<1>6. Reports'
  <2>1. \A p \in reports : p.life <= restarts /\ p.life \in Nat /\ restarts \in Nat
    BY <1>1 DEF ReportInv, ReportTypes, HistoryOK, Reports, Gone
  <2>2. \A p \in reports : p.life # restarts' /\ p.life <= restarts'
    BY <1>1, <2>1
  <2> QED BY <1>1, <2>2 DEF ReportInv, Reports, Noted, OneReportAnEntry, Gone, ReportedOnce, SameRefusal
<1> QED BY <1>4, <1>5, <1>6 DEF ReportInv

LEMMA TickReports ==
  ASSUME ReportInv, clock' \in Nat,
         UNCHANGED <<repeats, nextSweep, day, counts, entries, rows, reports, requests, restarts, turnedBack>>
  PROVE  ReportInv'
<1>1. ReportTypes'
  BY DEF ReportInv, ReportTypes, HistoryOK
<1>2. GateLinks'
  BY DEF ReportInv, GateLinks, Pointing, At, Made, Counted, Current, OneEntryADay, Back
<1>3. Reports'
  BY DEF ReportInv, Reports, Noted, OneReportAnEntry, Gone, ReportedOnce, SameRefusal
<1> QED BY <1>1, <1>2, <1>3 DEF ReportInv

LEMMA ReportStep == ReportInv /\ [GateNext]_gateVars => ReportInv'
<1> SUFFICES ASSUME ReportInv, [GateNext]_gateVars PROVE ReportInv'
  OBVIOUS
<1>1. CASE \E r \in Request : Handle(r)
  BY <1>1, QuietStepReports, LookupReports, AdmitReports DEF Handle
<1>2. CASE Restart
  BY <1>2, RestartReports
<1>3. CASE Tick \/ UNCHANGED gateVars
  <2>1. clock \in Nat
    BY DEF ReportInv, ReportTypes
  <2> QED BY <1>3, <2>1, TickReports DEF Tick, gateVars
<1> QED BY <1>1, <1>2, <1>3 DEF GateNext, Finished

(* Admit (eventgate.go): however long requests last and whatever requests     *)
(* find the cap reached at the same time, a business's first refusal of a day *)
(* is reported once in the life of a process, unless a request of an earlier  *)
(* day came late and rolled the gate back over that day.                      *)
THEOREM RefusalReportedOnce == GateSpec => []ReportedOnce
<1>1. ReportInv => ReportedOnce
  BY DEF ReportInv, Reports
<1> QED BY <1>1, ReportInvInit, ReportStep, PTL DEF GateSpec
-----------------------------------------------------------------------------
(* What the gate holds, however long requests last.                          *)

MemoryOK ==
  /\ RepeatsOK /\ late \in BOOLEAN
  /\ rows \subseteq [by : Request, claimed : Nat, remembered : BOOLEAN, day : Nat, life : 0..MaxRestarts]

LEMMA MemoryIsTyped == ASSUME ReportInv, MemoryOK PROVE GateTypeOK
  BY DEF ReportInv, ReportTypes, HistoryOK, MemoryOK, RepeatsOK, Remembered, GateTypeOK

LEMMA MemoryStep == ReportInv /\ MemoryOK /\ [GateNext]_gateVars => MemoryOK'
<1> SUFFICES ASSUME ReportInv, MemoryOK, [GateNext]_gateVars PROVE MemoryOK'
  OBVIOUS
<1>1. requests \in [Request -> Handler] /\ clock \in Nat /\ restarts \in 0..MaxRestarts /\ Today \in Nat
  BY DayIsNat, Constants DEF ReportInv, ReportTypes, Today
<1>2. ASSUME UNCHANGED <<repeats, nextSweep>> PROVE RepeatsOK'
  BY <1>2 DEF MemoryOK, RepeatsOK, Remembered
<1>3. CASE Tick \/ UNCHANGED gateVars
  BY <1>2, <1>3 DEF Tick, gateVars, MemoryOK
<1>4. CASE Restart
  BY <1>4, ForgottenOK DEF Restart, MemoryOK
<1>5. ASSUME NEW r \in Request, Handle(r) PROVE MemoryOK'
  <2>1. UNCHANGED late
    BY <1>5 DEF Handle, Claim, ReadClock, Look, Count, Install, Admit, Insert, Release, Return
  <2>2. CASE Claim(r)
    <3>1. UNCHANGED rows /\ KeyOf[r] \in Key
      BY <2>2, Constants DEF Claim
    <3>2. CASE UNCHANGED <<repeats, nextSweep>>
      BY <1>2, <2>1, <3>1, <3>2 DEF MemoryOK
    <3>3. CASE ~UNCHANGED <<repeats, nextSweep>>
      <4>1. /\ repeats' = IF Room THEN [Swept EXCEPT ![KeyOf[r]] = clock + Window] ELSE Swept
            /\ nextSweep' = IF SweepDue THEN clock + Window ELSE nextSweep
        BY <2>2, <3>3 DEF Claim
      <4> QED BY <1>1, <2>1, <3>1, <4>1, ClaimedOK DEF MemoryOK
    <3> QED BY <3>2, <3>3
  <2>3. CASE Release(r)
    BY <2>1, <2>3, Constants, ReleasedOK DEF Release, MemoryOK
  <2>4. CASE Insert(r)
    <3> DEFINE new == [by |-> r, claimed |-> requests[r].claimed, remembered |-> requests[r].remembered,
                       day |-> Today, life |-> restarts]
    <3>1. rows' \in {rows, rows \cup {new}} /\ UNCHANGED <<repeats, nextSweep>>
      BY <2>4 DEF Insert
    <3>2. new \in [by : Request, claimed : Nat, remembered : BOOLEAN, day : Nat, life : 0..MaxRestarts]
      BY <1>1 DEF Handler
    <3> QED BY <1>2, <2>1, <3>1, <3>2 DEF MemoryOK
  <2>5. CASE ReadClock(r) \/ Look(r) \/ Count(r) \/ Install(r) \/ Admit(r) \/ Return(r)
    BY <1>2, <2>1, <2>5 DEF ReadClock, Look, Count, Install, Admit, Return, MemoryOK
  <2> QED BY <1>5, <2>2, <2>3, <2>4, <2>5 DEF Handle
<1> QED BY <1>3, <1>4, <1>5 DEF GateNext, Finished

(* Admit, Return, Claim and the counter (eventgate.go): the gate's memory is  *)
(* typed and bounded whatever happens; and until a request has outlived its   *)
(* window or its day, the count of a business is its rows of the day and the  *)
(* places held, and no day gets more rows than the cap - whatever requests    *)
(* cross, whichever insert fails and whenever the process restarts.           *)
THEOREM GateCounts ==
  ASSUME Cap # 0
  PROVE  GateSpec => []GateHolds
<1>1. GateInit => MemoryOK
  BY GateInvInit DEF GateInv, GateTypeOK, MemoryOK
<1>2. ReportInv /\ MemoryOK /\ (late \/ GateInv) => GateHolds
  BY MemoryIsTyped, CountHolds DEF GateInv, GateHolds
<1> QED BY <1>1, <1>2, ReportInvInit, ReportStep, MemoryStep, GateInvAlways, PTL DEF GateSpec
-----------------------------------------------------------------------------
(* Repeats.                                                                  *)

(* The request claimed its key and has not given it back.                    *)
Claiming(r) == requests[r].step \in {"readClock", "look", "count", "install", "admit", "insert", "release"}

(* A request with a claim is alone with its key, and the set has its claim.  *)
ClaimKept(r) ==
  Claiming(r) /\ AlwaysRoom(KeyOf[r]) =>
    /\ repeats[KeyOf[r]] = requests[r].claimed + Window /\ clock < requests[r].claimed + Window
    /\ \A q \in Request : Claiming(q) /\ KeyOf[q] = KeyOf[r] => q = r

(* A row of this life is behind its window, or the set still has its claim.  *)
RowKept(p) ==
  p.life = restarts /\ AlwaysRoom(KeyOf[p.by]) =>
    /\ \/ clock >= p.claimed + Window
       \/ /\ repeats[KeyOf[p.by]] = p.claimed + Window
          /\ \A q \in Request : Claiming(q) => KeyOf[q] # KeyOf[p.by]
    /\ \A q \in Request : Claiming(q) /\ KeyOf[q] = KeyOf[p.by] => requests[q].claimed >= p.claimed + Window

RepeatInv ==
  /\ GateInv /\ ClaimedApart
  /\ clock # 0 /\ \A r \in Request : At(r, "idle") => requests[r].claimed = 0
  /\ \A r \in Request : ClaimKept(r)
  /\ \A p \in rows : RowKept(p)

LEMMA RepeatTypes ==
  ASSUME RepeatInv
  PROVE  /\ requests \in [Request -> Handler] /\ clock \in Nat /\ restarts \in Nat /\ Today \in Nat
         /\ repeats \in [Key -> Nat] /\ Window \in Nat \ {0}
         /\ \A r \in Request : KeyOf[r] \in Key /\ requests[r].claimed \in Nat
         /\ \A p \in rows : p.by \in Request /\ p.claimed \in Nat /\ p.life \in Nat /\ requests[p.by].step = "done"
  BY TypesNow, Constants DEF RepeatInv, GateInv, GateTypeOK, RowsOK, Handler

(* What a step after the claim leaves alone.                                 *)
LEMMA AfterClaim ==
  ASSUME RepeatInv, NEW r \in Request, Moved(r), Handle(r), ~At(r, "idle")
  PROVE  /\ requests'[r].claimed = requests[r].claimed /\ requests'[r].remembered = requests[r].remembered
         /\ requests'[r].step # "idle" /\ UNCHANGED <<clock, restarts>>
         /\ Claiming(r)' => Claiming(r)
         /\ \A k : AlwaysRoom(k)' <=> AlwaysRoom(k)
<1>1. requests \in [Request -> Handler]
  BY RepeatTypes
<1>2. /\ requests'[r].claimed = requests[r].claimed /\ requests'[r].remembered = requests[r].remembered
      /\ requests'[r].step # "idle" /\ (Claiming(r)' => Claiming(r))
  <2>1. CASE Admit(r) \/ Insert(r) \/ Release(r) \/ Return(r)
    BY <1>1, <2>1 DEF Admit, Insert, Release, Return, GoTo, At, Claiming, Handler
  <2>2. CASE ReadClock(r)
    BY <1>1, <2>2 DEF ReadClock, At, Claiming, Handler
  <2>3. CASE Look(r)
    BY <1>1, <2>3 DEF Look, At, Claiming, Handler
  <2>4. CASE Count(r)
    BY <1>1, <2>4 DEF Count, GoTo, At, Claiming, Handler
  <2>5. CASE Install(r)
    BY <1>1, <2>5 DEF Install, At, Claiming, Handler
  <2> QED BY <2>1, <2>2, <2>3, <2>4, <2>5 DEF Handle, Claim
<1>3. UNCHANGED <<clock, restarts>>
  BY DEF Handle, Claim, ReadClock, Look, Count, Install, Admit, Insert, Release, Return
<1>4. \A q \in Request : requests'[q].claimed = requests[q].claimed /\ requests'[q].remembered = requests[q].remembered
  BY <1>2 DEF Moved
<1>5. \A k : AlwaysRoom(k)' <=> AlwaysRoom(k)
  BY <1>4 DEF AlwaysRoom
<1> QED BY <1>2, <1>3, <1>5

(* A step after the claim that touches neither the set nor the rows.         *)
LEMMA QuietRepeats ==
  ASSUME RepeatInv, GateInv', NEW r \in Request, Moved(r), Handle(r), ~At(r, "idle"), UNCHANGED <<repeats, rows>>
  PROVE  RepeatInv'
<1>1. \A q \in Request : /\ Claiming(q)' => Claiming(q)
                         /\ requests'[q].claimed = requests[q].claimed
                         /\ At(q, "idle")' => At(q, "idle")
  BY AfterClaim DEF Moved, Claiming, At
<1>2. UNCHANGED <<clock, restarts>> /\ \A k : AlwaysRoom(k)' <=> AlwaysRoom(k)
  BY AfterClaim
<1>3. \A q \in Request : ClaimKept(q)'
  BY <1>1, <1>2 DEF RepeatInv, ClaimKept
<1>4. \A p \in rows : RowKept(p)'
  BY <1>1, <1>2 DEF RepeatInv, RowKept
<1>5. ClaimedApart'
  BY <1>2 DEF RepeatInv, ClaimedApart
<1> QED BY <1>1, <1>2, <1>3, <1>4, <1>5 DEF RepeatInv

LEMMA ReleaseRepeats ==
  ASSUME RepeatInv, GateInv', NEW r \in Request, Moved(r), Release(r)
  PROVE  RepeatInv'
<1>1. At(r, "release") /\ Claiming(r) /\ UNCHANGED rows /\ repeats' = [repeats EXCEPT ![KeyOf[r]] = 0]
      /\ Handle(r) /\ ~At(r, "idle")
  BY DEF Release, At, Claiming, Handle
<1>2. requests'[r].step \in {"return", "done"}
  BY RepeatTypes DEF Release, GoTo
<1>3. ~Claiming(r)' /\ \A q \in Request \ {r} : Claiming(q)' <=> Claiming(q)
  BY <1>2 DEF Moved, Claiming
<1>4. \A q \in Request : requests'[q].claimed = requests[q].claimed /\ (At(q, "idle")' => At(q, "idle"))
  BY <1>1, AfterClaim DEF Moved, At
<1>5. UNCHANGED <<clock, restarts>> /\ \A k : AlwaysRoom(k)' <=> AlwaysRoom(k)
  BY <1>1, AfterClaim
<1>6. \A k \in Key : k # KeyOf[r] => repeats'[k] = repeats[k]
  BY <1>1, RepeatTypes
<1>7. ASSUME NEW q \in Request, Claiming(q)', AlwaysRoom(KeyOf[q]) PROVE KeyOf[q] # KeyOf[r]
  BY <1>1, <1>3, <1>7 DEF RepeatInv, ClaimKept
<1>8. \A q \in Request : ClaimKept(q)'
  BY <1>3, <1>4, <1>5, <1>6, <1>7, RepeatTypes DEF RepeatInv, ClaimKept
<1>9. \A p \in rows : RowKept(p)'
  BY <1>1, <1>3, <1>4, <1>5, <1>6, RepeatTypes DEF RepeatInv, RowKept
<1>10. ClaimedApart'
  BY <1>1, <1>5 DEF RepeatInv, ClaimedApart
<1> QED BY <1>1, <1>4, <1>5, <1>8, <1>9, <1>10 DEF RepeatInv

LEMMA InsertRepeats ==
  ASSUME RepeatInv, GateInv', NEW r \in Request, Moved(r), Insert(r)
  PROVE  RepeatInv'
<1>1. At(r, "insert") /\ Claiming(r) /\ UNCHANGED repeats /\ Handle(r) /\ ~At(r, "idle")
  BY DEF Insert, At, Claiming, Handle
<1>2. CASE UNCHANGED rows
  BY <1>1, <1>2, QuietRepeats
<1>3. CASE rows' # rows
  <2> PICK new : new = [by |-> r, claimed |-> requests[r].claimed, remembered |-> requests[r].remembered,
                        day |-> Today, life |-> restarts]
    OBVIOUS
  <2>1. rows' = rows \cup {new} /\ GoTo(r, "done") /\ new.by = r /\ new.claimed = requests[r].claimed /\ new.life = restarts
    BY <1>3 DEF Insert
  <2>2. requests'[r].step = "done"
    BY <2>1, RepeatTypes DEF GoTo
  <2>3. ~Claiming(r)' /\ \A q \in Request \ {r} : Claiming(q)' <=> Claiming(q)
    BY <2>2 DEF Moved, Claiming
  <2>4. \A q \in Request : requests'[q].claimed = requests[q].claimed /\ (At(q, "idle")' => At(q, "idle"))
    BY <1>1, AfterClaim DEF Moved, At
  <2>5. UNCHANGED <<clock, restarts>> /\ \A k : AlwaysRoom(k)' <=> AlwaysRoom(k)
    BY <1>1, AfterClaim
  <2>6. \A q \in Request : ClaimKept(q)'
    BY <1>1, <2>3, <2>4, <2>5 DEF RepeatInv, ClaimKept
  <2>7. \A p \in rows : RowKept(p)'
    BY <1>1, <2>3, <2>4, <2>5 DEF RepeatInv, RowKept
  <2>8. AlwaysRoom(KeyOf[r]) =>
          /\ repeats[KeyOf[r]] = new.claimed + Window
          /\ \A q \in Request : Claiming(q)' => KeyOf[q] # KeyOf[r]
    BY <1>1, <2>1, <2>3 DEF RepeatInv, ClaimKept
  <2>9. RowKept(new)'
    BY <1>1, <2>1, <2>5, <2>8 DEF RowKept
  <2>10. ASSUME NEW p \in rows, KeyOf[p.by] = KeyOf[r], p.life = restarts, AlwaysRoom(KeyOf[p.by])
         PROVE  new.claimed >= p.claimed + Window
    BY <1>1, <2>1, <2>10 DEF RepeatInv, RowKept
  <2>11. ClaimedApart'
    <3> SUFFICES ASSUME NEW p \in rows', NEW q \in rows', p # q, KeyOf[p.by] = KeyOf[q.by], p.life = q.life,
                        AlwaysRoom(KeyOf[p.by]), p.claimed <= q.claimed
        PROVE q.claimed >= p.claimed + Window
      BY <2>5 DEF ClaimedApart
    <3>1. CASE p \in rows /\ q \in rows
      BY <3>1 DEF RepeatInv, ClaimedApart
    <3>2. CASE p \in rows /\ q = new
      BY <2>1, <2>10, <3>2
    <3>3. CASE p = new /\ q \in rows
      BY <2>1, <2>10, <3>3, RepeatTypes
    <3> QED BY <2>1, <3>1, <3>2, <3>3
  <2> QED BY <2>1, <2>4, <2>5, <2>6, <2>7, <2>9, <2>11 DEF RepeatInv
<1> QED BY <1>2, <1>3

LEMMA ClaimRepeats ==
  ASSUME RepeatInv, GateInv', NEW r \in Request, Moved(r), Claim(r)
  PROVE  RepeatInv'
<1> DEFINE k == KeyOf[r]
<1>1. requests[r].step = "idle" /\ ~Claiming(r) /\ requests[r].claimed = 0 /\ k \in Key
      /\ UNCHANGED <<clock, rows, restarts>>
  BY RepeatTypes DEF Claim, At, Claiming, RepeatInv
<1>2. \A q \in Request \ {r} : requests'[q] = requests[q] /\ (Claiming(q)' <=> Claiming(q)) /\ (At(q, "idle")' <=> At(q, "idle"))
  BY DEF Moved, Claiming, At
<1>3. CASE GoTo(r, "done") /\ UNCHANGED repeats
  <2>1. requests'[r].step = "done" /\ requests'[r].claimed = requests[r].claimed
    BY <1>3, RepeatTypes DEF GoTo, Handler
  <2>2. ~Claiming(r)' /\ ~At(r, "idle")'
    BY <2>1 DEF Claiming, At
  <2>3. \A j : AlwaysRoom(j)' <=> AlwaysRoom(j)
    BY <1>1, <1>2, <2>1 DEF AlwaysRoom
  <2>4. \A q \in Request : ClaimKept(q)'
    BY <1>1, <1>2, <1>3, <2>2, <2>3 DEF RepeatInv, ClaimKept
  <2>5. \A p \in rows : RowKept(p)'
    BY <1>1, <1>2, <1>3, <2>2, <2>3 DEF RepeatInv, RowKept
  <2>6. ClaimedApart'
    BY <1>1, <2>3 DEF RepeatInv, ClaimedApart
  <2> QED BY <1>1, <1>2, <2>2, <2>4, <2>5, <2>6 DEF RepeatInv
<1>4. CASE ~(GoTo(r, "done") /\ UNCHANGED repeats)
  <2>1. /\ ~(repeats[k] # 0 /\ clock < repeats[k])
        /\ requests' = [requests EXCEPT ![r].step = "readClock", ![r].claimed = clock, ![r].remembered = Room]
        /\ repeats' = IF Room THEN [Swept EXCEPT ![k] = clock + Window] ELSE Swept
    BY <1>1, <1>4 DEF Claim, Remembered
  <2>2. requests'[r].step = "readClock" /\ requests'[r].claimed = clock /\ requests'[r].remembered = Room
    <3> HIDE DEF Room
    <3> QED BY <2>1, RepeatTypes DEF Handler
  <2>3. Claiming(r)' /\ ~At(r, "idle")'
    BY <2>2 DEF Claiming, At
  <2>4. \A j : AlwaysRoom(j)' => AlwaysRoom(j)
    BY <1>1, <1>2 DEF AlwaysRoom
  <2>5. AlwaysRoom(k)' => Room
    <3> HIDE DEF Room
    <3> QED BY <2>2 DEF AlwaysRoom, RepeatInv
  <2>6. /\ AlwaysRoom(k)' => repeats'[k] = clock + Window
        /\ \A j \in Key : j # k /\ clock < repeats[j] => repeats'[j] = repeats[j]
    <3>1. Swept \in [Key -> Nat] /\ \A j \in Key : clock < repeats[j] => Swept[j] = repeats[j]
      BY SweptOK, RepeatTypes DEF RepeatInv, GateInv
    <3> HIDE DEF Swept, Room
    <3> QED BY <1>1, <2>1, <2>5, <3>1
  <2>7. ASSUME NEW q \in Request, Claiming(q), AlwaysRoom(KeyOf[q]) PROVE KeyOf[q] # k
    BY <2>1, <2>7, RepeatTypes DEF RepeatInv, ClaimKept
  <2>8. ASSUME NEW p \in rows, p.life = restarts, AlwaysRoom(KeyOf[p.by]), KeyOf[p.by] = k
        PROVE  clock >= p.claimed + Window
    BY <2>1, <2>8, RepeatTypes DEF RepeatInv, RowKept
  <2>9. clock < clock + Window
    BY RepeatTypes
  <2>10. \A q \in Request : ClaimKept(q)'
    <3>1. ClaimKept(r)'
      <4> SUFFICES ASSUME AlwaysRoom(k)'
          PROVE repeats'[k] = clock + Window /\ \A q \in Request : Claiming(q)' /\ KeyOf[q] = k => q = r
        BY <1>1, <2>2, <2>9 DEF ClaimKept
      <4> QED BY <1>2, <2>4, <2>6, <2>7
    <3>2. ASSUME NEW q \in Request \ {r}, Claiming(q)', AlwaysRoom(KeyOf[q])'
          PROVE  /\ repeats'[KeyOf[q]] = requests'[q].claimed + Window /\ clock' < requests'[q].claimed + Window
                 /\ \A p \in Request : Claiming(p)' /\ KeyOf[p] = KeyOf[q] => p = q
      <4>1. Claiming(q) /\ AlwaysRoom(KeyOf[q]) /\ KeyOf[q] # k /\ KeyOf[q] \in Key
        BY <1>2, <2>4, <2>7, <3>2, RepeatTypes
      <4>2. repeats[KeyOf[q]] = requests[q].claimed + Window /\ clock < requests[q].claimed + Window
            /\ \A p \in Request : Claiming(p) /\ KeyOf[p] = KeyOf[q] => p = q
        BY <4>1 DEF RepeatInv, ClaimKept
      <4> QED BY <1>1, <1>2, <2>6, <4>1, <4>2
    <3> QED BY <3>1, <3>2 DEF ClaimKept
  <2>11. \A p \in rows : RowKept(p)'
    <3> SUFFICES ASSUME NEW p \in rows, p.life = restarts, AlwaysRoom(KeyOf[p.by])'
        PROVE /\ \/ clock >= p.claimed + Window
                 \/ /\ repeats'[KeyOf[p.by]] = p.claimed + Window
                    /\ \A q \in Request : Claiming(q)' => KeyOf[q] # KeyOf[p.by]
              /\ \A q \in Request : Claiming(q)' /\ KeyOf[q] = KeyOf[p.by] => requests'[q].claimed >= p.claimed + Window
      BY <1>1 DEF RowKept
    <3>1. AlwaysRoom(KeyOf[p.by]) /\ KeyOf[p.by] \in Key /\ RowKept(p)
      BY <2>4, RepeatTypes DEF RepeatInv
    <3>2. CASE KeyOf[p.by] = k
      BY <1>2, <2>2, <2>8, <3>1, <3>2 DEF RowKept
    <3>3. CASE KeyOf[p.by] # k
      BY <1>1, <1>2, <2>6, <3>1, <3>3, RepeatTypes DEF RowKept
    <3> QED BY <3>2, <3>3
  <2>12. ClaimedApart'
    BY <1>1, <2>4 DEF RepeatInv, ClaimedApart
  <2> QED BY <1>1, <1>2, <2>3, <2>10, <2>11, <2>12 DEF RepeatInv
<1> QED BY <1>3, <1>4

LEMMA RepeatStep ==
  ASSUME Cap # 0
  PROVE  RepeatInv /\ GateInv' /\ ~late' /\ [GateNext]_gateVars => RepeatInv'
<1> SUFFICES ASSUME RepeatInv, GateInv', ~late', [GateNext]_gateVars PROVE RepeatInv'
  OBVIOUS
<1>1. ASSUME NEW r \in Request, Handle(r) PROVE RepeatInv'
  <2>1. Moved(r)
    BY <1>1, HandleKeeps DEF RepeatInv
  <2>2. CASE ReadClock(r) \/ Look(r) \/ Count(r) \/ Install(r) \/ Admit(r) \/ Return(r)
    <3>1. ~At(r, "idle") /\ UNCHANGED <<repeats, rows>>
      BY <2>2 DEF ReadClock, Look, Count, Install, Admit, Return, At
    <3> QED BY <1>1, <2>1, <3>1, QuietRepeats
  <2> QED BY <1>1, <2>1, <2>2, ClaimRepeats, InsertRepeats, ReleaseRepeats DEF Handle
<1>2. CASE Tick
  <2>1. UNCHANGED <<repeats, rows, requests, restarts>> /\ clock' = clock + 1
        /\ \A r \in InFlight : clock + 1 < requests[r].claimed + Window
    <3>1. UNCHANGED <<repeats, rows, requests, restarts>> /\ clock' = clock + 1
      BY <1>2 DEF Tick
    <3>2. \A r \in InFlight : ~(clock + 1 >= requests[r].claimed + Window)
      BY <1>2, NobodyOutlives
    <3> QED BY <3>1, <3>2, RepeatTypes DEF InFlight
  <2>2. \A r \in Request : (Claiming(r)' <=> Claiming(r)) /\ (Claiming(r) => r \in InFlight) /\ (At(r, "idle")' <=> At(r, "idle"))
    BY <2>1 DEF Claiming, InFlight, At
  <2>3. \A k : AlwaysRoom(k)' <=> AlwaysRoom(k)
    BY <2>1 DEF AlwaysRoom
  <2>4. \A r \in Request : ClaimKept(r)'
    BY <2>1, <2>2, <2>3 DEF RepeatInv, ClaimKept
  <2>5. \A p \in rows : RowKept(p)'
    BY <2>1, <2>2, <2>3, RepeatTypes DEF RepeatInv, RowKept
  <2>6. ClaimedApart' /\ clock' # 0
    BY <2>1, <2>3, RepeatTypes DEF RepeatInv, ClaimedApart
  <2> QED BY <2>1, <2>2, <2>4, <2>5, <2>6 DEF RepeatInv
<1>3. CASE Restart
  <2>1. UNCHANGED <<clock, rows>> /\ restarts' = restarts + 1
    BY <1>3 DEF Restart
  <2>2. \A r \in Request : /\ ~Claiming(r)' /\ requests'[r].claimed = requests[r].claimed
                           /\ requests'[r].remembered = requests[r].remembered /\ (At(r, "idle")' => At(r, "idle"))
    BY <1>3, RepeatTypes DEF Restart, Claiming, InFlight, At, Handler
  <2>3. \A k : AlwaysRoom(k)' <=> AlwaysRoom(k)
    BY <2>2 DEF AlwaysRoom
  <2>4. \A p \in rows : p.life # restarts'
    <3>1. \A p \in rows : p.life <= restarts
      BY DEF RepeatInv, GateInv, RowsOK
    <3> QED BY <2>1, <3>1, RepeatTypes
  <2>5. (\A r \in Request : ClaimKept(r)') /\ (\A p \in rows : RowKept(p)')
    BY <2>2, <2>4 DEF ClaimKept, RowKept
  <2>6. ClaimedApart'
    BY <2>1, <2>3 DEF RepeatInv, ClaimedApart
  <2> QED BY <2>1, <2>2, <2>5, <2>6 DEF RepeatInv
<1>4. CASE UNCHANGED gateVars
  <2>1. UNCHANGED <<clock, repeats, rows, requests, restarts>>
    BY <1>4 DEF gateVars
  <2>2. \A r \in Request : (Claiming(r)' <=> Claiming(r)) /\ (At(r, "idle")' <=> At(r, "idle"))
    BY <2>1 DEF Claiming, At
  <2>3. \A k : AlwaysRoom(k)' <=> AlwaysRoom(k)
    BY <2>1 DEF AlwaysRoom
  <2>4. (\A r \in Request : ClaimKept(r)') /\ (\A p \in rows : RowKept(p)') /\ ClaimedApart'
    BY <2>1, <2>2, <2>3 DEF RepeatInv, ClaimKept, RowKept, ClaimedApart
  <2> QED BY <2>1, <2>2, <2>4 DEF RepeatInv
<1> QED BY <1>1, <1>2, <1>3, <1>4 DEF GateNext, Finished

(* Claim and Release (eventgate.go): until a request has outlived its window  *)
(* or its day, no two events of a key for which the set always had room are   *)
(* stored less than a window apart, whatever requests cross and whichever     *)
(* insert fails.                                                              *)
THEOREM RepeatsAreDropped ==
  ASSUME Cap # 0
  PROVE  GateSpec => []RepeatsDropped
<1>1. GateInit => RepeatInv
  <2> SUFFICES ASSUME GateInit PROVE RepeatInv
    OBVIOUS
  <2>1. rows = {} /\ clock = 1 /\ \A r \in Request : requests[r].step = "idle" /\ requests[r].claimed = 0
    BY DEF GateInit
  <2>2. (\A r \in Request : ClaimKept(r)) /\ (\A p \in rows : RowKept(p)) /\ ClaimedApart
    BY <2>1 DEF ClaimKept, Claiming, ClaimedApart
  <2> QED BY <2>1, <2>2, GateInvInit DEF RepeatInv
<1>2. (late \/ RepeatInv) /\ (late \/ GateInv)' /\ [GateNext]_gateVars => (late \/ RepeatInv)'
  BY RepeatStep, StaysLate
<1>3. late \/ RepeatInv => RepeatsDropped
  BY DEF RepeatInv, RepeatsDropped
<1> QED BY <1>1, <1>2, <1>3, GateInvAlways, PTL DEF GateSpec
=============================================================================
