----------------------------- MODULE Exclusions -----------------------------
(***************************************************************************)
(* The addresses whose visits one business's analytics never store: the    *)
(* list the panel edits (repository/exclusions.go, handlers/exclusions.go),*)
(* the cache the events endpoint reads it through (ipexclude.Set), and the *)
(* visits that TrackEvent looks up, drops or stores.                       *)
(*                                                                         *)
(* An edit is its transaction, statement by statement, and the             *)
(* invalidation that follows; a visit is the two critical sections of the  *)
(* cache with the database read between them, after which it is dropped or *)
(* goes on to the event gate.  Left out are the opt-out cookie and the     *)
(* platform's list, which drop a visit before the list is asked, the sweep *)
(* of expired cache entries, which only frees memory, and the events an    *)
(* add deletes in its transaction.  A range is the set of addresses it     *)
(* covers.                                                                 *)
(***************************************************************************)
EXTENDS Naturals, FiniteSets

CONSTANTS
  Visit, Edit, Address,
  Prefix,               \* the ranges that may be listed, sets of addresses
  None,
  MaxPerBusiness,
  TTL, LastTick,
  ConflictAttempts,
  OutsideEdits          \* whether the table is edited by hand as well

ASSUME ExclusionConstants ==
  /\ Prefix \subseteq SUBSET Address /\ None \notin Edit
  /\ MaxPerBusiness \in Nat \ {0} /\ TTL \in Nat \ {0} /\ LastTick \in Nat
  /\ ConflictAttempts \in Nat \ {0} /\ OutsideEdits \in BOOLEAN

VARIABLES
  clock,
  rows,         \* analytics_excluded_ips
  cached,       \* the list in memory and when it expires, 0 for none
  generation,
  lock,         \* who holds the advisory lock of the list
  visits, edits,
  removals      \* the rows removed, by whom and when

exclusionVars == <<clock, rows, cached, generation, lock, visits, edits, removals>>

Row == [id : Edit, range : SUBSET Address, at : 0..LastTick]

VisitRecord == [
  step : {"idle", "load", "cache", "kept", "dropped", "failed"},
  from : Address \cup {None}, generation : Nat,
  list : SUBSET Row,       \* the list it was matched against
  listed : SUBSET Row,     \* the rows it could count on when it began
  gone : SUBSET Row,       \* and those it could count on being gone
  kept : 0..LastTick]      \* when its read of the list was kept

EditRecord == [
  step : {"idle", "lock", "check", "commit", "delete", "invalidate", "done"},
  outside : BOOLEAN, range : SUBSET Address, attempt : Nat,
  readers : SUBSET Visit]  \* the visits that had read the list without it

(* The types, and that the lock is held exactly by an edit between its     *)
(* first statement and the end of its transaction.                         *)
ExclusionTypeOK ==
  /\ clock \in 0..LastTick
  /\ rows \subseteq Row
  /\ cached \in [list : SUBSET Row, expires : Nat]
  /\ generation \in Nat
  /\ visits \in [Visit -> VisitRecord]
  /\ edits \in [Edit -> EditRecord]
  /\ \A e \in Edit : edits[e].step \in {"check", "commit"} <=> lock = e
  /\ removals \subseteq [row : Row, by : Edit, at : 0..LastTick]

Covers(range, from) == from \in range

Matches(list, from) == \E row \in list : Covers(row.range, from)

(* A list read before the edit may be kept after it, however long after,   *)
(* and counts as fresh from then on.                                       *)
ReadersExpired(e) ==
  \A v \in edits[e].readers : visits[v].step # "cache" /\ clock >= visits[v].kept + TTL

(* A change counts once its edit was answered, and one made by hand once   *)
(* the time to live has passed, since the edit and since every read that   *)
(* was under way then.                                                     *)
Effective(e, at) ==
  IF edits[e].outside THEN clock >= at + TTL /\ ReadersExpired(e)
  ELSE edits[e].step = "done"

Listed == {row \in rows : Effective(row.id, row.at)}

Gone == {r.row : r \in {s \in removals : Effective(s.by, s.at)}}
-----------------------------------------------------------------------------
ExclusionInit ==
  /\ clock = 0 /\ rows = {}
  /\ cached = [list |-> {}, expires |-> 0] /\ generation = 0 /\ lock = None
  /\ visits = [v \in Visit |-> [step |-> "idle", from |-> None, generation |-> 0,
                                list |-> {}, listed |-> {}, gone |-> {}, kept |-> 0]]
  /\ edits = [e \in Edit |-> [step |-> "idle", outside |-> FALSE, range |-> {}, attempt |-> 1,
                              readers |-> {}]]
  /\ removals = {}

-----------------------------------------------------------------------------
(* Visits.                                                                 *)

FreshForever == cached.expires # 0

Fresh == clock < cached.expires

Verdict(list, from) == IF Matches(list, from) THEN "dropped" ELSE "kept"

(* businessList, first critical section: a list in memory is used while it *)
(* is fresh; otherwise the generation is remembered and the list read.     *)
LookUp(v) ==
  /\ visits[v].step = "idle"
  /\ \E from \in Address : visits' = [visits EXCEPT ![v] =
       [@ EXCEPT !.from = from,
                 !.step = IF Fresh THEN Verdict(cached.list, from) ELSE "load",
                 !.list = IF Fresh THEN cached.list ELSE {},
                 !.generation = generation, !.listed = Listed, !.gone = Gone]]
  /\ UNCHANGED <<clock, rows, cached, generation, lock, edits, removals>>

(* Outside the lock.  A read that fails ends the visit, nothing stored.    *)
Load(v) ==
  /\ visits[v].step = "load"
  /\ \/ visits' = [visits EXCEPT ![v].step = "cache", ![v].list = rows]
     \/ visits' = [visits EXCEPT ![v].step = "failed"]
  /\ UNCHANGED <<clock, rows, cached, generation, lock, edits, removals>>

AlwaysUnmoved(v) == TRUE

Unmoved(v) == generation = visits[v].generation

(* Second critical section, as long after the read as the read took to     *)
(* answer: the list is kept when no change was announced since the         *)
(* generation was remembered, for a time to live that begins now, and used *)
(* either way.                                                             *)
Keep(v) ==
  /\ visits[v].step = "cache"
  /\ cached' = IF Unmoved(v) THEN [list |-> visits[v].list, expires |-> clock + TTL] ELSE cached
  /\ visits' = [visits EXCEPT ![v].step = Verdict(visits[v].list, visits[v].from),
                              ![v].kept = clock]
  /\ UNCHANGED <<clock, rows, generation, lock, edits, removals>>

-----------------------------------------------------------------------------
(* Edits.                                                                  *)

GoTo(e, step) == edits' = [edits EXCEPT ![e].step = step]

ArriveToAdd(e) ==
  /\ edits[e].step = "idle"
  /\ \E range \in Prefix : edits' = [edits EXCEPT ![e].step = "lock", ![e].range = range]
  /\ UNCHANGED <<clock, rows, cached, generation, lock, visits, removals>>

(* A lock that keeps nobody out.                                           *)
TakeLockShared(e) ==
  /\ edits[e].step = "lock"
  /\ lock' = e
  /\ GoTo(e, "check")
  /\ UNCHANGED <<clock, rows, cached, generation, visits, removals>>

TakeLock(e) ==
  /\ edits[e].step = "lock" /\ lock = None
  /\ lock' = e
  /\ GoTo(e, "check")
  /\ UNCHANGED <<clock, rows, cached, generation, visits, removals>>

CoveredExactly(range) == \E row \in rows : range = row.range

Covered(range) == \E row \in rows : range \subseteq row.range

(* A refusal that leaves the transaction open.                             *)
CheckKeepingLock(e) ==
  /\ edits[e].step = "check"
  /\ GoTo(e, IF Covered(edits[e].range) \/ Cardinality(rows) >= MaxPerBusiness
             THEN "invalidate" ELSE "commit")
  /\ UNCHANGED <<clock, rows, cached, generation, lock, visits, removals>>

(* A range already covered, or one entry too many, is refused.             *)
Check(e) ==
  LET refused == Covered(edits[e].range) \/ Cardinality(rows) >= MaxPerBusiness IN
  /\ edits[e].step = "check"
  /\ GoTo(e, IF refused THEN "invalidate" ELSE "commit")
  /\ lock' = IF refused THEN None ELSE lock
  /\ UNCHANGED <<clock, rows, cached, generation, visits, removals>>

(* The entry commits, or is rolled back: for good, or to be run again      *)
(* after a lost lock conflict.  A range entered by hand meanwhile is a     *)
(* unique violation.                                                       *)
Commit(e) ==
  /\ edits[e].step = "commit"
  /\ \/ /\ ~CoveredExactly(edits[e].range)
        /\ rows' = rows \cup {[id |-> e, range |-> edits[e].range, at |-> clock]}
        /\ GoTo(e, "invalidate")
     \/ /\ edits[e].attempt < ConflictAttempts
        /\ edits' = [edits EXCEPT ![e].step = "lock", ![e].attempt = @ + 1]
        /\ UNCHANGED rows
     \/ GoTo(e, "invalidate") /\ UNCHANGED rows
  /\ lock' = None
  /\ UNCHANGED <<clock, cached, generation, visits, removals>>

ArriveToRemove(e) ==
  /\ edits[e].step = "idle" /\ rows # {}
  /\ GoTo(e, "delete")
  /\ UNCHANGED <<clock, rows, cached, generation, lock, visits, removals>>

(* A removal is one statement and takes no lock of the list.               *)
DeleteRow(e) ==
  /\ edits[e].step = "delete"
  /\ \/ \E row \in rows :
          /\ rows' = rows \ {row}
          /\ removals' = removals \cup {[row |-> row, by |-> e, at |-> clock]}
     \/ UNCHANGED <<rows, removals>>
  /\ GoTo(e, "invalidate")
  /\ UNCHANGED <<clock, cached, generation, lock, visits>>

(* An invalidation that lets a read already under way be kept.             *)
InvalidateEntryOnly(e) ==
  /\ edits[e].step = "invalidate"
  /\ cached' = [list |-> {}, expires |-> 0]
  /\ GoTo(e, "done")
  /\ UNCHANGED <<clock, rows, generation, lock, visits, removals>>

(* Whatever the outcome, before the request is answered.                   *)
Invalidate(e) ==
  /\ edits[e].step = "invalidate"
  /\ cached' = [list |-> {}, expires |-> 0]
  /\ generation' = generation + 1
  /\ GoTo(e, "done")
  /\ UNCHANGED <<clock, rows, lock, visits, removals>>

(* A change made in psql: neither checked nor announced.                   *)
EditOutside(e) ==
  /\ OutsideEdits /\ edits[e].step = "idle"
  /\ edits' = [edits EXCEPT ![e].step = "done", ![e].outside = TRUE,
                            ![e].readers = {v \in Visit : visits[v].step = "cache"}]
  /\ \/ \E range \in {r \in Prefix : ~CoveredExactly(r)} :
          /\ rows' = rows \cup {[id |-> e, range |-> range, at |-> clock]}
          /\ UNCHANGED removals
     \/ \E row \in rows :
          /\ rows' = rows \ {row}
          /\ removals' = removals \cup {[row |-> row, by |-> e, at |-> clock]}
  /\ UNCHANGED <<clock, cached, generation, lock, visits>>

(* Another business's list changes: all it does here is move the counter.  *)
EditElsewhere ==
  /\ \E v \in Visit : visits[v].step \in {"load", "cache"} /\ Unmoved(v)
  /\ generation' = generation + 1
  /\ UNCHANGED <<clock, rows, cached, lock, visits, edits, removals>>

(* Time passes, whatever is under way.                                     *)
Tick ==
  /\ clock < LastTick
  /\ clock' = clock + 1
  /\ UNCHANGED <<rows, cached, generation, lock, visits, edits, removals>>

Finished ==
  /\ clock = LastTick
  /\ \A v \in Visit : visits[v].step \in {"kept", "dropped", "failed"}
  /\ \A e \in Edit : edits[e].step = "done"
  /\ UNCHANGED exclusionVars

ExclusionNext ==
  \/ \E v \in Visit : LookUp(v) \/ Load(v) \/ Keep(v)
  \/ \E e \in Edit :
       \/ ArriveToAdd(e) \/ TakeLock(e) \/ Check(e) \/ Commit(e)
       \/ ArriveToRemove(e) \/ DeleteRow(e) \/ Invalidate(e) \/ EditOutside(e)
  \/ EditElsewhere \/ Tick \/ Finished

ExclusionSpec == ExclusionInit /\ [][ExclusionNext]_exclusionVars
-----------------------------------------------------------------------------
(* Properties.                                                             *)

(* Invalidate: once an entry's add has been answered, the very next visit  *)
(* from its range is dropped, for as long as the entry stays.  One entered *)
(* by hand is dropped from the end of the time to live, counted from the   *)
(* entry and from the end of every read of the list then under way.        *)
ListedVisitsDropped ==
  \A v \in Visit : visits[v].step = "kept" =>
    ~Matches(visits[v].listed \cap rows, visits[v].from)

(* DefaultTTL says that the time to live is all that bounds how long an    *)
(* edit made by hand goes unnoticed: a list used once it has passed since  *)
(* the edit shows the edit.                                                *)
OutsideEditsNoticed ==
  Fresh => \A row \in rows :
    edits[row.id].outside /\ clock >= row.at + TTL => row \in cached.list

(* The other way round: no visit is dropped for an entry whose removal was *)
(* answered before the visit began, however slow a read of the list was.   *)
OtherVisitsKept ==
  \A v \in Visit : visits[v].step = "dropped" =>
    Matches(visits[v].list \ visits[v].gone, visits[v].from)

(* AddExcludedIP: adds running side by side never exceed the limit.        *)
LimitHolds == Cardinality(rows) <= MaxPerBusiness

(* AddExcludedIP: no range is added under one that covers it, even by two  *)
(* adds running side by side; only a broader one may follow.               *)
NoRedundantEntry ==
  [][\A row \in rows' \ rows : ~\E other \in rows : row.range \subseteq other.range]_rows
=============================================================================
