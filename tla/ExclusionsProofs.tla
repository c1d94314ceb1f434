-------------------------- MODULE ExclusionsProofs --------------------------
(***************************************************************************)
(* Proofs about the exclusion list, for every number of visits and edits,  *)
(* every limit and every set of ranges, as long as nobody edits the table  *)
(* by hand: the limit holds and no entry is redundant, whatever adds run   *)
(* side by side; a visit is dropped exactly when it should be, whatever    *)
(* reads of the list race the edits.                                       *)
(***************************************************************************)
EXTENDS Exclusions, FiniteSetTheorems, TLAPS

EditStep(e) ==
  \/ ArriveToAdd(e) \/ TakeLock(e) \/ Check(e) \/ Commit(e)
  \/ ArriveToRemove(e) \/ DeleteRow(e) \/ Invalidate(e) \/ EditOutside(e)

-----------------------------------------------------------------------------
(* Types.                                                                  *)

LEMMA InitTyped == ASSUME ExclusionInit PROVE ExclusionTypeOK
BY ExclusionConstants
DEF ExclusionInit, ExclusionTypeOK, VisitRecord, EditRecord, Row

LEMMA RowsTyped == ASSUME ExclusionTypeOK PROVE Listed \subseteq Row /\ Gone \subseteq Row
BY DEF ExclusionTypeOK, Listed, Gone

LEMMA VisitTyped ==
  ASSUME ExclusionTypeOK, NEW v \in Visit, LookUp(v) \/ Load(v) \/ Keep(v)
  PROVE  ExclusionTypeOK'
<1>1. CASE LookUp(v)
  <2>1. PICK from \in Address : visits' = [visits EXCEPT ![v] =
           [@ EXCEPT !.from = from,
                     !.step = IF Fresh THEN Verdict(cached.list, from) ELSE "load",
                     !.list = IF Fresh THEN cached.list ELSE {},
                     !.generation = generation, !.listed = Listed, !.gone = Gone]]
    BY <1>1 DEF LookUp
  <2>2. cached.list \in SUBSET Row /\ generation \in Nat /\ visits[v] \in VisitRecord
    BY DEF ExclusionTypeOK
  <2>3. Verdict(cached.list, from) \in {"dropped", "kept"}
    BY DEF Verdict
  <2>4. visits'[v] \in VisitRecord
    BY <2>1, <2>2, <2>3, RowsTyped DEF ExclusionTypeOK, VisitRecord
  <2>5. visits' \in [Visit -> VisitRecord]
    BY <2>1, <2>4 DEF ExclusionTypeOK
  <2> QED BY <1>1, <2>5 DEF LookUp, ExclusionTypeOK
<1>2. CASE Load(v)
  <2>1. visits' \in [Visit -> VisitRecord]
    BY <1>2 DEF Load, ExclusionTypeOK, VisitRecord
  <2> QED BY <1>2, <2>1 DEF Load, ExclusionTypeOK
<1>3. CASE Keep(v)
  <2>1. Verdict(visits[v].list, visits[v].from) \in {"dropped", "kept"}
    BY DEF Verdict
  <2>2. visits' \in [Visit -> VisitRecord]
    <3>1. /\ visits[v] \in VisitRecord /\ clock \in 0..LastTick
          /\ visits' = [visits EXCEPT ![v] =
               [@ EXCEPT !.step = Verdict(visits[v].list, visits[v].from), !.kept = clock]]
      BY <1>3 DEF Keep, ExclusionTypeOK
    <3>2. visits'[v] \in VisitRecord
      BY <2>1, <3>1 DEF ExclusionTypeOK, VisitRecord
    <3> QED BY <3>1, <3>2 DEF ExclusionTypeOK
  <2>3. cached' \in [list : SUBSET Row, expires : Nat]
    BY <1>3, ExclusionConstants DEF Keep, ExclusionTypeOK, VisitRecord
  <2> QED BY <1>3, <2>2, <2>3 DEF Keep, ExclusionTypeOK
<1> QED BY <1>1, <1>2, <1>3

(* What an edit's step does to the edits themselves and to the lock.       *)
LEMMA EditsTyped ==
  ASSUME ExclusionTypeOK, NEW e \in Edit, EditStep(e)
  PROVE  edits' \in [Edit -> EditRecord]
<1>0. edits[e] \in EditRecord /\ edits \in [Edit -> EditRecord] /\ ConflictAttempts \in Nat
  BY ExclusionConstants DEF ExclusionTypeOK
<1>1. CASE ArriveToAdd(e)
  <2>1. PICK range \in Prefix :
          edits' = [edits EXCEPT ![e].step = "lock", ![e].range = range]
    BY <1>1 DEF ArriveToAdd
  <2>2. range \in SUBSET Address
    BY ExclusionConstants
  <2> QED BY <1>0, <2>1, <2>2 DEF EditRecord
<1>2. CASE Check(e)
  <2>1. PICK step \in {"invalidate", "commit"} : GoTo(e, step)
    BY <1>2 DEF Check
  <2> QED BY <1>0, <2>1 DEF GoTo, EditRecord
<1>3. CASE Commit(e)
  BY <1>0, <1>3 DEF Commit, GoTo, EditRecord
<1>4. CASE TakeLock(e)
  BY <1>0, <1>4 DEF TakeLock, GoTo, EditRecord
<1>5. CASE ArriveToRemove(e)
  BY <1>0, <1>5 DEF ArriveToRemove, GoTo, EditRecord
<1>6. CASE DeleteRow(e)
  BY <1>0, <1>6 DEF DeleteRow, GoTo, EditRecord
<1>7. CASE Invalidate(e)
  BY <1>0, <1>7 DEF Invalidate, GoTo, EditRecord
<1>8. CASE EditOutside(e)
  BY <1>0, <1>8 DEF EditOutside, EditRecord
<1> QED BY <1>1, <1>2, <1>3, <1>4, <1>5, <1>6, <1>7, <1>8 DEF EditStep

HoldsLock(f) == edits[f].step \in {"check", "commit"}

LEMMA LockHeld ==
  ASSUME ExclusionTypeOK, NEW e \in Edit, EditStep(e), NEW f \in Edit
  PROVE  HoldsLock(f)' <=> lock' = f
<1>0. /\ \A g \in Edit : HoldsLock(g) <=> lock = g
      /\ None \notin Edit
      /\ edits \in [Edit -> EditRecord]
  BY ExclusionConstants DEF ExclusionTypeOK, HoldsLock
<1>1. f # e => edits'[f] = edits[f]
  BY <1>0 DEF EditStep, ArriveToAdd, TakeLock, Check, Commit, ArriveToRemove, DeleteRow,
              Invalidate, EditOutside, GoTo
<1>2. CASE TakeLock(e)
  <2>1. edits'[e].step = "check" /\ lock' = e /\ lock = None
    BY <1>0, <1>2 DEF TakeLock, GoTo, EditRecord
  <2> QED BY <1>0, <1>1, <2>1 DEF HoldsLock
<1>3. CASE Check(e)
  <2>1. lock = e
    BY <1>0, <1>3 DEF Check, HoldsLock
  <2>2. \/ edits'[e].step = "invalidate" /\ lock' = None
        \/ edits'[e].step = "commit" /\ lock' = lock
    BY <1>0, <1>3 DEF Check, GoTo, EditRecord
  <2> QED BY <1>0, <1>1, <2>1, <2>2 DEF HoldsLock
<1>4. CASE Commit(e)
  <2>1. lock = e
    BY <1>0, <1>4 DEF Commit, HoldsLock
  <2>2. lock' = None /\ edits'[e].step \in {"lock", "invalidate"}
    BY <1>0, <1>4 DEF Commit, GoTo, EditRecord
  <2> QED BY <1>0, <1>1, <2>1, <2>2 DEF HoldsLock
<1>5. CASE ArriveToAdd(e) \/ ArriveToRemove(e) \/ DeleteRow(e) \/ Invalidate(e) \/ EditOutside(e)
  <2>1. lock' = lock
    BY <1>5 DEF ArriveToAdd, ArriveToRemove, DeleteRow, Invalidate, EditOutside
  <2>2. edits[e].step \in {"idle", "delete", "invalidate"}
    BY <1>5 DEF ArriveToAdd, ArriveToRemove, DeleteRow, Invalidate, EditOutside
  <2>3. edits'[e].step \in {"lock", "delete", "invalidate", "done"}
    <3>1. CASE ArriveToAdd(e)
      BY <1>0, <3>1 DEF ArriveToAdd, EditRecord
    <3>2. CASE EditOutside(e)
      BY <1>0, <3>2 DEF EditOutside, EditRecord
    <3>3. CASE ArriveToRemove(e) \/ DeleteRow(e) \/ Invalidate(e)
      BY <1>0, <3>3 DEF ArriveToRemove, DeleteRow, Invalidate, GoTo, EditRecord
    <3> QED BY <1>5, <3>1, <3>2, <3>3
  <2> QED BY <1>0, <1>1, <2>1, <2>2, <2>3 DEF HoldsLock
<1> QED BY <1>2, <1>3, <1>4, <1>5 DEF EditStep

LEMMA EditTyped ==
  ASSUME ExclusionTypeOK, NEW e \in Edit, EditStep(e)
  PROVE  ExclusionTypeOK'
<1>1. edits' \in [Edit -> EditRecord]
  BY EditsTyped
<1>2. \A f \in Edit : edits'[f].step \in {"check", "commit"} <=> lock' = f
  BY LockHeld DEF HoldsLock
<1>3. rows' \subseteq Row /\ removals' \subseteq [row : Row, by : Edit, at : 0..LastTick]
  <2>0. rows \subseteq Row /\ edits[e] \in EditRecord /\ clock \in 0..LastTick
        /\ removals \subseteq [row : Row, by : Edit, at : 0..LastTick]
    BY DEF ExclusionTypeOK
  <2>1. CASE Commit(e)
    <3>1. edits[e].range \in SUBSET Address
      BY <2>0 DEF EditRecord
    <3>2. removals' = removals /\ (rows' = rows
            \/ rows' = rows \cup {[id |-> e, range |-> edits[e].range, at |-> clock]})
      BY <2>1 DEF Commit
    <3> QED BY <2>0, <3>1, <3>2 DEF Row
  <2>2. CASE DeleteRow(e)
    BY <2>0, <2>2 DEF DeleteRow
  <2>3. CASE EditOutside(e)
    BY <2>0, <2>3, ExclusionConstants DEF EditOutside, Row
  <2>4. CASE rows' = rows /\ removals' = removals
    BY <2>0, <2>4
  <2> QED BY <2>1, <2>2, <2>3, <2>4
          DEF EditStep, ArriveToAdd, TakeLock, Check, ArriveToRemove, Invalidate
<1>4. clock' = clock /\ visits' = visits
  BY DEF EditStep, ArriveToAdd, TakeLock, Check, Commit, ArriveToRemove, DeleteRow,
         Invalidate, EditOutside
<1>5. \/ cached' = cached /\ generation' = generation
      \/ cached' = [list |-> {}, expires |-> 0] /\ generation' = generation + 1
  BY DEF EditStep, ArriveToAdd, TakeLock, Check, Commit, ArriveToRemove, DeleteRow,
         Invalidate, EditOutside
<1> QED BY <1>1, <1>2, <1>3, <1>4, <1>5 DEF ExclusionTypeOK

LEMMA StepTyped == ASSUME ExclusionTypeOK, [ExclusionNext]_exclusionVars PROVE ExclusionTypeOK'
<1>1. CASE UNCHANGED exclusionVars
  BY <1>1 DEF exclusionVars, ExclusionTypeOK
<1>2. CASE EditElsewhere
  BY <1>2 DEF EditElsewhere, ExclusionTypeOK
<1>3. CASE Tick
  BY <1>3, ExclusionConstants DEF Tick, ExclusionTypeOK
<1>4. CASE Finished
  BY <1>1, <1>4 DEF Finished
<1> QED BY <1>1, <1>2, <1>3, <1>4, VisitTyped, EditTyped DEF ExclusionNext, EditStep

(* ExclusionTypeOK: no step leaves the state space, and the lock of the    *)
(* list is held exactly by the add whose transaction is open.              *)
THEOREM ExclusionsTyped == ExclusionSpec => []ExclusionTypeOK
<1>1. ExclusionInit => ExclusionTypeOK
  BY InitTyped
<1>2. ExclusionTypeOK /\ [ExclusionNext]_exclusionVars => ExclusionTypeOK'
  BY StepTyped
<1> QED BY <1>1, <1>2, PTL DEF ExclusionSpec
-----------------------------------------------------------------------------
(* The list itself.                                                        *)

(* What the check found still stands at the commit: the lock keeps every   *)
(* other add out in between, and a removal only shrinks the list.          *)
CommitChecked ==
  \A e \in Edit : edits[e].step = "commit" =>
    ~Covered(edits[e].range) /\ Cardinality(rows) < MaxPerBusiness

ListInv == ExclusionTypeOK /\ IsFiniteSet(rows) /\ LimitHolds /\ CommitChecked

(* Only a commit adds a row, the one it checked.                           *)
LEMMA RowsMove ==
  ASSUME ListInv, OutsideEdits = FALSE, [ExclusionNext]_exclusionVars
  PROVE  \/ rows' \subseteq rows
         \/ \E e \in Edit :
              /\ edits[e].step = "commit"
              /\ edits'[e].step = "invalidate"
              /\ rows' = rows \cup {[id |-> e, range |-> edits[e].range, at |-> clock]}
<1>1. ASSUME NEW e \in Edit, Commit(e)
      PROVE  \/ rows' \subseteq rows
             \/ /\ edits[e].step = "commit"
                /\ edits'[e].step = "invalidate"
                /\ rows' = rows \cup {[id |-> e, range |-> edits[e].range, at |-> clock]}
  <2>1. edits \in [Edit -> EditRecord]
    BY DEF ListInv, ExclusionTypeOK
  <2> QED BY <1>1, <2>1 DEF Commit, GoTo, EditRecord
<1>2. ASSUME NEW e \in Edit, EditStep(e), ~Commit(e)
      PROVE  rows' \subseteq rows
  BY <1>2 DEF EditStep, ArriveToAdd, TakeLock, Check, ArriveToRemove, DeleteRow,
              Invalidate, EditOutside
<1>3. ASSUME NEW v \in Visit, LookUp(v) \/ Load(v) \/ Keep(v)
      PROVE  rows' \subseteq rows
  BY <1>3 DEF LookUp, Load, Keep
<1>4. CASE EditElsewhere \/ Tick \/ Finished \/ UNCHANGED exclusionVars
  BY <1>4 DEF EditElsewhere, Tick, Finished, exclusionVars
<1> QED BY <1>1, <1>2, <1>3, <1>4 DEF ExclusionNext, EditStep

LEMMA LimitStep ==
  ASSUME ListInv, OutsideEdits = FALSE, [ExclusionNext]_exclusionVars
  PROVE  IsFiniteSet(rows') /\ Cardinality(rows') <= MaxPerBusiness
<1>0. IsFiniteSet(rows) /\ Cardinality(rows) \in Nat /\ Cardinality(rows) <= MaxPerBusiness
  BY FS_CardinalityType DEF ListInv, LimitHolds
<1>m. MaxPerBusiness \in Nat
  BY ExclusionConstants
<1>1. CASE rows' \subseteq rows
  <2>1. IsFiniteSet(rows') /\ Cardinality(rows') <= Cardinality(rows)
    BY <1>0, <1>1, FS_Subset
  <2>2. Cardinality(rows') \in Nat
    BY <2>1, FS_CardinalityType
  <2> QED BY <1>0, <1>m, <2>1, <2>2
<1>2. ASSUME NEW e \in Edit,
             edits[e].step = "commit",
             rows' = rows \cup {[id |-> e, range |-> edits[e].range, at |-> clock]}
      PROVE  IsFiniteSet(rows') /\ Cardinality(rows') <= MaxPerBusiness
  <2> DEFINE row == [id |-> e, range |-> edits[e].range, at |-> clock]
  <2>1. Cardinality(rows) < MaxPerBusiness
    BY <1>2 DEF ListInv, CommitChecked
  <2>2. /\ IsFiniteSet(rows')
        /\ \/ Cardinality(rows') = Cardinality(rows)
           \/ Cardinality(rows') = Cardinality(rows) + 1
    <3> HIDE DEF row
    <3>1. rows' = rows \cup {row}
      BY <1>2 DEF row
    <3> QED BY <1>0, <3>1, FS_AddElement
  <2> QED BY <1>0, <1>m, <2>1, <2>2
<1> QED BY <1>1, <1>2, RowsMove

LEMMA CheckedStep ==
  ASSUME ListInv, OutsideEdits = FALSE, [ExclusionNext]_exclusionVars
  PROVE  CommitChecked'
<1>0. ExclusionTypeOK /\ ExclusionTypeOK'
  BY StepTyped DEF ListInv
<1> SUFFICES ASSUME NEW e \in Edit, edits'[e].step = "commit"
             PROVE  /\ ~\E row \in rows' : edits'[e].range \subseteq row.range
                    /\ Cardinality(rows') < MaxPerBusiness
  BY DEF CommitChecked, Covered
<1>1. CASE Check(e)
  <2>1. ~Covered(edits[e].range) /\ ~(Cardinality(rows) >= MaxPerBusiness)
    BY <1>0, <1>1 DEF Check, GoTo, ExclusionTypeOK, EditRecord
  <2>2. rows' = rows /\ edits'[e].range = edits[e].range
    BY <1>0, <1>1 DEF Check, GoTo, ExclusionTypeOK, EditRecord
  <2>3. Cardinality(rows) \in Nat /\ MaxPerBusiness \in Nat
    BY FS_CardinalityType, ExclusionConstants DEF ListInv
  <2> QED BY <2>1, <2>2, <2>3 DEF Covered
<1>2. CASE ~Check(e)
  <2>1. edits[e].step = "commit" /\ edits'[e].range = edits[e].range
    <3>0. edits \in [Edit -> EditRecord]
      BY <1>0 DEF ExclusionTypeOK
    <3>1. ASSUME NEW f \in Edit, EditStep(f), f # e
          PROVE  edits'[e] = edits[e]
      BY <3>0, <3>1 DEF EditStep, ArriveToAdd, TakeLock, Check, Commit, ArriveToRemove,
                        DeleteRow, Invalidate, EditOutside, GoTo
    <3>2. ~EditStep(e)
      BY <1>2, <3>0 DEF EditStep, ArriveToAdd, TakeLock, Commit, ArriveToRemove,
                        DeleteRow, Invalidate, EditOutside, GoTo, EditRecord
    <3>3. CASE \E f \in Edit : EditStep(f)
      BY <3>1, <3>2, <3>3
    <3>4. CASE edits' = edits
      BY <3>4
    <3> QED BY <3>3, <3>4 DEF ExclusionNext, EditStep, LookUp, Load, Keep, EditElsewhere,
                              Tick, Finished, exclusionVars
  <2>2. rows' \subseteq rows
    <3>1. ASSUME NEW f \in Edit, edits[f].step = "commit", edits'[f].step = "invalidate"
          PROVE  FALSE
      BY <1>0, <2>1, <3>1 DEF ExclusionTypeOK
    <3> QED BY <3>1, RowsMove
  <2>3. Cardinality(rows') < MaxPerBusiness
    <3>1. Cardinality(rows) < MaxPerBusiness /\ IsFiniteSet(rows)
      BY <2>1 DEF ListInv, CommitChecked
    <3>2. Cardinality(rows') <= Cardinality(rows) /\ IsFiniteSet(rows')
      BY <2>2, <3>1, FS_Subset
    <3>3. Cardinality(rows) \in Nat /\ Cardinality(rows') \in Nat /\ MaxPerBusiness \in Nat
      BY <3>1, <3>2, FS_CardinalityType, ExclusionConstants
    <3> QED BY <3>1, <3>2, <3>3
  <2> QED BY <2>1, <2>2, <2>3 DEF ListInv, CommitChecked, Covered
<1> QED BY <1>1, <1>2

LEMMA ListInvariant ==
  ASSUME OutsideEdits = FALSE PROVE ExclusionSpec => []ListInv
<1>1. ExclusionInit => ListInv
  <2>1. ASSUME ExclusionInit PROVE ListInv
    <3>1. IsFiniteSet(rows) /\ Cardinality(rows) = 0
      BY <2>1, FS_EmptySet DEF ExclusionInit
    <3> QED BY <2>1, <3>1, InitTyped, ExclusionConstants
            DEF ListInv, LimitHolds, CommitChecked, ExclusionInit
  <2> QED BY <2>1
<1>2. ListInv /\ [ExclusionNext]_exclusionVars => ListInv'
  <2>1. ASSUME ListInv, [ExclusionNext]_exclusionVars PROVE ListInv'
    <3>1. ExclusionTypeOK'
      BY <2>1, StepTyped DEF ListInv
    <3>2. IsFiniteSet(rows)' /\ LimitHolds'
      BY <2>1, LimitStep DEF LimitHolds
    <3>3. CommitChecked'
      BY <2>1, CheckedStep
    <3> QED BY <3>1, <3>2, <3>3 DEF ListInv
  <2> QED BY <2>1
<1> QED BY <1>1, <1>2, PTL DEF ExclusionSpec

(* LimitHolds: however many adds run side by side, a business's list never *)
(* grows past its limit, because each counts under the list's lock.        *)
THEOREM ExclusionsLimit ==
  ASSUME OutsideEdits = FALSE PROVE ExclusionSpec => []LimitHolds
<1>1. ListInv => LimitHolds
  BY DEF ListInv
<1> QED BY <1>1, ListInvariant, PTL

(* NoRedundantEntry: no add ever succeeds under an entry that covers it.   *)
THEOREM ExclusionsNoRedundant ==
  ASSUME OutsideEdits = FALSE PROVE ExclusionSpec => NoRedundantEntry
<1> DEFINE A == \A row \in rows' \ rows : ~\E other \in rows : row.range \subseteq other.range
<1>1. ListInv /\ [ExclusionNext]_exclusionVars => [A]_rows
  <2>1. ASSUME ListInv, [ExclusionNext]_exclusionVars PROVE A
    <3>1. CASE rows' \subseteq rows
      BY <3>1
    <3>2. ASSUME NEW e \in Edit, edits[e].step = "commit",
                 rows' = rows \cup {[id |-> e, range |-> edits[e].range, at |-> clock]}
          PROVE  A
      BY <2>1, <3>2 DEF ListInv, CommitChecked, Covered
    <3> QED BY <2>1, <3>1, <3>2, RowsMove
  <2> QED BY <2>1
<1> QED BY <1>1, ListInvariant, PTL DEF ExclusionSpec, NoRedundantEntry
-----------------------------------------------------------------------------
(* The cache.                                                              *)

Past(e) == edits[e].step \in {"invalidate", "done"}

Removed == {r.row : r \in removals}

(* Nobody edits by hand; a row is in the list, on its way out of it, or in *)
(* what a visit counts on, only once its add has committed; a removed row  *)
(* never comes back.                                                       *)
HistoryOK ==
  /\ \A e \in Edit : ~edits[e].outside
  /\ \A row \in rows : Past(row.id)
  /\ \A r \in removals : Past(r.by) /\ Past(r.row.id) /\ r.row \notin rows
  /\ \A v \in Visit : \A row \in visits[v].listed : Past(row.id)
  /\ \A v \in Visit : visits[v].gone \subseteq Removed

(* A list holds every row that counts and none that counts as gone.        *)
Current(list) == Listed \subseteq list /\ Gone \cap list = {}

(* What is cached is current, and so is what a visit is about to cache     *)
(* unless the generation has moved since the visit began.                  *)
CacheOK ==
  /\ cached.expires # 0 => Current(cached.list)
  /\ \A v \in Visit : visits[v].generation <= generation
  /\ \A v \in Visit : visits[v].step = "cache" /\ Unmoved(v) => Current(visits[v].list)

(* A visit is matched against a list that holds what it could count on.    *)
MatchOK ==
  \A v \in Visit : visits[v].step \in {"cache", "kept", "dropped"} =>
    /\ visits[v].listed \cap rows \subseteq visits[v].list
    /\ visits[v].gone \cap visits[v].list = {}
    /\ visits[v].step # "cache" => visits[v].step = Verdict(visits[v].list, visits[v].from)

CacheInv == ExclusionTypeOK /\ HistoryOK /\ CacheOK /\ MatchOK

LEMMA HistoryInit == ASSUME ExclusionInit PROVE HistoryOK /\ CacheOK /\ MatchOK
BY DEF ExclusionInit, HistoryOK, CacheOK, MatchOK, Removed

(* No edit is ever undone, nor made by hand when nobody does.              *)
LEMMA PastStays ==
  ASSUME ExclusionTypeOK, OutsideEdits = FALSE, [ExclusionNext]_exclusionVars, NEW e \in Edit
  PROVE  /\ Past(e) => Past(e)'
         /\ ~edits[e].outside => ~edits'[e].outside
<1>0. edits \in [Edit -> EditRecord]
  BY DEF ExclusionTypeOK
<1>1. ASSUME NEW f \in Edit, EditStep(f), f # e
      PROVE  edits'[e] = edits[e]
  BY <1>0, <1>1 DEF EditStep, ArriveToAdd, TakeLock, Check, Commit, ArriveToRemove,
                    DeleteRow, Invalidate, EditOutside, GoTo
<1>2. ASSUME EditStep(e)
      PROVE  /\ Past(e) => Past(e)'
             /\ ~edits[e].outside => ~edits'[e].outside
  <2>1. CASE ArriveToAdd(e)
    <3>1. PICK range \in Prefix :
            edits' = [edits EXCEPT ![e].step = "lock", ![e].range = range]
      BY <2>1 DEF ArriveToAdd
    <3> QED BY <1>0, <2>1, <3>1 DEF ArriveToAdd, Past, EditRecord
  <2>2. CASE TakeLock(e) \/ Check(e) \/ Commit(e) \/ ArriveToRemove(e)
    BY <1>0, <2>2 DEF TakeLock, Check, Commit, ArriveToRemove, GoTo, Past, EditRecord
  <2>3. CASE DeleteRow(e) \/ Invalidate(e)
    BY <1>0, <2>3 DEF DeleteRow, Invalidate, GoTo, Past, EditRecord
  <2> QED BY <1>2, <2>1, <2>2, <2>3 DEF EditStep, EditOutside
<1>3. CASE edits' = edits
  BY <1>3 DEF Past
<1>4. (\E f \in Edit : EditStep(f)) \/ edits' = edits
  BY DEF ExclusionNext, EditStep, LookUp, Load, Keep, EditElsewhere, Tick, Finished, exclusionVars
<1> QED BY <1>1, <1>2, <1>3, <1>4 DEF Past

(* The rows and the removals change by a commit or by a removal only.      *)
LEMMA ListMoves ==
  ASSUME CacheInv, OutsideEdits = FALSE, [ExclusionNext]_exclusionVars
  PROVE  \/ rows' = rows /\ removals' = removals
         \/ \E e \in Edit :
              /\ edits'[e].step = "invalidate"
              /\ removals' = removals
              /\ rows' = rows \cup {[id |-> e, range |-> edits[e].range, at |-> clock]}
              /\ edits[e].step = "commit"
         \/ \E e \in Edit, row \in rows :
              /\ edits'[e].step = "invalidate"
              /\ rows' = rows \ {row}
              /\ removals' = removals \cup {[row |-> row, by |-> e, at |-> clock]}
<1>0. edits \in [Edit -> EditRecord]
  BY DEF CacheInv, ExclusionTypeOK
<1>1. ASSUME NEW e \in Edit, Commit(e)
      PROVE  \/ rows' = rows /\ removals' = removals
             \/ /\ edits'[e].step = "invalidate"
                /\ removals' = removals
                /\ rows' = rows \cup {[id |-> e, range |-> edits[e].range, at |-> clock]}
                /\ edits[e].step = "commit"
  BY <1>0, <1>1 DEF Commit, GoTo, EditRecord
<1>2. ASSUME NEW e \in Edit, DeleteRow(e)
      PROVE  \/ rows' = rows /\ removals' = removals
             \/ \E row \in rows :
                  /\ edits'[e].step = "invalidate"
                  /\ rows' = rows \ {row}
                  /\ removals' = removals \cup {[row |-> row, by |-> e, at |-> clock]}
  <2>1. edits'[e].step = "invalidate"
    BY <1>0, <1>2 DEF DeleteRow, GoTo, EditRecord
  <2> QED BY <1>2, <2>1 DEF DeleteRow
<1>3. ASSUME NEW e \in Edit, EditStep(e), ~Commit(e), ~DeleteRow(e)
      PROVE  rows' = rows /\ removals' = removals
  BY <1>3 DEF EditStep, ArriveToAdd, TakeLock, Check, ArriveToRemove, Invalidate, EditOutside
<1>4. CASE ~\E e \in Edit : EditStep(e)
  BY <1>4 DEF ExclusionNext, EditStep, LookUp, Load, Keep, EditElsewhere, Tick, Finished,
              exclusionVars
<1> QED BY <1>1, <1>2, <1>3, <1>4

(* What the list gains, it gains from an edit not yet announced.           *)
LEMMA NewUnannounced ==
  ASSUME CacheInv, OutsideEdits = FALSE, [ExclusionNext]_exclusionVars
  PROVE  /\ \A row \in rows' \ rows : ~Past(row.id) /\ edits'[row.id].step = "invalidate"
         /\ \A r \in removals' \ removals : edits'[r.by].step = "invalidate"
<1>1. CASE rows' = rows /\ removals' = removals
  BY <1>1
<1>2. ASSUME NEW e \in Edit, edits'[e].step = "invalidate", removals' = removals,
             rows' = rows \cup {[id |-> e, range |-> edits[e].range, at |-> clock]},
             edits[e].step = "commit"
      PROVE  /\ \A row \in rows' \ rows : ~Past(row.id) /\ edits'[row.id].step = "invalidate"
             /\ \A r \in removals' \ removals : edits'[r.by].step = "invalidate"
  <2>1. \A row \in rows' \ rows : row.id = e
    BY <1>2
  <2> QED BY <1>2, <2>1 DEF Past
<1>3. ASSUME NEW e \in Edit, NEW row \in rows, edits'[e].step = "invalidate",
             rows' = rows \ {row},
             removals' = removals \cup {[row |-> row, by |-> e, at |-> clock]}
      PROVE  /\ rows' \subseteq rows
             /\ \A r \in removals' \ removals : edits'[r.by].step = "invalidate"
  BY <1>3
<1> QED BY <1>1, <1>2, <1>3, ListMoves

(* What a visit counts on is set when it begins.                           *)
LEMMA VisitsMove ==
  ASSUME CacheInv, [ExclusionNext]_exclusionVars, NEW v \in Visit
  PROVE  \/ visits'[v].listed = visits[v].listed /\ visits'[v].gone = visits[v].gone
         \/ visits'[v].listed = Listed /\ visits'[v].gone = Gone
<1>0. visits \in [Visit -> VisitRecord]
  BY DEF CacheInv, ExclusionTypeOK
<1>1. ASSUME NEW w \in Visit, LookUp(w)
      PROVE  \/ visits'[v].listed = visits[v].listed /\ visits'[v].gone = visits[v].gone
             \/ visits'[v].listed = Listed /\ visits'[v].gone = Gone
  BY <1>0, <1>1 DEF LookUp, VisitRecord
<1>2. ASSUME NEW w \in Visit, Load(w) \/ Keep(w)
      PROVE  visits'[v].listed = visits[v].listed /\ visits'[v].gone = visits[v].gone
  BY <1>0, <1>2 DEF Load, Keep, VisitRecord
<1>3. CASE ~\E w \in Visit : LookUp(w) \/ Load(w) \/ Keep(w)
  <2>1. visits' = visits
    BY <1>3 DEF ExclusionNext, ArriveToAdd, TakeLock, Check, Commit, ArriveToRemove, DeleteRow,
                Invalidate, EditOutside, EditElsewhere, Tick, Finished, exclusionVars
  <2> QED BY <2>1
<1> QED BY <1>1, <1>2, <1>3

LEMMA HistoryStep ==
  ASSUME CacheInv, OutsideEdits = FALSE, [ExclusionNext]_exclusionVars
  PROVE  HistoryOK'
<1>0. ExclusionTypeOK /\ HistoryOK
  BY DEF CacheInv
<1>1. \A e \in Edit : ~edits'[e].outside /\ (Past(e) => Past(e)')
  BY <1>0, PastStays DEF HistoryOK
<1>2. /\ \A row \in rows : row.id \in Edit
      /\ \A r \in removals : r.by \in Edit /\ r.row.id \in Edit
      /\ \A v \in Visit : \A row \in visits[v].listed : row.id \in Edit
  BY <1>0 DEF ExclusionTypeOK, VisitRecord, Row
<1>3. /\ \A row \in rows' : Past(row.id)'
      /\ \A r \in removals' : Past(r.by)' /\ Past(r.row.id)' /\ r.row \notin rows'
      /\ removals \subseteq removals'
  <2>1. CASE rows' = rows /\ removals' = removals
    BY <1>0, <1>1, <1>2, <2>1 DEF HistoryOK
  <2>2. ASSUME NEW e \in Edit, edits'[e].step = "invalidate", removals' = removals,
               edits[e].step = "commit",
               rows' = rows \cup {[id |-> e, range |-> edits[e].range, at |-> clock]}
        PROVE  <1>3!:
    <3>1. Past(e)' /\ ~Past(e)
      BY <2>2 DEF Past
    <3>2. \A r \in removals : r.row # [id |-> e, range |-> edits[e].range, at |-> clock]
      BY <1>0, <3>1 DEF HistoryOK
    <3> QED BY <1>0, <1>1, <1>2, <2>2, <3>1, <3>2 DEF HistoryOK
  <2>3. ASSUME NEW e \in Edit, NEW row \in rows, edits'[e].step = "invalidate",
               rows' = rows \ {row},
               removals' = removals \cup {[row |-> row, by |-> e, at |-> clock]}
        PROVE  <1>3!:
    <3>1. Past(e)'
      BY <2>3 DEF Past
    <3> QED BY <1>0, <1>1, <1>2, <2>3, <3>1 DEF HistoryOK
  <2> QED BY <2>1, <2>2, <2>3, ListMoves
<1>4. ASSUME NEW v \in Visit
      PROVE  /\ \A row \in visits'[v].listed : Past(row.id)'
             /\ visits'[v].gone \subseteq Removed'
  <2>1. Listed \subseteq rows /\ Gone \subseteq Removed /\ Removed \subseteq Removed'
    BY <1>3 DEF Listed, Gone, Removed
  <2>2. \A row \in visits[v].listed \cup Listed : Past(row.id)'
    BY <1>0, <1>1, <1>2, <2>1 DEF HistoryOK
  <2>3. visits[v].gone \cup Gone \subseteq Removed'
    BY <1>0, <2>1 DEF HistoryOK
  <2> QED BY <2>2, <2>3, VisitsMove
<1> QED BY <1>1, <1>3, <1>4 DEF HistoryOK

(* Nothing comes to count, as listed or as gone, but by an invalidation.   *)
LEMMA CountsByInvalidation ==
  ASSUME CacheInv, OutsideEdits = FALSE, [ExclusionNext]_exclusionVars,
         ~\E e \in Edit : Invalidate(e)
  PROVE  Listed' \subseteq Listed /\ Gone' \subseteq Gone
<1>0. ExclusionTypeOK /\ HistoryOK /\ HistoryOK' /\ ExclusionTypeOK'
  BY HistoryStep, StepTyped DEF CacheInv
<1>1. ASSUME NEW e \in Edit, edits'[e].step = "done"
      PROVE  edits[e].step = "done"
  <2>0. edits \in [Edit -> EditRecord]
    BY <1>0 DEF ExclusionTypeOK
  <2>1. ASSUME NEW f \in Edit, EditStep(f), f # e
        PROVE  edits'[e] = edits[e]
    BY <2>0, <2>1 DEF EditStep, ArriveToAdd, TakeLock, Check, Commit, ArriveToRemove,
                      DeleteRow, Invalidate, EditOutside, GoTo
  <2>2. ~EditStep(e)
    <3>1. ~ArriveToAdd(e)
      BY <1>1, <2>0 DEF ArriveToAdd, EditRecord
    <3>2. ~TakeLock(e) /\ ~Check(e) /\ ~Commit(e)
      BY <1>1, <2>0 DEF TakeLock, Check, Commit, GoTo, EditRecord
    <3>3. ~ArriveToRemove(e) /\ ~DeleteRow(e) /\ ~EditOutside(e)
      BY <1>1, <2>0 DEF ArriveToRemove, DeleteRow, EditOutside, GoTo, EditRecord
    <3> QED BY <3>1, <3>2, <3>3 DEF EditStep
  <2>3. (\E f \in Edit : EditStep(f)) \/ edits' = edits
    BY DEF ExclusionNext, EditStep, LookUp, Load, Keep, EditElsewhere, Tick, Finished,
           exclusionVars
  <2> QED BY <1>1, <2>1, <2>2, <2>3
<1>2. /\ Listed = {row \in rows : edits[row.id].step = "done"}
      /\ Listed' = {row \in rows' : edits'[row.id].step = "done"}
  BY <1>0 DEF Listed, Effective, HistoryOK, ExclusionTypeOK, Row
<1>3. /\ Gone = {r.row : r \in {q \in removals : edits[q.by].step = "done"}}
      /\ Gone' = {r.row : r \in {q \in removals' : edits'[q.by].step = "done"}}
  BY <1>0 DEF Gone, Effective, HistoryOK, ExclusionTypeOK
<1>4. /\ \A row \in rows' : edits'[row.id].step = "done" => row \in rows
      /\ \A r \in removals' : edits'[r.by].step = "done" => r \in removals
  BY NewUnannounced
<1>5. /\ \A row \in rows' : row.id \in Edit
      /\ \A r \in removals' : r.by \in Edit
  BY <1>0 DEF ExclusionTypeOK, Row
<1> QED BY <1>1, <1>2, <1>3, <1>4, <1>5

LEMMA CacheStep ==
  ASSUME CacheInv, OutsideEdits = FALSE, [ExclusionNext]_exclusionVars
  PROVE  CacheOK'
<1>0. ExclusionTypeOK /\ HistoryOK /\ CacheOK
  BY DEF CacheInv
<1>t. /\ generation \in Nat /\ visits \in [Visit -> VisitRecord]
      /\ \A v \in Visit : visits[v].generation \in Nat
  BY <1>0 DEF ExclusionTypeOK, VisitRecord
<1>1. CASE \E e \in Edit : Invalidate(e)
  <2>1. cached'.expires = 0 /\ generation' = generation + 1 /\ visits' = visits
    BY <1>1 DEF Invalidate
  <2> QED BY <1>0, <1>t, <2>1 DEF CacheOK, Unmoved
<1>2. CASE ~\E e \in Edit : Invalidate(e)
  <2>0. Listed' \subseteq Listed /\ Gone' \subseteq Gone
    BY <1>2, CountsByInvalidation
  <2>1. ASSUME NEW v \in Visit, LookUp(v)
        PROVE  CacheOK'
    <3>1. cached' = cached /\ generation' = generation
      BY <2>1 DEF LookUp
    <3>2. ASSUME NEW w \in Visit
          PROVE  \/ visits'[w] = visits[w]
                 \/ visits'[w].generation = generation /\ visits'[w].step # "cache"
      BY <1>t, <2>1 DEF LookUp, Verdict, VisitRecord
    <3> QED BY <1>0, <1>t, <2>0, <3>1, <3>2 DEF CacheOK, Current, Unmoved
  <2>2. ASSUME NEW v \in Visit, Load(v)
        PROVE  CacheOK'
    <3>1. cached' = cached /\ generation' = generation
      BY <2>2 DEF Load
    <3>2. ASSUME NEW w \in Visit
          PROVE  /\ visits'[w].generation = visits[w].generation
                 /\ \/ visits'[w] = visits[w]
                    \/ visits'[w].step # "cache"
                    \/ visits'[w].list = rows
      BY <1>t, <2>2 DEF Load, VisitRecord
    <3>3. Current(rows)
      BY <1>0 DEF Current, Listed, Gone, HistoryOK
    <3> QED BY <1>0, <1>t, <2>0, <3>1, <3>2, <3>3 DEF CacheOK, Current, Unmoved
  <2>3. ASSUME NEW v \in Visit, Keep(v)
        PROVE  CacheOK'
    <3>1. generation' = generation /\ visits[v].step = "cache"
          /\ cached' = IF Unmoved(v) THEN [list |-> visits[v].list, expires |-> clock + TTL]
                       ELSE cached
      BY <2>3 DEF Keep
    <3>2. ASSUME NEW w \in Visit
          PROVE  /\ visits'[w].generation = visits[w].generation
                 /\ \/ visits'[w] = visits[w]
                    \/ visits'[w].step # "cache"
      BY <1>t, <2>3 DEF Keep, Verdict, VisitRecord
    <3>3. cached'.expires # 0 => Current(cached'.list)
      BY <1>0, <3>1 DEF CacheOK
    <3> QED BY <1>0, <1>t, <2>0, <3>1, <3>2, <3>3 DEF CacheOK, Current, Unmoved
  <2>4. CASE ~\E v \in Visit : LookUp(v) \/ Load(v) \/ Keep(v)
    <3>1. visits' = visits /\ cached' = cached
          /\ (generation' = generation \/ generation' = generation + 1)
      BY <1>2, <2>4 DEF ExclusionNext, ArriveToAdd, TakeLock, Check, Commit, ArriveToRemove,
                        DeleteRow, EditOutside, EditElsewhere, Tick, Finished, exclusionVars
    <3> QED BY <1>0, <1>t, <2>0, <3>1 DEF CacheOK, Current, Unmoved
  <2> QED BY <2>1, <2>2, <2>3, <2>4
<1> QED BY <1>1, <1>2

LEMMA MatchStep ==
  ASSUME CacheInv, OutsideEdits = FALSE, [ExclusionNext]_exclusionVars
  PROVE  MatchOK'
<1>0. ExclusionTypeOK /\ HistoryOK /\ CacheOK /\ MatchOK
  BY DEF CacheInv
<1>t. /\ visits \in [Visit -> VisitRecord]
      /\ cached.expires \in Nat /\ clock \in Nat
  BY <1>0 DEF ExclusionTypeOK
<1>1. \A row \in rows' \ rows : ~Past(row.id)
  BY NewUnannounced
<1> SUFFICES ASSUME NEW v \in Visit, visits'[v].step \in {"cache", "kept", "dropped"}
             PROVE  /\ visits'[v].listed \cap rows' \subseteq visits'[v].list
                    /\ visits'[v].gone \cap visits'[v].list = {}
                    /\ visits'[v].step # "cache" =>
                         visits'[v].step = Verdict(visits'[v].list, visits'[v].from)
  BY DEF MatchOK, Verdict, Matches, Covers
<1>2. CASE LookUp(v)
  <2>1. PICK from \in Address : visits' = [visits EXCEPT ![v] =
           [@ EXCEPT !.from = from,
                     !.step = IF Fresh THEN Verdict(cached.list, from) ELSE "load",
                     !.list = IF Fresh THEN cached.list ELSE {},
                     !.generation = generation, !.listed = Listed, !.gone = Gone]]
    BY <1>2 DEF LookUp
  <2>2. Fresh /\ visits'[v].step = Verdict(cached.list, from) /\ visits'[v].from = from
        /\ visits'[v].list = cached.list /\ visits'[v].listed = Listed /\ visits'[v].gone = Gone
    BY <1>t, <2>1 DEF VisitRecord
  <2>3. Current(cached.list)
    BY <1>0, <1>t, <2>2 DEF Fresh, CacheOK
  <2> QED BY <2>2, <2>3 DEF Current
<1>3. CASE Load(v)
  <2>1. visits'[v].step = "cache" /\ visits'[v].list = rows /\ rows' = rows
        /\ visits'[v].gone = visits[v].gone
    BY <1>3, <1>t DEF Load, VisitRecord
  <2>2. visits[v].gone \cap rows = {}
    BY <1>0 DEF HistoryOK, Removed
  <2> QED BY <2>1, <2>2
<1>4. CASE Keep(v)
  <2>1. /\ visits[v].step = "cache" /\ rows' = rows
        /\ visits'[v].list = visits[v].list /\ visits'[v].from = visits[v].from
        /\ visits'[v].listed = visits[v].listed /\ visits'[v].gone = visits[v].gone
        /\ visits'[v].step = Verdict(visits[v].list, visits[v].from)
    BY <1>4, <1>t DEF Keep, VisitRecord
  <2> QED BY <1>0, <2>1 DEF MatchOK
<1>5. CASE ~LookUp(v) /\ ~Load(v) /\ ~Keep(v)
  <2>1. visits'[v] = visits[v]
    <3>1. ASSUME NEW w \in Visit, w # v, LookUp(w) \/ Load(w) \/ Keep(w)
          PROVE  visits'[v] = visits[v]
      BY <1>t, <3>1 DEF LookUp, Load, Keep
    <3>2. (\E w \in Visit : LookUp(w) \/ Load(w) \/ Keep(w)) \/ visits' = visits
      BY DEF ExclusionNext, ArriveToAdd, TakeLock, Check, Commit, ArriveToRemove, DeleteRow,
             Invalidate, EditOutside, EditElsewhere, Tick, Finished, exclusionVars
    <3> QED BY <1>5, <3>1, <3>2
  <2>2. visits[v].listed \cap rows' \subseteq rows
    BY <1>0, <1>1 DEF HistoryOK
  <2> QED BY <1>0, <2>1, <2>2 DEF MatchOK
<1> QED BY <1>2, <1>3, <1>4, <1>5

LEMMA CacheInvariant ==
  ASSUME OutsideEdits = FALSE PROVE ExclusionSpec => []CacheInv
<1>1. ExclusionInit => CacheInv
  BY InitTyped, HistoryInit DEF CacheInv
<1>2. CacheInv /\ [ExclusionNext]_exclusionVars => CacheInv'
  <2>1. ASSUME CacheInv, [ExclusionNext]_exclusionVars PROVE CacheInv'
    BY <2>1, StepTyped, HistoryStep, CacheStep, MatchStep DEF CacheInv
  <2> QED BY <2>1
<1> QED BY <1>1, <1>2, PTL DEF ExclusionSpec

(* ListedVisitsDropped: whatever reads of the list race whatever edits, a  *)
(* visit that begins after an add was answered is not stored while the     *)
(* entry stays.                                                            *)
THEOREM ExclusionsDropListed ==
  ASSUME OutsideEdits = FALSE PROVE ExclusionSpec => []ListedVisitsDropped
<1>1. CacheInv => ListedVisitsDropped
  <2>1. ASSUME CacheInv, NEW v \in Visit, visits[v].step = "kept"
        PROVE  ~Matches(visits[v].listed \cap rows, visits[v].from)
    <3>1. /\ visits[v].listed \cap rows \subseteq visits[v].list
          /\ Verdict(visits[v].list, visits[v].from) = "kept"
      BY <2>1 DEF CacheInv, MatchOK
    <3> QED BY <3>1 DEF Verdict, Matches
  <2> QED BY <2>1 DEF ListedVisitsDropped
<1> QED BY <1>1, CacheInvariant, PTL

(* OtherVisitsKept: and one that begins after a removal was answered is    *)
(* not dropped for the entry removed.                                      *)
THEOREM ExclusionsKeepOthers ==
  ASSUME OutsideEdits = FALSE PROVE ExclusionSpec => []OtherVisitsKept
<1>1. CacheInv => OtherVisitsKept
  <2>1. ASSUME CacheInv, NEW v \in Visit, visits[v].step = "dropped"
        PROVE  Matches(visits[v].list \ visits[v].gone, visits[v].from)
    <3>1. /\ visits[v].gone \cap visits[v].list = {}
          /\ Verdict(visits[v].list, visits[v].from) = "dropped"
      BY <2>1 DEF CacheInv, MatchOK
    <3> QED BY <3>1 DEF Verdict, Matches
  <2> QED BY <2>1 DEF OtherVisitsKept
<1> QED BY <1>1, CacheInvariant, PTL
=============================================================================
