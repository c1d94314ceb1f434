---------------------------- MODULE SessionStore ----------------------------
(***************************************************************************)
(* The in-memory session store of the API                                  *)
(* (backend/internal/session/store.go): the primary map byHash, the        *)
(* per-user index byUser that revocation walks, the cap on the sessions of *)
(* one user, and the janitor, whose sweep reads under the read lock and    *)
(* deletes in batches under the write lock, releasing it in between.       *)
(*                                                                         *)
(* Every method holds mu for its whole body, so it is one action; only the *)
(* sweep is several.  A login stamps its entry before it takes the lock    *)
(* (auth.go), so entries reach Create up to CreateLag behind the clock and *)
(* out of order.                                                           *)
(***************************************************************************)
EXTENDS Integers, FiniteSets

CONSTANTS
  Hash,                \* token hashes
  User,
  NoHash,              \* the empty exceptTokenHash of a full revocation
  MaxSessionsPerUser,
  SessionTTL,
  SweepBatch,          \* deletions per acquisition of the write lock
  CreateLag,           \* bound: how far behind the clock a stamp may be
  MaxTime              \* bound: where the clock stops

ASSUME StoreConstants ==
  /\ MaxSessionsPerUser \in Nat \ {0}
  /\ SweepBatch \in Nat \ {0}
  /\ SessionTTL \in Nat /\ CreateLag \in Nat /\ MaxTime \in Nat
  /\ NoHash \notin Hash

VARIABLES
  byHash,    \* token hash -> entry, over the hashes that are signed in
  byUser,    \* user -> that user's hashes, over the users that have any
  now,
  sweep,     \* [at, expired]: the sweep in progress and what it has still to delete
  janitor    \* "waiting" for its ticker, "sweeping", or "stopped"

storeVars == <<byHash, byUser, now, sweep, janitor>>

Entry == [user : User, createdAt : Int, expiresAt : Int]

NoSweep == [at |-> 0, expired |-> {}]

StoreTypeOK ==
  /\ DOMAIN byHash \subseteq Hash
  /\ byHash \in [DOMAIN byHash -> Entry]
  /\ DOMAIN byUser \subseteq User
  /\ byUser \in [DOMAIN byUser -> SUBSET Hash]
  /\ now \in Nat
  /\ sweep \in [at : Nat, expired : SUBSET Hash]
  /\ janitor \in {"waiting", "sweeping", "stopped"}

Expired(entry, t) == entry.expiresAt <= t

-----------------------------------------------------------------------------
(* Removal: every path that deletes goes through removeLocked, which takes *)
(* a hash out of both maps and drops a user's set once it is empty.        *)

EntriesWithout(S) == [h \in DOMAIN byHash \ S |-> byHash[h]]

OwnedBy(u, S) == {h \in S \cap DOMAIN byHash : byHash[h].user = u}

(* A removal that leaves emptied sets in the index.                        *)
IndexKeepingEmptySets(S) == [u \in DOMAIN byUser |-> byUser[u] \ OwnedBy(u, S)]

IndexWithout(S) ==
  LET left(u) == byUser[u] \ OwnedBy(u, S)
  IN  [u \in {v \in DOMAIN byUser : left(v) # {}} |-> left(u)]

removeLocked(S) ==
  /\ byHash' = EntriesWithout(S)
  /\ byUser' = IndexWithout(S)

(* Evictions that leave one session too many.                              *)
EvictionsOneShort(mine, entries) ==
  {out \in SUBSET mine :
     /\ Cardinality(out) = IF Cardinality(mine) > MaxSessionsPerUser + 1
                           THEN Cardinality(mine) - MaxSessionsPerUser - 1 ELSE 0
     /\ \A old \in out, kept \in mine \ out :
          entries[old].createdAt <= entries[kept].createdAt}

(* What evictOldestLocked may drop from the sessions "mine" of one user:   *)
(* as many as exceed the cap, none of them newer than one it keeps.  Map   *)
(* iteration order decides between equal stamps.                           *)
Evictions(mine, entries) ==
  {out \in SUBSET mine :
     /\ Cardinality(out) = IF Cardinality(mine) > MaxSessionsPerUser
                           THEN Cardinality(mine) - MaxSessionsPerUser ELSE 0
     /\ \A old \in out, kept \in mine \ out :
          entries[old].createdAt <= entries[kept].createdAt}

(* An entry built without its UserID, so it has the zero UUID.             *)
EntryOfNobody(u, at) == [user |-> 0, createdAt |-> at, expiresAt |-> at + SessionTTL]

(* The entry startSession builds from the clock it read at time "at".      *)
NewEntry(u, at) == [user |-> u, createdAt |-> at, expiresAt |-> at + SessionTTL]

Create(h, u, at) ==
  LET entries == [x \in DOMAIN byHash \cup {h} |->
                    IF x = h THEN NewEntry(u, at) ELSE byHash[x]]
      index   == IndexWithout({h})
      mine    == (IF u \in DOMAIN index THEN index[u] ELSE {}) \cup {h}
  IN  \E out \in Evictions(mine, entries) :
        /\ byHash' = [x \in DOMAIN entries \ out |-> entries[x]]
        /\ byUser' = [v \in DOMAIN index \cup {u} |->
                        IF v = u THEN mine \ out ELSE index[v]]
        /\ UNCHANGED <<now, sweep, janitor>>

Delete(h) ==
  /\ removeLocked({h})
  /\ UNCHANGED <<now, sweep, janitor>>

(* The index, not the primary map, says which sessions the user has.       *)
DeleteUser(u, except) ==
  /\ removeLocked((IF u \in DOMAIN byUser THEN byUser[u] ELSE {}) \ {except})
  /\ UNCHANGED <<now, sweep, janitor>>

-----------------------------------------------------------------------------
(* The janitor.                                                            *)

(* The ticker fires and Sweep reads the clock, before it takes any lock.   *)
SweepStart ==
  /\ janitor = "waiting"
  /\ janitor' = "sweeping"
  /\ sweep' = [at |-> now, expired |-> {}]
  /\ UNCHANGED <<byHash, byUser, now>>

(* Phase 1, under the read lock: the candidates as of the sweep's clock.   *)
SweepFind ==
  /\ janitor = "sweeping" /\ sweep.expired = {}
  /\ LET found == {h \in DOMAIN byHash : Expired(byHash[h], sweep.at)}
     IN  /\ sweep' = IF found = {} THEN NoSweep ELSE [sweep EXCEPT !.expired = found]
         /\ janitor' = IF found = {} THEN "waiting" ELSE janitor
  /\ UNCHANGED <<byHash, byUser, now>>

(* Sweeps that trust the candidates as found, or delete full batches only. *)
SweepDeleteUnchecked ==
  /\ janitor = "sweeping" /\ sweep.expired # {}
  /\ removeLocked(sweep.expired)
  /\ sweep' = NoSweep
  /\ janitor' = "waiting"
  /\ UNCHANGED now

SweepDeleteFullBatches ==
  /\ janitor = "sweeping" /\ sweep.expired # {}
  /\ IF Cardinality(sweep.expired) < SweepBatch THEN UNCHANGED <<byHash, byUser>>
     ELSE removeLocked(sweep.expired)
  /\ sweep' = NoSweep
  /\ janitor' = "waiting"
  /\ UNCHANGED now

(* Phase 2, under the write lock: one batch, each candidate checked again. *)
SweepDelete ==
  /\ janitor = "sweeping" /\ sweep.expired # {}
  /\ \E batch \in SUBSET sweep.expired :
       /\ Cardinality(batch) = IF Cardinality(sweep.expired) < SweepBatch
                               THEN Cardinality(sweep.expired) ELSE SweepBatch
       /\ removeLocked({h \in batch \cap DOMAIN byHash : Expired(byHash[h], sweep.at)})
       /\ LET rest == sweep.expired \ batch
          IN  /\ sweep' = IF rest = {} THEN NoSweep ELSE [sweep EXCEPT !.expired = rest]
              /\ janitor' = IF rest = {} THEN "waiting" ELSE janitor
  /\ UNCHANGED now

(* Stop is seen between sweeps: the select loop runs a sweep to its end.   *)
Stop ==
  /\ janitor = "waiting"
  /\ janitor' = "stopped"
  /\ UNCHANGED <<byHash, byUser, now, sweep>>

Tick ==
  /\ now < MaxTime
  /\ now' = now + 1
  /\ UNCHANGED <<byHash, byUser, sweep, janitor>>

-----------------------------------------------------------------------------
StoreInit ==
  /\ byHash = [h \in {} |-> h]
  /\ byUser = [u \in {} |-> u]
  /\ now = 0
  /\ sweep = NoSweep
  /\ janitor = "waiting"

Login == \E h \in Hash, u \in User, lag \in 0..CreateLag : Create(h, u, now - lag)
Logout == \E h \in Hash : Delete(h)
Revoke == \E u \in User, except \in Hash \cup {NoHash} : DeleteUser(u, except)
Janitor == SweepStart \/ SweepFind \/ SweepDelete

StoreNext == Login \/ Logout \/ Revoke \/ Janitor \/ Stop \/ Tick

(* StartJanitor's goroutine keeps getting the processor and the mutex.     *)
StoreFairness == WF_storeVars(Janitor)

StoreSpec == StoreInit /\ [][StoreNext]_storeVars

FairStoreSpec == StoreSpec /\ StoreFairness

-----------------------------------------------------------------------------
(* Properties.                                                             *)

(* byUser is exactly the inverse of byHash: no hash is stranded where      *)
(* revocation would miss it, none is listed under two users, and no empty  *)
(* set is left behind (what IndexProblems looks for).                      *)
IndexAgrees ==
  /\ DOMAIN byUser = {byHash[h].user : h \in DOMAIN byHash}
  /\ \A u \in DOMAIN byUser : byUser[u] = {h \in DOMAIN byHash : byHash[h].user = u}

(* No user is signed in from more browsers than the cap, whatever order    *)
(* logins, replacements of a hash and removals come in.                    *)
CapHolds == \A u \in User :
  Cardinality({h \in DOMAIN byHash : byHash[h].user = u}) <= MaxSessionsPerUser

(* A session only leaves the store because it was expired, because it was  *)
(* signed out, or because its user holds the cap in sessions at least as   *)
(* recent: in particular a sweep that found it expired does not take the   *)
(* session that was reissued under the same hash since.                    *)
LiveSessionsStay ==
  [][\A h \in DOMAIN byHash \ DOMAIN byHash' :
       \/ Expired(byHash[h], now)
       \/ Delete(h)
       \/ \E u \in User, except \in Hash \cup {NoHash} :
            DeleteUser(u, except) /\ h # except /\ byHash[h].user = u
       \/ LET mates == {k \in DOMAIN byHash' : byHash'[k].user = byHash[h].user}
          IN  /\ Cardinality(mates) = MaxSessionsPerUser
              /\ \A k \in mates : byHash'[k].createdAt >= byHash[h].createdAt
    ]_storeVars

(* An expired entry is not kept for the life of the process: a sweep frees *)
(* it, unless the store was stopped or the hash was issued again.          *)
ExpiredIsFreed ==
  \A h \in Hash :
    (h \in DOMAIN byHash /\ Expired(byHash[h], now))
      ~> (\/ h \notin DOMAIN byHash
          \/ ~Expired(byHash[h], now)
          \/ janitor = "stopped")
=============================================================================
