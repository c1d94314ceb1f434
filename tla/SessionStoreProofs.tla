------------------------- MODULE SessionStoreProofs -------------------------
(***************************************************************************)
(* Proofs about the session store: for every number of users and hashes,   *)
(* every cap and every sweep batch, the user index agrees with the primary *)
(* map and no user holds more sessions than the cap.                       *)
(***************************************************************************)
EXTENDS SessionStore, FiniteSetTheorems, TLAPS

(* The sessions of a user read off the primary map.                        *)
Sessions(u) == {h \in DOMAIN byHash : byHash[h].user = u}

FiniteSessions == \A u \in User : IsFiniteSet(Sessions(u))

(* The induction hypothesis: the index and the cap need each other, since  *)
(* eviction counts a user's sessions in the index, not in the primary map. *)
StoreInv == StoreTypeOK /\ IndexAgrees /\ FiniteSessions /\ CapHolds

-----------------------------------------------------------------------------
(* removeLocked takes the same sessions out of both maps.                  *)
LEMMA RemoveKeepsStore ==
  ASSUME StoreTypeOK, IndexAgrees, NEW S, removeLocked(S)
  PROVE  /\ DOMAIN byHash' \subseteq Hash /\ byHash' \in [DOMAIN byHash' -> Entry]
         /\ DOMAIN byUser' \subseteq User /\ byUser' \in [DOMAIN byUser' -> SUBSET Hash]
         /\ IndexAgrees'
         /\ \A u \in User : Sessions(u)' = Sessions(u) \ S
<1>1. /\ DOMAIN byHash' = DOMAIN byHash \ S
      /\ \A h \in DOMAIN byHash' : byHash'[h] = byHash[h]
      /\ byHash' = [h \in DOMAIN byHash' |-> byHash[h]]
  BY DEF removeLocked, EntriesWithout
<1>2. \A u : OwnedBy(u, S) = Sessions(u) \cap S
  BY DEF OwnedBy, Sessions
<1>3. \A u \in DOMAIN byUser : byUser[u] \ OwnedBy(u, S) = Sessions(u) \ S
  BY <1>2 DEF IndexAgrees, Sessions
<1>4. /\ DOMAIN byUser' = {u \in DOMAIN byUser : Sessions(u) \ S # {}}
      /\ byUser' = [u \in DOMAIN byUser' |-> byUser[u] \ OwnedBy(u, S)]
      /\ \A u \in DOMAIN byUser' : byUser'[u] = Sessions(u) \ S
  BY <1>3 DEF removeLocked, IndexWithout
<1>5. \A u : Sessions(u)' = Sessions(u) \ S
  BY <1>1 DEF Sessions
<1>6. DOMAIN byHash' \subseteq Hash /\ byHash' \in [DOMAIN byHash' -> Entry]
  BY <1>1 DEF StoreTypeOK
<1>7. DOMAIN byUser' \subseteq User /\ byUser' \in [DOMAIN byUser' -> SUBSET Hash]
  BY <1>4 DEF StoreTypeOK
<1>8. IndexAgrees'
  <2>1. \A u \in DOMAIN byUser' : byUser'[u] = Sessions(u)'
    BY <1>4, <1>5
  <2>2. DOMAIN byUser' = {byHash'[h].user : h \in DOMAIN byHash'}
    BY <1>1, <1>4 DEF IndexAgrees, Sessions
  <2> QED BY <2>1, <2>2 DEF IndexAgrees, Sessions
<1> QED BY <1>5, <1>6, <1>7, <1>8

(* Taking sessions out keeps every user finite and under the cap.          *)
LEMMA RemoveKeepsCap ==
  ASSUME FiniteSessions, CapHolds, NEW S, StoreConstants,
         \A u \in User : Sessions(u)' = Sessions(u) \ S
  PROVE  FiniteSessions' /\ CapHolds'
<1>1. SUFFICES ASSUME NEW u \in User
               PROVE  /\ IsFiniteSet(Sessions(u)')
                      /\ Cardinality(Sessions(u)') <= MaxSessionsPerUser
  BY DEF FiniteSessions, CapHolds, Sessions
<1>2. IsFiniteSet(Sessions(u)) /\ Cardinality(Sessions(u)) <= MaxSessionsPerUser
  BY DEF FiniteSessions, CapHolds, Sessions
<1>3. Sessions(u)' \in SUBSET Sessions(u)
  OBVIOUS
<1>4. /\ IsFiniteSet(Sessions(u)')
      /\ Cardinality(Sessions(u)') <= Cardinality(Sessions(u))
  BY <1>2, <1>3, FS_Subset, Zenon
<1>5. Cardinality(Sessions(u)) \in Nat /\ Cardinality(Sessions(u)') \in Nat
  BY <1>2, <1>4, FS_CardinalityType
<1> QED BY <1>2, <1>4, <1>5 DEF StoreConstants

(* What Create does, in terms of the sessions of each user: every other    *)
(* user loses at most the hash, this one gains it and loses the evicted.   *)
CreateEffect(h, u, at, out) ==
  /\ Cardinality(out) = IF Cardinality(Sessions(u) \cup {h}) > MaxSessionsPerUser
                        THEN Cardinality(Sessions(u) \cup {h}) - MaxSessionsPerUser
                        ELSE 0
  /\ DOMAIN byHash' = (DOMAIN byHash \cup {h}) \ out
  /\ \A x \in DOMAIN byHash' :
       byHash'[x] = IF x = h THEN NewEntry(u, at) ELSE byHash[x]
  /\ DOMAIN byUser' = {v \in DOMAIN byUser : Sessions(v) \ {h} # {}} \cup {u}
  /\ \A v \in DOMAIN byUser' :
       byUser'[v] = IF v = u THEN (Sessions(u) \cup {h}) \ out
                    ELSE Sessions(v) \ {h}
  /\ byHash' = [x \in DOMAIN byHash' |-> byHash'[x]]
  /\ byUser' = [v \in DOMAIN byUser' |-> byUser'[v]]

(* Create has that effect, on some set of evicted sessions.                *)
LEMMA CreateSessions ==
  ASSUME StoreInv, StoreConstants,
         NEW h \in Hash, NEW u \in User, NEW at \in Int, Create(h, u, at)
  PROVE  \E out \in SUBSET (Sessions(u) \cup {h}) :
           CreateEffect(h, u, at, out)
<1> DEFINE index == IndexWithout({h})
           entries == [x \in DOMAIN byHash \cup {h} |->
                         IF x = h THEN NewEntry(u, at) ELSE byHash[x]]
           mine == (IF u \in DOMAIN index THEN index[u] ELSE {}) \cup {h}
<1>1. \A v : OwnedBy(v, {h}) = Sessions(v) \cap {h}
  BY DEF OwnedBy, Sessions
<1>2. \A v \in DOMAIN byUser : byUser[v] \ OwnedBy(v, {h}) = Sessions(v) \ {h}
  BY <1>1 DEF StoreInv, IndexAgrees, Sessions
<1>3. /\ DOMAIN index = {v \in DOMAIN byUser : Sessions(v) \ {h} # {}}
      /\ \A v \in DOMAIN index : index[v] = Sessions(v) \ {h}
  BY <1>2 DEF IndexWithout
<1>4. mine = Sessions(u) \cup {h}
  <2>1. u \notin DOMAIN byUser => Sessions(u) = {}
    BY DEF StoreInv, IndexAgrees, Sessions
  <2> QED BY <1>3, <2>1
<1>5. PICK out \in Evictions(mine, entries) :
        /\ byHash' = [x \in DOMAIN entries \ out |-> entries[x]]
        /\ byUser' = [v \in DOMAIN index \cup {u} |->
                        IF v = u THEN mine \ out ELSE index[v]]
  BY DEF Create
<1>6. /\ out \in SUBSET mine
      /\ Cardinality(out) = IF Cardinality(mine) > MaxSessionsPerUser
                            THEN Cardinality(mine) - MaxSessionsPerUser ELSE 0
  BY <1>5 DEF Evictions
<1>7. /\ DOMAIN byHash' = (DOMAIN byHash \cup {h}) \ out
      /\ \A x \in DOMAIN byHash' :
           byHash'[x] = IF x = h THEN NewEntry(u, at) ELSE byHash[x]
      /\ byHash' = [x \in DOMAIN byHash' |-> byHash'[x]]
  BY <1>5
<1>8. /\ DOMAIN byUser' = DOMAIN index \cup {u}
      /\ \A v \in DOMAIN byUser' :
           byUser'[v] = IF v = u THEN mine \ out ELSE index[v]
      /\ byUser' = [v \in DOMAIN byUser' |-> byUser'[v]]
  BY <1>5
<1> QED BY <1>3, <1>4, <1>6, <1>7, <1>8 DEF CreateEffect

LEMMA CreateKeepsStore ==
  ASSUME StoreInv, StoreConstants,
         NEW h \in Hash, NEW u \in User, NEW at \in Int, Create(h, u, at)
  PROVE  StoreInv'
<1>0. PICK out \in SUBSET (Sessions(u) \cup {h}) : CreateEffect(h, u, at, out)
  BY CreateSessions
<1>1. /\ out \in SUBSET (Sessions(u) \cup {h})
      /\ Cardinality(out) = IF Cardinality(Sessions(u) \cup {h}) > MaxSessionsPerUser
                            THEN Cardinality(Sessions(u) \cup {h}) - MaxSessionsPerUser
                            ELSE 0
      /\ DOMAIN byHash' = (DOMAIN byHash \cup {h}) \ out
      /\ \A x \in DOMAIN byHash' :
           byHash'[x] = IF x = h THEN NewEntry(u, at) ELSE byHash[x]
      /\ DOMAIN byUser' = {v \in DOMAIN byUser : Sessions(v) \ {h} # {}} \cup {u}
      /\ \A v \in DOMAIN byUser' :
           byUser'[v] = IF v = u THEN (Sessions(u) \cup {h}) \ out
                        ELSE Sessions(v) \ {h}
      /\ byHash' = [x \in DOMAIN byHash' |-> byHash'[x]]
      /\ byUser' = [v \in DOMAIN byUser' |-> byUser'[v]]
  BY <1>0 DEF CreateEffect
<1> DEFINE mine == Sessions(u) \cup {h}
<1>2. IsFiniteSet(mine) /\ Cardinality(mine) \in Nat
  <2>1. IsFiniteSet(mine)
    BY FS_AddElement DEF StoreInv, FiniteSessions
  <2> QED BY <2>1, FS_CardinalityType
<1>3. /\ IsFiniteSet(mine \ out)
      /\ Cardinality(mine \ out) \in Nat
      /\ Cardinality(mine \ out) <= MaxSessionsPerUser
      /\ mine \ out # {}
  <2>1. /\ IsFiniteSet(mine \ out)
        /\ Cardinality(mine \ out) = Cardinality(mine) - Cardinality(mine \cap out)
    BY <1>2, FS_Difference
  <2>2. mine \cap out = out
    BY <1>1
  <2>3. Cardinality(mine \ out) = Cardinality(mine) - Cardinality(out)
    BY <2>1, <2>2
  <2>4. Cardinality(mine \ out) \in Nat
    BY <2>1, FS_CardinalityType
  <2>5. Cardinality(mine) # 0
    BY <1>2, FS_EmptySet
  <2>6. Cardinality(mine \ out) <= MaxSessionsPerUser /\ Cardinality(mine \ out) # 0
    BY <1>1, <1>2, <2>3, <2>5 DEF StoreConstants
  <2>7. mine \ out # {}
    BY <2>6, FS_EmptySet
  <2> QED BY <2>1, <2>4, <2>6, <2>7
<1>4. /\ Sessions(u)' = mine \ out
      /\ \A v \in User \ {u} : Sessions(v)' = Sessions(v) \ {h}
  BY <1>1 DEF Sessions, NewEntry
<1>5. StoreTypeOK'
  <2>1. NewEntry(u, at) \in Entry
    BY DEF NewEntry, Entry, StoreConstants
  <2>2. DOMAIN byHash' \subseteq Hash /\ byHash' \in [DOMAIN byHash' -> Entry]
    BY <1>1, <2>1 DEF StoreInv, StoreTypeOK
  <2>3. DOMAIN byUser' \subseteq User /\ byUser' \in [DOMAIN byUser' -> SUBSET Hash]
    <3>1. \A v : Sessions(v) \subseteq Hash
      BY DEF StoreInv, StoreTypeOK, Sessions
    <3>2. DOMAIN byUser' \subseteq User
      BY <1>1 DEF StoreInv, StoreTypeOK
    <3>3. \A v \in DOMAIN byUser' : byUser'[v] \in SUBSET Hash
      <4> TAKE v \in DOMAIN byUser'
      <4>1. byUser'[v] \subseteq Sessions(u) \cup {h} \/ byUser'[v] \subseteq Sessions(v)
        <5>1. byUser'[v] = IF v = u THEN (Sessions(u) \cup {h}) \ out ELSE Sessions(v) \ {h}
          BY <1>1
        <5> QED BY <5>1
      <4> QED BY <3>1, <4>1
    <3>4. byUser' = [v \in DOMAIN byUser' |-> byUser'[v]]
      BY <1>1
    <3> QED BY <3>2, <3>3, <3>4
  <2>4. UNCHANGED <<now, sweep, janitor>>
    BY DEF Create
  <2> QED BY <2>2, <2>3, <2>4 DEF StoreInv, StoreTypeOK
<1>6. IndexAgrees'
  <2>1. \A v \in DOMAIN byUser' : byUser'[v] = Sessions(v)'
    BY <1>1, <1>4 DEF StoreInv, StoreTypeOK
  <2>2. \A v \in User : v \in DOMAIN byUser' <=> Sessions(v)' # {}
    <3>1. \A v \in User : v \in DOMAIN byUser <=> Sessions(v) # {}
      BY DEF StoreInv, IndexAgrees, Sessions
    <3>2. u \in DOMAIN byUser' /\ Sessions(u)' # {}
      BY <1>1, <1>3, <1>4
    <3>3. \A v \in User \ {u} : v \in DOMAIN byUser' <=> Sessions(v)' # {}
      BY <1>1, <1>4, <3>1
    <3> QED BY <3>2, <3>3
  <2>3. DOMAIN byUser' \subseteq User /\ \A x \in DOMAIN byHash' : byHash'[x].user \in User
    BY <1>5 DEF StoreTypeOK, Entry
  <2>4. DOMAIN byUser' = {byHash'[x].user : x \in DOMAIN byHash'}
    BY <2>2, <2>3 DEF Sessions
  <2> QED BY <2>1, <2>4 DEF IndexAgrees, Sessions
<1>7. FiniteSessions' /\ CapHolds'
  <2>1. SUFFICES ASSUME NEW v \in User
                 PROVE  /\ IsFiniteSet(Sessions(v)')
                        /\ Cardinality(Sessions(v)') <= MaxSessionsPerUser
    BY DEF FiniteSessions, CapHolds, Sessions
  <2>2. CASE v = u
    BY <1>3, <1>4, <2>2
  <2>3. CASE v # u
    <3>1. IsFiniteSet(Sessions(v)) /\ Cardinality(Sessions(v)) <= MaxSessionsPerUser
      BY DEF StoreInv, FiniteSessions, CapHolds, Sessions
    <3>2. Sessions(v)' \in SUBSET Sessions(v)
      BY <1>4, <2>3
    <3>3. /\ IsFiniteSet(Sessions(v)')
          /\ Cardinality(Sessions(v)') <= Cardinality(Sessions(v))
      BY <3>1, <3>2, FS_Subset, Zenon
    <3>4. Cardinality(Sessions(v)) \in Nat /\ Cardinality(Sessions(v)') \in Nat
      BY <3>1, <3>3, FS_CardinalityType
    <3> QED BY <3>1, <3>3, <3>4 DEF StoreConstants
  <2> QED BY <2>2, <2>3
<1> QED BY <1>5, <1>6, <1>7 DEF StoreInv

(* A step that only removes, whatever it removes.                          *)
LEMMA RemovalKeepsStore ==
  ASSUME StoreInv, StoreConstants, NEW S, removeLocked(S),
         now' \in Nat, sweep' \in [at : Nat, expired : SUBSET Hash],
         janitor' \in {"waiting", "sweeping", "stopped"}
  PROVE  StoreInv'
<1>1. /\ DOMAIN byHash' \subseteq Hash /\ byHash' \in [DOMAIN byHash' -> Entry]
      /\ DOMAIN byUser' \subseteq User /\ byUser' \in [DOMAIN byUser' -> SUBSET Hash]
      /\ IndexAgrees'
      /\ \A u \in User : Sessions(u)' = Sessions(u) \ S
  BY RemoveKeepsStore DEF StoreInv
<1>2. StoreTypeOK'
  BY <1>1 DEF StoreTypeOK
<1>3. FiniteSessions' /\ CapHolds'
  BY <1>1, RemoveKeepsCap DEF StoreInv
<1> QED BY <1>1, <1>2, <1>3 DEF StoreInv

LEMMA InitStore == StoreConstants /\ StoreInit => StoreInv
<1> SUFFICES ASSUME StoreConstants, StoreInit PROVE StoreInv
  OBVIOUS
<1>1. DOMAIN byHash = {} /\ DOMAIN byUser = {}
  BY DEF StoreInit
<1>2. StoreTypeOK
  BY <1>1 DEF StoreInit, StoreTypeOK, NoSweep
<1>3. IndexAgrees
  BY <1>1 DEF IndexAgrees
<1>4. \A u : Sessions(u) = {}
  BY <1>1 DEF Sessions
<1>5. FiniteSessions
  BY <1>4, FS_EmptySet DEF FiniteSessions
<1>6. CapHolds
  BY <1>4, FS_EmptySet DEF CapHolds, Sessions, StoreConstants
<1> QED BY <1>2, <1>3, <1>5, <1>6 DEF StoreInv

LEMMA StepKeepsStore == StoreConstants /\ StoreInv /\ [StoreNext]_storeVars => StoreInv'
<1> SUFFICES ASSUME StoreConstants, StoreInv, [StoreNext]_storeVars PROVE StoreInv'
  OBVIOUS
<1>1. ASSUME Login PROVE StoreInv'
  <2>1. PICK h \in Hash, u \in User, lag \in 0..CreateLag : Create(h, u, now - lag)
    BY <1>1 DEF Login
  <2>2. now - lag \in Int
    BY DEF StoreInv, StoreTypeOK, StoreConstants
  <2> QED BY <2>1, <2>2, CreateKeepsStore
<1>2. ASSUME Logout PROVE StoreInv'
  <2>1. PICK h \in Hash : Delete(h)
    BY <1>2 DEF Logout
  <2> QED BY <2>1, RemovalKeepsStore DEF Delete, StoreInv, StoreTypeOK
<1>3. ASSUME Revoke PROVE StoreInv'
  <2>1. PICK u \in User, except \in Hash \cup {NoHash} : DeleteUser(u, except)
    BY <1>3 DEF Revoke
  <2> QED BY <2>1, RemovalKeepsStore DEF DeleteUser, StoreInv, StoreTypeOK
<1>4. ASSUME SweepDelete PROVE StoreInv'
  <2>1. PICK batch \in SUBSET sweep.expired :
          /\ removeLocked({h \in batch \cap DOMAIN byHash : Expired(byHash[h], sweep.at)})
          /\ LET rest == sweep.expired \ batch
             IN  /\ sweep' = IF rest = {} THEN NoSweep ELSE [sweep EXCEPT !.expired = rest]
                 /\ janitor' = IF rest = {} THEN "waiting" ELSE janitor
    BY <1>4 DEF SweepDelete
  <2>2. now' = now
    BY <1>4 DEF SweepDelete
  <2>3. sweep' \in [at : Nat, expired : SUBSET Hash]
    BY <2>1 DEF StoreInv, StoreTypeOK, NoSweep
  <2> QED BY <2>1, <2>2, <2>3, RemovalKeepsStore DEF StoreInv, StoreTypeOK
<1>5. ASSUME byHash' = byHash, byUser' = byUser, StoreTypeOK' PROVE StoreInv'
  BY <1>5 DEF StoreInv, IndexAgrees, FiniteSessions, CapHolds, Sessions
<1>6. ASSUME SweepStart \/ SweepFind PROVE StoreInv'
  <2>1. byHash' = byHash /\ byUser' = byUser
    BY <1>6 DEF SweepStart, SweepFind
  <2>2. StoreTypeOK'
    BY <1>6 DEF SweepStart, SweepFind, StoreInv, StoreTypeOK, NoSweep
  <2> QED BY <1>5, <2>1, <2>2
<1>7. ASSUME Stop \/ Tick \/ UNCHANGED storeVars PROVE StoreInv'
  <2>1. byHash' = byHash /\ byUser' = byUser
    BY <1>7 DEF Stop, Tick, storeVars
  <2>2. StoreTypeOK'
    BY <1>7 DEF Stop, Tick, storeVars, StoreInv, StoreTypeOK
  <2> QED BY <1>5, <2>1, <2>2
<1> QED BY <1>1, <1>2, <1>3, <1>4, <1>6, <1>7 DEF StoreNext, Janitor

-----------------------------------------------------------------------------
(* The session store is type-correct in every reachable state.             *)
THEOREM StoreTyped == StoreSpec => []StoreTypeOK
<1>1. StoreInv => StoreTypeOK
  BY DEF StoreInv
<1> QED BY <1>1, InitStore, StepKeepsStore, StoreConstants, PTL DEF StoreSpec

(* store.go: byUser and byHash never disagree, so a revocation, which      *)
(* walks byUser, reaches every session of the user.                        *)
THEOREM StoreIndexAgrees == StoreSpec => []IndexAgrees
<1>1. StoreInv => IndexAgrees
  BY DEF StoreInv
<1> QED BY <1>1, InitStore, StepKeepsStore, StoreConstants, PTL DEF StoreSpec

(* store.go: no account holds more than MaxSessionsPerUser sessions.       *)
THEOREM StoreCapHolds == StoreSpec => []CapHolds
<1>1. StoreInv => CapHolds
  BY DEF StoreInv
<1> QED BY <1>1, InitStore, StepKeepsStore, StoreConstants, PTL DEF StoreSpec
-----------------------------------------------------------------------------
(* The one reason a step may have to take session h out of the store.      *)
MayLeave(h) ==
  \/ Expired(byHash[h], now)
  \/ Delete(h)
  \/ \E u \in User, except \in Hash \cup {NoHash} :
       DeleteUser(u, except) /\ h # except /\ byHash[h].user = u
  \/ LET mates == {k \in DOMAIN byHash' : byHash'[k].user = byHash[h].user}
     IN  /\ Cardinality(mates) = MaxSessionsPerUser
         /\ \A k \in mates : byHash'[k].createdAt >= byHash[h].createdAt

LiveStep == \A h \in DOMAIN byHash \ DOMAIN byHash' : MayLeave(h)

(* The sweep looks at the clock once, so what it deletes is expired now.   *)
SweepInThePast == sweep.at <= now

LEMMA SweepStaysPast ==
  ASSUME StoreInv, SweepInThePast, [StoreNext]_storeVars
  PROVE  SweepInThePast'
<1>1. now \in Nat /\ sweep.at \in Nat /\ sweep \in [at : Nat, expired : SUBSET Hash]
  BY DEF StoreInv, StoreTypeOK
<1>2. CASE Login \/ Logout \/ Revoke \/ Stop \/ UNCHANGED storeVars
  BY <1>2 DEF Login, Logout, Revoke, Stop, storeVars, Create, Delete, DeleteUser, SweepInThePast
<1>3. CASE Tick
  BY <1>1, <1>3 DEF Tick, SweepInThePast
<1>4. CASE Janitor
  <2>1. now' = now /\ (sweep'.at = sweep.at \/ sweep'.at = now \/ sweep'.at = 0)
    <3>1. CASE SweepStart
      BY <3>1 DEF SweepStart
    <3>2. CASE SweepFind
      BY <1>1, <3>2 DEF SweepFind, NoSweep
    <3>3. CASE SweepDelete
      <4>1. PICK batch \in SUBSET sweep.expired :
              sweep' = IF sweep.expired \ batch = {} THEN NoSweep
                       ELSE [sweep EXCEPT !.expired = sweep.expired \ batch]
        BY <3>3 DEF SweepDelete
      <4>2. now' = now
        BY <3>3 DEF SweepDelete
      <4> QED BY <1>1, <4>1, <4>2 DEF NoSweep
    <3> QED BY <1>4, <3>1, <3>2, <3>3 DEF Janitor
  <2> QED BY <1>1, <2>1 DEF SweepInThePast
<1> QED BY <1>2, <1>3, <1>4 DEF StoreNext

(* An eviction takes one session at most: the one that came in, or one that *)
(* leaves its user as many as the cap, none of them older.                 *)
LEMMA EvictedForTheCap ==
  ASSUME StoreInv, StoreConstants, NEW h \in Hash, NEW u \in User, NEW at \in Int, Create(h, u, at),
         NEW k \in DOMAIN byHash \ DOMAIN byHash'
  PROVE  MayLeave(k)
<1> DEFINE index == IndexWithout({h})
           entries == [x \in DOMAIN byHash \cup {h} |->
                         IF x = h THEN NewEntry(u, at) ELSE byHash[x]]
           mine == (IF u \in DOMAIN index THEN index[u] ELSE {}) \cup {h}
<1>1. /\ DOMAIN index = {v \in DOMAIN byUser : Sessions(v) \ {h} # {}}
      /\ \A v \in DOMAIN index : index[v] = Sessions(v) \ {h}
  <2>1. \A v : OwnedBy(v, {h}) = Sessions(v) \cap {h}
    BY DEF OwnedBy, Sessions
  <2>2. \A v \in DOMAIN byUser : byUser[v] \ OwnedBy(v, {h}) = Sessions(v) \ {h}
    BY <2>1 DEF StoreInv, IndexAgrees, Sessions
  <2> QED BY <2>2 DEF IndexWithout
<1>2. mine = Sessions(u) \cup {h}
  <2>1. u \notin DOMAIN byUser => Sessions(u) = {}
    BY DEF StoreInv, IndexAgrees, Sessions
  <2> QED BY <1>1, <2>1
<1>3. PICK out \in Evictions(mine, entries) :
        /\ byHash' = [x \in DOMAIN entries \ out |-> entries[x]]
        /\ byUser' = [v \in DOMAIN index \cup {u} |->
                        IF v = u THEN mine \ out ELSE index[v]]
        /\ UNCHANGED <<now, sweep, janitor>>
  BY DEF Create
<1>4. /\ out \subseteq mine
      /\ Cardinality(out) = IF Cardinality(mine) > MaxSessionsPerUser
                            THEN Cardinality(mine) - MaxSessionsPerUser ELSE 0
      /\ \A old \in out, kept \in mine \ out : entries[old].createdAt <= entries[kept].createdAt
  BY <1>3 DEF Evictions
<1>5. k \in out /\ k \in DOMAIN byHash
  BY <1>3
<1>6. /\ IsFiniteSet(Sessions(u)) /\ Cardinality(Sessions(u)) \in Nat
      /\ Cardinality(Sessions(u)) <= MaxSessionsPerUser
  BY FS_CardinalityType DEF StoreInv, FiniteSessions, CapHolds, Sessions
<1>7. /\ IsFiniteSet(mine) /\ Cardinality(mine) \in Nat
      /\ Cardinality(mine) <= Cardinality(Sessions(u)) + 1
  <2>1. /\ IsFiniteSet(Sessions(u) \cup {h})
        /\ Cardinality(Sessions(u) \cup {h}) =
             IF h \in Sessions(u) THEN Cardinality(Sessions(u)) ELSE Cardinality(Sessions(u)) + 1
    BY <1>6, FS_AddElement
  <2> HIDE DEF mine
  <2> QED BY <1>2, <1>6, <2>1
<1>8. IsFiniteSet(out) /\ Cardinality(out) \in Nat /\ Cardinality(out) # 0
  <2>1. IsFiniteSet(out)
    BY <1>4, <1>7, FS_Subset
  <2> QED BY <1>5, <2>1, FS_EmptySet, FS_CardinalityType
<1>9. Cardinality(out) = 1 /\ Cardinality(mine) = MaxSessionsPerUser + 1
  BY <1>4, <1>6, <1>7, <1>8 DEF StoreConstants
<1>10. out = {k}
  <2>1. PICK x : out = {x}
    BY <1>8, <1>9, FS_Singleton
  <2> QED BY <1>5, <2>1
<1>11. CASE k = h
  <2>1. byHash' = EntriesWithout({h})
    <3>1. DOMAIN entries \ out = DOMAIN byHash \ {h}
      BY <1>10, <1>11
    <3>2. \A x \in DOMAIN byHash \ {h} : entries[x] = byHash[x]
      OBVIOUS
    <3> QED BY <1>3, <3>1, <3>2 DEF EntriesWithout
  <2>2. mine \ out = Sessions(u) \ {h}
    BY <1>2, <1>10, <1>11
  <2>3. Sessions(u) \ {h} # {}
    <3>1. Cardinality(mine) >= 2
      BY <1>9 DEF StoreConstants
    <3>2. Cardinality({h}) = 1
      BY FS_Singleton
    <3> QED BY <1>2, <3>1, <3>2
  <2>4. u \in DOMAIN index
    BY <1>1, <2>3 DEF StoreInv, IndexAgrees, Sessions
  <2>5. byUser' = IndexWithout({h})
    <3>1. DOMAIN index \cup {u} = DOMAIN index /\ index[u] = mine \ out
      BY <1>1, <2>2, <2>4
    <3>2. byUser' = [v \in DOMAIN index |-> index[v]]
      BY <1>3, <3>1
    <3>3. index = [v \in DOMAIN index |-> index[v]]
      BY DEF IndexWithout
    <3> QED BY <3>2, <3>3
  <2> QED BY <1>3, <1>11, <2>1, <2>5 DEF MayLeave, Delete, removeLocked
<1>12. CASE k # h
  <2>1. byHash[k].user = u
    BY <1>2, <1>4, <1>5, <1>12 DEF Sessions
  <2>2. {x \in DOMAIN byHash' : byHash'[x].user = byHash[k].user} = mine \ {k}
    BY <1>2, <1>3, <1>10, <1>12, <2>1 DEF Sessions, NewEntry
  <2>3. Cardinality(mine \ {k}) = MaxSessionsPerUser
    <3> HIDE DEF mine
    <3>1. k \in mine
      BY <1>4, <1>5
    <3>2. Cardinality(mine \ {k}) = Cardinality(mine) - 1
      BY <1>7, <3>1, FS_RemoveElement
    <3> QED BY <1>9, <3>2 DEF StoreConstants
  <2>4. \A x \in mine \ {k} : byHash'[x].createdAt >= byHash[k].createdAt
    <3> TAKE x \in mine \ {k}
    <3>1. x \in DOMAIN entries \ out /\ byHash'[x] = entries[x]
      BY <1>2, <1>3, <1>10 DEF Sessions
    <3>2. entries[k] = byHash[k]
      BY <1>5, <1>12
    <3>3. entries[k].createdAt <= entries[x].createdAt
      BY <1>4, <1>5, <1>10
    <3>4. byHash[k].createdAt \in Int /\ entries[x].createdAt \in Int
      BY <1>5, <3>1 DEF StoreInv, StoreTypeOK, Entry, NewEntry
    <3> QED BY <3>1, <3>2, <3>3, <3>4
  <2> QED BY <2>2, <2>3, <2>4 DEF MayLeave
<1> QED BY <1>11, <1>12

LEMMA StepKeepsLive ==
  ASSUME StoreInv, StoreConstants, SweepInThePast, [StoreNext]_storeVars
  PROVE  LiveStep
<1> SUFFICES ASSUME NEW h \in DOMAIN byHash \ DOMAIN byHash' PROVE MayLeave(h)
  BY DEF LiveStep
<1>1. CASE Login
  <2>1. PICK g \in Hash, u \in User, lag \in 0..CreateLag : Create(g, u, now - lag)
    BY <1>1 DEF Login
  <2>2. now - lag \in Int
    BY DEF StoreInv, StoreTypeOK, StoreConstants
  <2> QED BY <2>1, <2>2, EvictedForTheCap
<1>2. CASE Logout
  <2>1. PICK g \in Hash : Delete(g)
    BY <1>2 DEF Logout
  <2>2. h = g
    BY <2>1 DEF Delete, removeLocked, EntriesWithout
  <2> QED BY <2>1, <2>2 DEF MayLeave
<1>3. CASE Revoke
  <2>1. PICK u \in User, except \in Hash \cup {NoHash} : DeleteUser(u, except)
    BY <1>3 DEF Revoke
  <2>2. h \in (IF u \in DOMAIN byUser THEN byUser[u] ELSE {}) \ {except}
    BY <2>1 DEF DeleteUser, removeLocked, EntriesWithout
  <2>3. byHash[h].user = u
    BY <2>2 DEF StoreInv, IndexAgrees
  <2> QED BY <2>1, <2>2, <2>3 DEF MayLeave
<1>4. CASE SweepDelete
  <2>1. PICK batch \in SUBSET sweep.expired :
          removeLocked({x \in batch \cap DOMAIN byHash : Expired(byHash[x], sweep.at)})
    BY <1>4 DEF SweepDelete
  <2>2. Expired(byHash[h], sweep.at)
    BY <2>1 DEF removeLocked, EntriesWithout
  <2>3. byHash[h].expiresAt \in Int /\ sweep.at \in Nat /\ now \in Nat
    BY DEF StoreInv, StoreTypeOK, Entry
  <2> QED BY <2>2, <2>3 DEF MayLeave, Expired, SweepInThePast
<1>5. CASE SweepStart \/ SweepFind \/ Stop \/ Tick \/ UNCHANGED storeVars
  <2>1. byHash' = byHash
    BY <1>5 DEF SweepStart, SweepFind, Stop, Tick, storeVars
  <2> QED BY <2>1
<1> QED BY <1>1, <1>2, <1>3, <1>4, <1>5 DEF StoreNext, Janitor

(* store.go: nobody is signed out but by a sign-out, a revocation, the end  *)
(* of the session's life or the cap; the sweep's second look, under the     *)
(* write lock, is what keeps it from taking a session it found expired and  *)
(* that was issued again since.                                            *)
THEOREM LiveSessionsAreKept == StoreSpec => LiveSessionsStay
<1>1. StoreInit => SweepInThePast
  BY DEF StoreInit, SweepInThePast, NoSweep
<1>2. StoreInv /\ SweepInThePast /\ [StoreNext]_storeVars => StoreInv' /\ SweepInThePast'
  BY StepKeepsStore, SweepStaysPast, StoreConstants
<1>3. StoreInv /\ SweepInThePast /\ [StoreNext]_storeVars => [LiveStep]_storeVars
  BY StepKeepsLive, StoreConstants
<1>4. StoreSpec => [][LiveStep]_storeVars
  BY <1>1, <1>2, <1>3, InitStore, StoreConstants, PTL DEF StoreSpec
<1>5. [LiveStep]_storeVars <=> [\A h \in DOMAIN byHash \ DOMAIN byHash' :
       \/ Expired(byHash[h], now)
       \/ Delete(h)
       \/ \E u \in User, except \in Hash \cup {NoHash} :
            DeleteUser(u, except) /\ h # except /\ byHash[h].user = u
       \/ LET mates == {k \in DOMAIN byHash' : byHash'[k].user = byHash[h].user}
          IN  /\ Cardinality(mates) = MaxSessionsPerUser
              /\ \A k \in mates : byHash'[k].createdAt >= byHash[h].createdAt]_storeVars
  BY DEF LiveStep, MayLeave
<1> QED BY <1>4, <1>5, PTL DEF LiveSessionsStay
=============================================================================
