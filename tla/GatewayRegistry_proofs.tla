----------------------- MODULE GatewayRegistry_proofs -----------------------
(***************************************************************************)
(* Proofs about GatewayRegistry for any number of lookups, loads, writers  *)
(* and commits.                                                            *)
(***************************************************************************)
EXTENDS GatewayRegistry, FiniteSetTheorems, TLAPS

\* The shared promise is a load that runs.
SharedInv == inFlight # None => load[inFlight] # "free"

\* No mutation claims a version the table has not reached.
VersionInv == acked <= table /\ \A w \in Writers : mine[w] <= table

\* The load that everybody shares began after the last reset, so no reset has
\* overtaken it; a load that none has overtaken read every answered mutation.
LoadsInv ==
    /\ inFlight \notin overtaken
    /\ \A l \in overtaken : load[l] = "read"
    /\ \A l \in Loads \ overtaken : load[l] = "read" => rows[l] >= acked

\* So a map is as new as every answered mutation unless it came of an overtaken
\* load, and whoever waits for a load is given all there was to see.
MapInv == state # None /\ ~outdated => state >= acked
WaitersInv == \A q \in Lookups :
    /\ owed[q] <= acked
    /\ waitsFor[q] # None =>
        /\ load[waitsFor[q]] # "free"
        /\ load[waitsFor[q]] = "read" => rows[waitsFor[q]] >= owed[q]
    /\ served[q] # None => served[q] >= owed[q]

VisibleInv == TypeOK /\ VersionInv /\ SharedInv /\ LoadsInv /\ MapInv /\ WaitersInv

-----------------------------------------------------------------------------
\* Every state of a behaviour has well-typed variables.
LEMMA TypeInit == Init => TypeOK
  <1> SUFFICES ASSUME Init PROVE TypeOK
    OBVIOUS
  <1> USE RegistryAssumption DEF Init
  <1>1. /\ table \in Nat /\ writes \in 0..MaxWrites /\ external \in 0..MaxExternal
        /\ age \in 0..TTL /\ failures \in 0..MaxFailures
        /\ acked \in Nat /\ resets \in Nat
    OBVIOUS
  <1>2. /\ wpc \in [Writers -> {"idle", "committed"}] /\ mine \in [Writers -> Nat]
        /\ load \in [Loads -> {"free", "asked", "read"}] /\ rows \in [Loads -> Nat]
        /\ owed \in [Lookups -> Nat]
    OBVIOUS
  <1>3. /\ state \in Nat \cup {None} /\ inFlight \in Loads \cup {None}
        /\ waitsFor \in [Lookups -> Loads \cup {None}]
        /\ served \in [Lookups -> Nat \cup {None}]
    OBVIOUS
  <1>4. overtaken \subseteq Loads /\ outdated \in BOOLEAN
    OBVIOUS
  <1> QED
    BY <1>1, <1>2, <1>3, <1>4 DEF TypeOK

LEMMA SettleType ==
  ASSUME TypeOK, NEW l \in Loads, Settle(l)
  PROVE  /\ load' \in [Loads -> {"free", "asked", "read"}]
         /\ rows' \in [Loads -> Nat]
         /\ inFlight' = None
         /\ waitsFor' \in [Lookups -> Loads \cup {None}]
         /\ overtaken' \subseteq Loads
  BY DEF TypeOK, Settle

LEMMA JoinType ==
  ASSUME TypeOK, NEW l \in Loads, Join(l)
  PROVE  /\ load' \in [Loads -> {"free", "asked", "read"}]
         /\ inFlight' = l
  BY DEF TypeOK, Join

LEMMA TypeStep == TypeOK /\ [Next]_vars => TypeOK'
  <1> SUFFICES ASSUME TypeOK, [Next]_vars PROVE TypeOK'
    OBVIOUS
  <1> USE RegistryAssumption DEF TypeOK, writerVars, cacheVars, loadVars, lookupVars, raceVars
  <1>1. ASSUME NEW w \in Writers, Commit(w) PROVE TypeOK'
    BY <1>1 DEF Commit
  <1>2. ASSUME NEW w \in Writers, Reset(w) PROVE TypeOK'
    <2>1. outdated' \in BOOLEAN /\ overtaken' \subseteq Loads
      BY <1>2 DEF Reset
    <2>2. /\ UNCHANGED <<table, writes, external, loadVars, lookupVars>>
          /\ state' = None /\ inFlight' = None /\ age' = 0
          /\ wpc' = [wpc EXCEPT ![w] = "idle"] /\ mine' = [mine EXCEPT ![w] = 0]
          /\ acked' \in Nat /\ resets' = resets + 1
      BY <1>2 DEF Reset, Dropped
    <2> QED
      BY <2>1, <2>2
  <1>3. CASE ExternalCommit
    BY <1>3 DEF ExternalCommit
  <1>4. ASSUME NEW q \in Lookups, LookupCold(q) PROVE TypeOK'
    <2>1. PICK l \in Loads : Join(l) /\ waitsFor' = [waitsFor EXCEPT ![q] = l]
      BY <1>4 DEF LookupCold
    <2> QED
      BY <1>4, <2>1, JoinType DEF LookupCold, Start
  <1>5. ASSUME NEW q \in Lookups, LookupFresh(q) PROVE TypeOK'
    BY <1>5 DEF LookupFresh, Start
  <1>6. ASSUME NEW q \in Lookups, LookupExpired(q) PROVE TypeOK'
    <2>1. PICK l \in Loads : Join(l)
      BY <1>6 DEF LookupExpired
    <2> QED
      BY <1>6, <2>1, JoinType DEF LookupExpired, Start
  <1>7. ASSUME NEW l \in Loads, ReadRows(l) PROVE TypeOK'
    BY <1>7 DEF ReadRows
  <1>8. ASSUME NEW l \in Loads, Install(l) PROVE TypeOK'
    BY <1>8, SettleType DEF Install
  <1>9. ASSUME NEW l \in Loads, Fail(l) PROVE TypeOK'
    BY <1>9, SettleType DEF Fail
  <1>10. CASE Tick
    BY <1>10 DEF Tick
  <1>11. CASE UNCHANGED vars
    BY <1>11 DEF vars
  <1> QED
    BY <1>1, <1>2, <1>3, <1>4, <1>5, <1>6, <1>7, <1>8, <1>9, <1>10, <1>11 DEF Next

\* The variables keep their types, however many lookups and loads there are.
THEOREM TypeCorrect == Spec => []TypeOK
  BY TypeInit, TypeStep, PTL DEF Spec

-----------------------------------------------------------------------------
(* Visibility.                                                             *)

LEMMA VersionStep == TypeOK /\ VersionInv /\ [Next]_vars => VersionInv'
  <1> SUFFICES ASSUME TypeOK, VersionInv, [Next]_vars PROVE VersionInv'
    OBVIOUS
  <1> USE DEF TypeOK, VersionInv, writerVars
  <1>1. ASSUME NEW w \in Writers, Commit(w) PROVE VersionInv'
    BY <1>1 DEF Commit
  <1>2. ASSUME NEW w \in Writers, Reset(w) PROVE VersionInv'
    BY <1>2 DEF Reset
  <1>3. CASE ExternalCommit
    BY <1>3 DEF ExternalCommit
  <1>4. CASE UNCHANGED <<writerVars, acked>>
    BY <1>4
  <1> QED
    BY <1>1, <1>2, <1>3, <1>4
    DEF Next, LookupCold, LookupFresh, LookupExpired, ReadRows, Install, Fail, Tick, vars

\* The steps, with what a lookup joins named.
LEMMA Steps ==
  ASSUME [Next]_vars
  PROVE  \/ \E w \in Writers : Commit(w) \/ Reset(w)
         \/ ExternalCommit
         \/ \E q \in Lookups : LookupCold(q) \/ LookupFresh(q) \/ LookupExpired(q)
         \/ \E l \in Loads : ReadRows(l) \/ Install(l) \/ Fail(l)
         \/ Tick
         \/ UNCHANGED vars
  BY Zenon DEF Next

\* A load is joined when it is the shared one, or begun and then is.
LEMMA JoinIs ==
  ASSUME TypeOK, SharedInv, LoadsInv, NEW l \in Loads, Join(l)
  PROVE  /\ inFlight' = l /\ load'[l] # "free" /\ l \notin overtaken
         /\ \A k \in Loads : load'[k] = "read" <=> load[k] = "read"
         /\ \A k \in Loads : load[k] # "free" => load'[k] # "free"
  BY RegistryAssumption DEF Join, TypeOK, SharedInv, LoadsInv

LEMMA SettleIs ==
  ASSUME TypeOK, NEW l \in Loads, Settle(l)
  PROVE  /\ inFlight' = None /\ load'[l] = "free" /\ overtaken' = overtaken \ {l}
         /\ \A k \in Loads : k # l => load'[k] = load[k] /\ rows'[k] = rows[k]
         /\ \A q \in Lookups : waitsFor'[q] = IF waitsFor[q] = l THEN None ELSE waitsFor[q]
  BY DEF Settle, Waiters, TypeOK

LEMMA VisibleStep ==
  ASSUME VisibleInv, [Next]_vars
  PROVE  SharedInv' /\ LoadsInv' /\ MapInv' /\ WaitersInv'
  <1>0. TypeOK /\ VersionInv /\ SharedInv /\ LoadsInv /\ MapInv /\ WaitersInv /\ TypeOK'
    BY TypeStep DEF VisibleInv
  <1> USE RegistryAssumption DEF TypeOK, VersionInv, SharedInv, LoadsInv, MapInv, WaitersInv,
          cacheVars, loadVars, lookupVars, raceVars
  <1>1. ASSUME NEW w \in Writers, Commit(w) PROVE SharedInv' /\ LoadsInv' /\ MapInv' /\ WaitersInv'
    BY <1>0, <1>1 DEF Commit
  <1>2. ASSUME NEW w \in Writers, Reset(w) PROVE SharedInv' /\ LoadsInv' /\ MapInv' /\ WaitersInv'
    \* what has its rows is overtaken, and nothing is shared or cached any more
    <2>1. /\ state' = None /\ inFlight' = None /\ overtaken' = {l \in Loads : load[l] = "read"}
          /\ UNCHANGED <<load, rows, waitsFor, owed, served>>
      BY <1>2 DEF Reset, Dropped
    <2>2. acked' \in Nat /\ acked <= acked'
      BY <1>0, <1>2 DEF Reset
    <2> QED
      BY <1>0, <2>1, <2>2
  <1>3. CASE ExternalCommit
    BY <1>0, <1>3 DEF ExternalCommit
  <1>4. ASSUME NEW q \in Lookups, LookupCold(q) PROVE SharedInv' /\ LoadsInv' /\ MapInv' /\ WaitersInv'
    <2>1. PICK l \in Loads : Join(l) /\ waitsFor' = [waitsFor EXCEPT ![q] = l]
      BY <1>4 DEF LookupCold
    <2>2. /\ owed' = [owed EXCEPT ![q] = acked] /\ served' = [served EXCEPT ![q] = None]
          /\ UNCHANGED <<state, rows, acked, overtaken, outdated>>
      BY <1>4 DEF LookupCold, Start
    <2>3. /\ inFlight' = l /\ load'[l] # "free" /\ l \notin overtaken
          /\ \A k \in Loads : load'[k] = "read" <=> load[k] = "read"
          /\ \A k \in Loads : load[k] # "free" => load'[k] # "free"
      BY <1>0, <2>1, JoinIs
    <2>4. SharedInv' /\ LoadsInv' /\ MapInv'
      BY <1>0, <2>2, <2>3
    <2>5. WaitersInv'
      BY <1>0, <2>1, <2>2, <2>3
    <2> QED
      BY <2>4, <2>5
  <1>5. ASSUME NEW q \in Lookups, LookupFresh(q) PROVE SharedInv' /\ LoadsInv' /\ MapInv' /\ WaitersInv'
    BY <1>0, <1>5 DEF LookupFresh, Start, Idle
  <1>6. ASSUME NEW q \in Lookups, LookupExpired(q) PROVE SharedInv' /\ LoadsInv' /\ MapInv' /\ WaitersInv'
    <2>1. PICK l \in Loads : Join(l)
      BY <1>6 DEF LookupExpired
    <2>2. /\ owed' = [owed EXCEPT ![q] = IF outdated THEN 0 ELSE acked] /\ state # None
          /\ served' = [x \in Lookups |-> IF x = q THEN state ELSE None] /\ waitsFor[q] = None
          /\ UNCHANGED <<state, rows, waitsFor, acked, overtaken, outdated>>
      BY <1>6 DEF LookupExpired, Start, Idle
    <2>3. /\ inFlight' = l /\ load'[l] # "free" /\ l \notin overtaken
          /\ \A k \in Loads : load'[k] = "read" <=> load[k] = "read"
          /\ \A k \in Loads : load[k] # "free" => load'[k] # "free"
      BY <1>0, <2>1, JoinIs
    <2>4. SharedInv' /\ LoadsInv' /\ MapInv'
      BY <1>0, <2>2, <2>3
    <2>5. WaitersInv'
      BY <1>0, <2>2, <2>3
    <2> QED
      BY <2>4, <2>5
  <1>7. ASSUME NEW l \in Loads, ReadRows(l) PROVE SharedInv' /\ LoadsInv' /\ MapInv' /\ WaitersInv'
    BY <1>0, <1>7 DEF ReadRows
  <1>8. ASSUME NEW l \in Loads, Install(l) \/ Fail(l) PROVE SharedInv' /\ LoadsInv' /\ MapInv' /\ WaitersInv'
    <2>1. /\ Settle(l) /\ UNCHANGED <<owed, acked>>
          /\ \/ /\ load[l] = "read" /\ state' = rows[l] /\ outdated' = (l \in overtaken)
                /\ served' = [q \in Lookups |-> IF q \in Waiters(l) THEN rows[l] ELSE None]
             \/ UNCHANGED <<state, outdated, served>>
      BY <1>8 DEF Install, Fail
    <2>2. /\ inFlight' = None /\ load'[l] = "free" /\ overtaken' = overtaken \ {l}
          /\ \A k \in Loads : k # l => load'[k] = load[k] /\ rows'[k] = rows[k]
          /\ \A q \in Lookups : waitsFor'[q] = IF waitsFor[q] = l THEN None ELSE waitsFor[q]
      BY <1>0, <2>1, SettleIs
    <2>3. SharedInv' /\ LoadsInv' /\ MapInv'
      BY <1>0, <2>1, <2>2
    <2>4. ASSUME NEW q \in Lookups, served'[q] # None PROVE served'[q] >= owed'[q]
      BY <1>0, <2>1, <2>4 DEF Waiters
    <2>5. WaitersInv'
      BY <1>0, <2>1, <2>2, <2>4
    <2> QED
      BY <2>3, <2>5
  <1>9. CASE Tick \/ UNCHANGED vars
    BY <1>0, <1>9 DEF Tick, vars
  <1> QED
    BY <1>1, <1>2, <1>3, <1>4, <1>5, <1>6, <1>7, <1>8, <1>9, Steps

\* For any number of requests, loads and mutations: a lookup sees every mutation
\* that had answered when it came, unless the map it is given came of a load that
\* had its rows when a reset ran; waiting for a load it always does.
THEOREM Visible == Spec => []VisibleUnlessTheMapWasOvertaken
  <1>1. Init => VisibleInv
    BY TypeInit, RegistryAssumption
       DEF VisibleInv, VersionInv, SharedInv, LoadsInv, MapInv, WaitersInv, Init
  <1>2. VisibleInv /\ [Next]_vars => VisibleInv'
    BY TypeStep, VersionStep, VisibleStep DEF VisibleInv
  <1>3. VisibleInv => VisibleUnlessTheMapWasOvertaken
    BY DEF VisibleInv, WaitersInv, VisibleUnlessTheMapWasOvertaken
  <1> QED
    BY <1>1, <1>2, <1>3, PTL DEF Spec

-----------------------------------------------------------------------------
(* The number of loads.                                                    *)

\* The loads no caller can join any more.
Orphans == Running \ {inFlight}

OrphanInv ==
    /\ SharedInv
    /\ IsFiniteSet(Running)
    /\ Cardinality(Orphans) <= resets

CountInv == TypeOK /\ OrphanInv

\* A load that settles leaves no more orphans than there were: it was one, or
\* the load it makes one takes its place.
LEMMA SettleOrphans ==
  ASSUME TypeOK, OrphanInv, NEW l \in Loads, load[l] # "free", Settle(l), resets' = resets
  PROVE  OrphanInv'
  <1> USE RegistryAssumption DEF TypeOK
  <1>1. Running' = Running \ {l} /\ inFlight' = None /\ l \in Running
    BY DEF Settle, Running
  <1>2. Orphans' = Running \ {l}
    BY <1>1 DEF Orphans, Running
  <1>3. IsFiniteSet(Running \ {l}) /\ Cardinality(Running \ {l}) = Cardinality(Running) - 1
    BY <1>1, FS_RemoveElement DEF OrphanInv
  <1>4. Cardinality(Running \ {l}) <= Cardinality(Orphans)
    <2>1. CASE inFlight = None
      <3>1. Orphans = Running
        BY <2>1 DEF Orphans, Running
      <3>2. Cardinality(Running) \in Nat
        BY FS_CardinalityType DEF OrphanInv
      <3> QED
        BY <3>1, <3>2, <1>3
    <2>2. CASE inFlight # None
      <3>1. inFlight \in Running
        BY <2>2 DEF OrphanInv, SharedInv, Running
      <3>2. Cardinality(Running \ {inFlight}) = Cardinality(Running) - 1
        BY <3>1, FS_RemoveElement DEF OrphanInv
      <3>3. Cardinality(Running) \in Nat
        BY FS_CardinalityType DEF OrphanInv
      <3> QED
        BY <3>2, <3>3, <1>3 DEF Orphans
    <2> QED
      BY <2>1, <2>2
  <1>5. Cardinality(Running \ {l}) \in Nat /\ Cardinality(Orphans) \in Nat
    <2>1. IsFiniteSet(Orphans)
      BY FS_Subset DEF OrphanInv, Orphans
    <2> QED
      BY <2>1, <1>3, FS_CardinalityType
  <1> QED
    BY <1>1, <1>2, <1>3, <1>4, <1>5 DEF OrphanInv, SharedInv

\* Joining adds a running load only as the shared one, which is no orphan.
LEMMA JoinOrphans ==
  ASSUME TypeOK, OrphanInv, NEW l \in Loads, Join(l), resets' = resets
  PROVE  OrphanInv'
  <1> USE RegistryAssumption DEF TypeOK
  <1>1. CASE inFlight # None
    BY <1>1 DEF Join, OrphanInv, SharedInv, Orphans, Running
  <1>2. CASE inFlight = None
    <2>1. Running' = Running \cup {l} /\ inFlight' = l /\ l \notin Running
      BY <1>2 DEF Join, Running
    <2>2. Orphans' = Orphans
      BY <1>2, <2>1 DEF Orphans, Running
    <2>3. IsFiniteSet(Running')
      BY <2>1, FS_AddElement DEF OrphanInv
    <2> QED
      BY <2>1, <2>2, <2>3 DEF OrphanInv, SharedInv, Running
  <1> QED
    BY <1>1, <1>2

\* A reset makes at most one orphan.
LEMMA ResetOrphans ==
  ASSUME TypeOK, OrphanInv, NEW w \in Writers, Reset(w)
  PROVE  OrphanInv'
  <1> USE RegistryAssumption DEF TypeOK
  <1>1. Running' = Running /\ inFlight' = None /\ resets' = resets + 1
    BY DEF Reset, Dropped, loadVars, Running
  <1>2. Orphans' = Running
    BY <1>1 DEF Orphans, Running
  <1>3. IsFiniteSet(Orphans) /\ Cardinality(Orphans) \in Nat /\ Cardinality(Running) \in Nat
    BY FS_Subset, FS_CardinalityType DEF OrphanInv, Orphans
  <1>4. Cardinality(Running) <= Cardinality(Orphans) + 1
    <2>1. CASE inFlight \in Running
      BY <2>1, <1>3, FS_RemoveElement DEF OrphanInv, Orphans
    <2>2. CASE inFlight \notin Running
      <3>1. Orphans = Running
        BY <2>2 DEF Orphans
      <3> QED
        BY <3>1, <1>3
    <2> QED
      BY <2>1, <2>2
  <1> QED
    BY <1>1, <1>2, <1>3, <1>4 DEF OrphanInv, SharedInv

LEMMA OrphanStep == TypeOK /\ OrphanInv /\ [Next]_vars => OrphanInv'
  <1> SUFFICES ASSUME TypeOK, OrphanInv, [Next]_vars PROVE OrphanInv'
    OBVIOUS
  <1>1. ASSUME NEW w \in Writers, Reset(w) PROVE OrphanInv'
    BY <1>1, ResetOrphans
  <1>2. ASSUME NEW q \in Lookups, LookupCold(q) \/ LookupExpired(q) PROVE OrphanInv'
    BY <1>2, JoinOrphans DEF LookupCold, LookupExpired
  <1>3. ASSUME NEW l \in Loads, Install(l) \/ Fail(l) PROVE OrphanInv'
    BY <1>3, SettleOrphans DEF Install, Fail
  <1>4. ASSUME NEW l \in Loads, ReadRows(l) PROVE OrphanInv'
    <2>1. Running' = Running /\ inFlight' = inFlight /\ resets' = resets
      BY <1>4 DEF ReadRows, Running, cacheVars, TypeOK
    <2> QED
      BY <1>4, <2>1 DEF ReadRows, OrphanInv, SharedInv, Orphans, TypeOK
  <1>5. CASE UNCHANGED <<load, inFlight, resets>>
    BY <1>5 DEF OrphanInv, SharedInv, Orphans, Running
  <1> QED
    BY <1>1, <1>2, <1>3, <1>4, <1>5
    DEF Next, Commit, ExternalCommit, LookupFresh, Tick, vars, cacheVars, loadVars

\* However many requests arrive in a burst, the loads in flight never outnumber
\* the resets by more than one.
THEOREM LoadsBounded == Spec => []LoadsBoundedByResets
  <1>1. Init => CountInv
    <2> SUFFICES ASSUME Init PROVE CountInv
      OBVIOUS
    <2>1. Running = {} /\ Orphans = {} /\ inFlight = None /\ resets = 0
      BY DEF Init, Running, Orphans
    <2> QED
      BY <2>1, TypeInit, FS_EmptySet DEF CountInv, OrphanInv, SharedInv
  <1>2. CountInv /\ [Next]_vars => CountInv'
    BY TypeStep, OrphanStep DEF CountInv
  <1>3. CountInv => LoadsBoundedByResets
    <2> SUFFICES ASSUME CountInv PROVE LoadsBoundedByResets
      OBVIOUS
    <2>1. IsFiniteSet(Orphans) /\ Cardinality(Orphans) \in Nat /\ Cardinality(Running) \in Nat
      BY FS_Subset, FS_CardinalityType DEF CountInv, OrphanInv, Orphans
    <2>2. Cardinality(Running) <= Cardinality(Orphans) + 1
      <3>1. CASE inFlight \in Running
        BY <3>1, <2>1, FS_RemoveElement DEF CountInv, OrphanInv, Orphans
      <3>2. CASE inFlight \notin Running
        <4>1. Orphans = Running
          BY <3>2 DEF Orphans
        <4> QED
          BY <4>1, <2>1
      <3> QED
        BY <3>1, <3>2
    <2> QED
      BY <2>1, <2>2 DEF CountInv, OrphanInv, TypeOK, LoadsBoundedByResets
  <1> QED
    BY <1>1, <1>2, <1>3, PTL DEF Spec
=============================================================================
