------------------------- MODULE SigningKeys_proofs -------------------------
(***************************************************************************)
(* Proofs about SigningKeys, for every set of keys and of rotating         *)
(* processes and for every value of the durations.                         *)
(*                                                                         *)
(* The inductive invariant adds to the type invariant what the code relies *)
(* on without writing it down: that the advisory lock makes the rotation's *)
(* snapshot of the retiring key current, and that the backdate is computed *)
(* behind every key that can be live when it is written.                   *)
(***************************************************************************)
EXTENDS SigningKeys, TLAPS

Rotating(r) == pc[r] \in {"create", "backdate", "retire"}

\* A rotation past its first statement holds the lock.
LockInv == \A r \in Rotators : pc[r] # "idle" => lock = r

\* A row was inserted, and its two times are not in the future.
RowInv ==
    \A k \in row :
        /\ publishedAt[k] \in Nat /\ publishedAt[k] <= now
        /\ createdAt[k] <= now

\* The rotation's copy of the retiring key's deadline is the row's.
SnapshotInv ==
    \A r \in Rotators : Rotating(r) =>
        /\ rotAt[r] <= now /\ now <= rotAt[r] + MaxStall
        /\ retiring[r] # NoKey => publishedAt[retiring[r]] # NoTime
        /\ retiring[r] \in row => retiringExp[r] = expiresAt[retiring[r]]

\* The last token of a key expires inside the key's grace period, and the row
\* outlives that period.
SignedInv ==
    \A k \in Keys : lastSigned[k] # NoTime =>
        /\ publishedAt[k] # NoTime
        /\ lastSigned[k] <= now
        /\ expiresAt[k] # NoExpiry => lastSigned[k] + TokenLife <= expiresAt[k] + Grace
        /\ k \notin row => expiresAt[k] # NoExpiry /\ expiresAt[k] + Grace < now

\* The backdate will land behind every live key.
FloorInv ==
    \A r \in Rotators : pc[r] \in {"create", "backdate"} =>
        /\ floor[r] <= now
        /\ \A j \in LiveKeys : floor[r] <= createdAt[j]

\* While a successor waits for its backdate it is the last key published.
SuccessorInv ==
    \A r \in Rotators : pc[r] = "backdate" =>
        /\ created[r] \in Keys
        /\ publishedAt[created[r]] # NoTime
        /\ Live(created[r]) =>
            \A j \in LiveKeys : publishedAt[j] <= publishedAt[created[r]]

IInv ==
    /\ TypeOK
    /\ LockInv
    /\ RowInv
    /\ SnapshotInv
    /\ SignedInv
    /\ FloorInv
    /\ SuccessorInv
    /\ TakeoverInPublicationOrder

-----------------------------------------------------------------------------
\* An update of a function stays in the function set, wherever it points.
LEMMA ExceptType ==
  ASSUME NEW S, NEW T, NEW f \in [S -> T], NEW x, NEW v \in T
  PROVE  [f EXCEPT ![x] = v] \in [S -> T]
  OBVIOUS

\* Every state of a behaviour has well-typed variables.
LEMMA TypeInit == Init => TypeOK
  BY DurationsAssumption, NoneAssumption DEF Init, TypeOK, NoTime, NoExpiry

LEMMA TypeStep == TypeOK /\ [Next]_vars => TypeOK'
  <1> SUFFICES ASSUME TypeOK, [Next]_vars PROVE TypeOK'
    OBVIOUS
  <1> USE DurationsAssumption, NoneAssumption DEF TypeOK
  <1>1. ASSUME NEW k \in Keys, Sign(k) PROVE TypeOK'
    BY <1>1 DEF Sign, SignedNow, tableVars, rotVars
  <1>2. ASSUME NEW k \in Keys, MintAndSign(k) PROVE TypeOK'
    BY <1>2 DEF MintAndSign, Insert, SignedNow, rotVars
  <1>3. ASSUME NEW k \in Keys, EnsureSigningKey(k) PROVE TypeOK'
    BY <1>3 DEF EnsureSigningKey, Insert, rotVars
  <1>4. ASSUME NEW r \in Rotators, TakeLock(r) PROVE TypeOK'
    BY <1>4 DEF TakeLock, tableVars, historyVars
  <1>5. ASSUME NEW r \in Rotators, ReadLive(r) PROVE TypeOK'
    BY <1>5 DEF ReadLive, tableVars, historyVars, Oldest, Signers, LiveKeys
  <1>6. ASSUME NEW r \in Rotators, Backdate(r) PROVE TypeOK'
    <2>1. createdAt' \in [Keys -> Int]
      <3>1. floor[r] \in Int /\ Backdated(r) \in Int
        BY DEF Backdated
      <3> QED
        BY <1>6, <3>1, ExceptType DEF Backdate
    <2> QED
      BY <1>6, <2>1 DEF Backdate
  <1>7. ASSUME NEW r \in Rotators, Retire(r) PROVE TypeOK'
    BY <1>7 DEF Retire, MustBringForward, EffectiveAt, Finish, historyVars, NoExpiry
  <1>8. ASSUME NEW r \in Rotators, Crash(r) PROVE TypeOK'
    BY <1>8 DEF Crash, Finish, tableVars, historyVars, NoExpiry
  <1>9. ASSUME NEW r \in Rotators, NEW k \in Keys, CreateSuccessor(r, k) PROVE TypeOK'
    BY <1>9 DEF CreateSuccessor, Insert
  <1>10. CASE Cleanup
    BY <1>10 DEF Cleanup, rotVars, historyVars
  <1>11. CASE Tick
    BY <1>11 DEF Tick, tableVars, rotVars, historyVars
  <1>12. CASE UNCHANGED vars
    BY <1>12 DEF vars, tableVars, rotVars, historyVars
  <1> QED
    BY <1>1, <1>2, <1>3, <1>4, <1>5, <1>6, <1>7, <1>8, <1>9, <1>10, <1>11, <1>12 DEF Next

-----------------------------------------------------------------------------
(* The inductive invariant, one conjunct at a time.                      *)

\* The lock excludes: only its holder is past TakeLock.
LEMMA LockStep == TypeOK /\ LockInv /\ [Next]_vars => LockInv'
  <1> SUFFICES ASSUME TypeOK, LockInv, [Next]_vars PROVE LockInv'
    OBVIOUS
  <1> USE DurationsAssumption, NoneAssumption DEF TypeOK, LockInv
  <1>1. ASSUME NEW k \in Keys, Sign(k) PROVE LockInv'
    BY <1>1 DEF Sign, SignedNow, Signers, LiveKeys, tableVars, rotVars
  <1>2. ASSUME NEW k \in Keys, MintAndSign(k) PROVE LockInv'
    BY <1>2 DEF MintAndSign, Insert, Unused, SignedNow, LiveKeys, rotVars
  <1>3. ASSUME NEW k \in Keys, EnsureSigningKey(k) PROVE LockInv'
    BY <1>3 DEF EnsureSigningKey, Insert, Unused, rotVars
  <1>4. ASSUME NEW r \in Rotators, TakeLock(r) PROVE LockInv'
    BY <1>4 DEF TakeLock, tableVars, historyVars
  <1>5. ASSUME NEW r \in Rotators, ReadLive(r) PROVE LockInv'
    BY <1>5 DEF ReadLive, tableVars, historyVars, Oldest, Signers, LiveKeys
  <1>6. ASSUME NEW r \in Rotators, Backdate(r) PROVE LockInv'
    BY <1>6 DEF Backdate, Backdated
  <1>7. ASSUME NEW r \in Rotators, Retire(r) PROVE LockInv'
    BY <1>7 DEF Retire, MustBringForward, EffectiveAt, Finish, historyVars
  <1>8. ASSUME NEW r \in Rotators, Crash(r) PROVE LockInv'
    BY <1>8 DEF Crash, Finish, tableVars, historyVars
  <1>9. ASSUME NEW r \in Rotators, NEW k \in Keys, CreateSuccessor(r, k) PROVE LockInv'
    BY <1>9 DEF CreateSuccessor, Insert, Unused
  <1>10. CASE Cleanup
    BY <1>10 DEF Cleanup, PastGrace, rotVars, historyVars
  <1>11. CASE Tick
    BY <1>11 DEF Tick, tableVars, rotVars, historyVars
  <1>12. CASE UNCHANGED vars
    BY <1>12 DEF vars, tableVars, rotVars, historyVars
  <1> QED
    BY <1>1, <1>2, <1>3, <1>4, <1>5, <1>6, <1>7, <1>8, <1>9, <1>10, <1>11, <1>12 DEF Next

\* Rows are never dated in the future.
LEMMA RowStep == TypeOK /\ RowInv /\ FloorInv /\ [Next]_vars => RowInv'
  <1> SUFFICES ASSUME TypeOK, RowInv, FloorInv, [Next]_vars PROVE RowInv'
    OBVIOUS
  <1> USE DurationsAssumption, NoneAssumption DEF TypeOK, RowInv, FloorInv, NoTime
  <1>1. ASSUME NEW k \in Keys, Sign(k) PROVE RowInv'
    BY <1>1 DEF Sign, SignedNow, Signers, LiveKeys, tableVars, rotVars
  <1>2. ASSUME NEW k \in Keys, MintAndSign(k) PROVE RowInv'
    BY <1>2 DEF MintAndSign, Insert, Unused, SignedNow, LiveKeys, rotVars
  <1>3. ASSUME NEW k \in Keys, EnsureSigningKey(k) PROVE RowInv'
    BY <1>3 DEF EnsureSigningKey, Insert, Unused, rotVars
  <1>4. ASSUME NEW r \in Rotators, TakeLock(r) PROVE RowInv'
    BY <1>4 DEF TakeLock, tableVars, historyVars
  <1>5. ASSUME NEW r \in Rotators, ReadLive(r) PROVE RowInv'
    BY <1>5 DEF ReadLive, tableVars, historyVars, Oldest, Signers, LiveKeys
  <1>6. ASSUME NEW r \in Rotators, Backdate(r) PROVE RowInv'
    BY <1>6 DEF Backdate, Backdated
  <1>7. ASSUME NEW r \in Rotators, Retire(r) PROVE RowInv'
    BY <1>7 DEF Retire, MustBringForward, EffectiveAt, Finish, historyVars
  <1>8. ASSUME NEW r \in Rotators, Crash(r) PROVE RowInv'
    BY <1>8 DEF Crash, Finish, tableVars, historyVars
  <1>9. ASSUME NEW r \in Rotators, NEW k \in Keys, CreateSuccessor(r, k) PROVE RowInv'
    BY <1>9 DEF CreateSuccessor, Insert, Unused
  <1>10. CASE Cleanup
    BY <1>10 DEF Cleanup, PastGrace, rotVars, historyVars
  <1>11. CASE Tick
    BY <1>11 DEF Tick, tableVars, rotVars, historyVars
  <1>12. CASE UNCHANGED vars
    BY <1>12 DEF vars, tableVars, rotVars, historyVars
  <1> QED
    BY <1>1, <1>2, <1>3, <1>4, <1>5, <1>6, <1>7, <1>8, <1>9, <1>10, <1>11, <1>12 DEF Next

\* Nobody but the holder of the lock changes the deadline of the key it retires.
LEMMA SnapshotStep == TypeOK /\ LockInv /\ RowInv /\ SnapshotInv /\ [Next]_vars => SnapshotInv'
  <1> SUFFICES ASSUME TypeOK, LockInv, RowInv, SnapshotInv, [Next]_vars PROVE SnapshotInv'
    OBVIOUS
  <1> USE DurationsAssumption, NoneAssumption DEF TypeOK, LockInv, RowInv, SnapshotInv, Rotating, NoTime, Live
  <1>1. ASSUME NEW k \in Keys, Sign(k) PROVE SnapshotInv'
    BY <1>1 DEF Sign, SignedNow, Signers, LiveKeys, tableVars, rotVars
  <1>2. ASSUME NEW k \in Keys, MintAndSign(k) PROVE SnapshotInv'
    BY <1>2 DEF MintAndSign, Insert, Unused, SignedNow, LiveKeys, rotVars
  <1>3. ASSUME NEW k \in Keys, EnsureSigningKey(k) PROVE SnapshotInv'
    BY <1>3 DEF EnsureSigningKey, Insert, Unused, rotVars
  <1>4. ASSUME NEW r \in Rotators, TakeLock(r) PROVE SnapshotInv'
    BY <1>4 DEF TakeLock, tableVars, historyVars
  <1>5. ASSUME NEW r \in Rotators, ReadLive(r) PROVE SnapshotInv'
    BY <1>5 DEF ReadLive, tableVars, historyVars, Oldest, Signers, LiveKeys
  <1>6. ASSUME NEW r \in Rotators, Backdate(r) PROVE SnapshotInv'
    BY <1>6 DEF Backdate, Backdated
  <1>7. ASSUME NEW r \in Rotators, Retire(r) PROVE SnapshotInv'
    BY <1>7 DEF Retire, MustBringForward, EffectiveAt, Finish, historyVars
  <1>8. ASSUME NEW r \in Rotators, Crash(r) PROVE SnapshotInv'
    BY <1>8 DEF Crash, Finish, tableVars, historyVars
  <1>9. ASSUME NEW r \in Rotators, NEW k \in Keys, CreateSuccessor(r, k) PROVE SnapshotInv'
    BY <1>9 DEF CreateSuccessor, Insert, Unused
  <1>10. CASE Cleanup
    BY <1>10 DEF Cleanup, PastGrace, rotVars, historyVars
  <1>11. CASE Tick
    BY <1>11 DEF Tick, tableVars, rotVars, historyVars
  <1>12. CASE UNCHANGED vars
    BY <1>12 DEF vars, tableVars, rotVars, historyVars
  <1> QED
    BY <1>1, <1>2, <1>3, <1>4, <1>5, <1>6, <1>7, <1>8, <1>9, <1>10, <1>11, <1>12 DEF Next

\* Every deadline keeps covering the tokens already signed.
LEMMA SignedStep == TypeOK /\ RowInv /\ SnapshotInv /\ SignedInv /\ [Next]_vars => SignedInv'
  <1> SUFFICES ASSUME TypeOK, RowInv, SnapshotInv, SignedInv, [Next]_vars PROVE SignedInv'
    OBVIOUS
  <1> USE DurationsAssumption, NoneAssumption DEF TypeOK, RowInv, SnapshotInv, SignedInv, Rotating, NoTime, NoExpiry, Live
  <1>1. ASSUME NEW k \in Keys, Sign(k) PROVE SignedInv'
    BY <1>1 DEF Sign, SignedNow, Signers, LiveKeys, tableVars, rotVars
  <1>2. ASSUME NEW k \in Keys, MintAndSign(k) PROVE SignedInv'
    BY <1>2 DEF MintAndSign, Insert, Unused, SignedNow, LiveKeys, rotVars
  <1>3. ASSUME NEW k \in Keys, EnsureSigningKey(k) PROVE SignedInv'
    BY <1>3 DEF EnsureSigningKey, Insert, Unused, rotVars
  <1>4. ASSUME NEW r \in Rotators, TakeLock(r) PROVE SignedInv'
    BY <1>4 DEF TakeLock, tableVars, historyVars
  <1>5. ASSUME NEW r \in Rotators, ReadLive(r) PROVE SignedInv'
    BY <1>5 DEF ReadLive, tableVars, historyVars, Oldest, Signers, LiveKeys
  <1>6. ASSUME NEW r \in Rotators, Backdate(r) PROVE SignedInv'
    BY <1>6 DEF Backdate, Backdated
  <1>7. ASSUME NEW r \in Rotators, Retire(r) PROVE SignedInv'
    BY <1>7 DEF Retire, MustBringForward, EffectiveAt, Finish, historyVars
  <1>8. ASSUME NEW r \in Rotators, Crash(r) PROVE SignedInv'
    BY <1>8 DEF Crash, Finish, tableVars, historyVars
  <1>9. ASSUME NEW r \in Rotators, NEW k \in Keys, CreateSuccessor(r, k) PROVE SignedInv'
    BY <1>9 DEF CreateSuccessor, Insert, Unused
  <1>10. CASE Cleanup
    BY <1>10 DEF Cleanup, PastGrace, rotVars, historyVars
  <1>11. CASE Tick
    BY <1>11 DEF Tick, tableVars, rotVars, historyVars
  <1>12. CASE UNCHANGED vars
    BY <1>12 DEF vars, tableVars, rotVars, historyVars
  <1> QED
    BY <1>1, <1>2, <1>3, <1>4, <1>5, <1>6, <1>7, <1>8, <1>9, <1>10, <1>11, <1>12 DEF Next

\* Keys that become live after the read are newer than the floor.
LEMMA FloorStep == TypeOK /\ LockInv /\ RowInv /\ FloorInv /\ [Next]_vars => FloorInv'
  <1> SUFFICES ASSUME TypeOK, LockInv, RowInv, FloorInv, [Next]_vars PROVE FloorInv'
    OBVIOUS
  <1> USE DurationsAssumption, NoneAssumption DEF TypeOK, LockInv, RowInv, FloorInv, NoTime, NoExpiry, Live, LiveKeys
  <1>1. ASSUME NEW k \in Keys, Sign(k) PROVE FloorInv'
    BY <1>1 DEF Sign, SignedNow, Signers, LiveKeys, tableVars, rotVars
  <1>2. ASSUME NEW k \in Keys, MintAndSign(k) PROVE FloorInv'
    BY <1>2 DEF MintAndSign, Insert, Unused, SignedNow, LiveKeys, rotVars
  <1>3. ASSUME NEW k \in Keys, EnsureSigningKey(k) PROVE FloorInv'
    BY <1>3 DEF EnsureSigningKey, Insert, Unused, rotVars
  <1>4. ASSUME NEW r \in Rotators, TakeLock(r) PROVE FloorInv'
    BY <1>4 DEF TakeLock, tableVars, historyVars
  <1>5. ASSUME NEW r \in Rotators, ReadLive(r) PROVE FloorInv'
    BY <1>5 DEF ReadLive, tableVars, historyVars, Oldest, Signers, LiveKeys
  <1>6. ASSUME NEW r \in Rotators, Backdate(r) PROVE FloorInv'
    BY <1>6 DEF Backdate, Backdated
  <1>7. ASSUME NEW r \in Rotators, Retire(r) PROVE FloorInv'
    BY <1>7 DEF Retire, MustBringForward, EffectiveAt, Finish, historyVars
  <1>8. ASSUME NEW r \in Rotators, Crash(r) PROVE FloorInv'
    BY <1>8 DEF Crash, Finish, tableVars, historyVars
  <1>9. ASSUME NEW r \in Rotators, NEW k \in Keys, CreateSuccessor(r, k) PROVE FloorInv'
    BY <1>9 DEF CreateSuccessor, Insert, Unused
  <1>10. CASE Cleanup
    BY <1>10 DEF Cleanup, PastGrace, rotVars, historyVars
  <1>11. CASE Tick
    BY <1>11 DEF Tick, tableVars, rotVars, historyVars
  <1>12. CASE UNCHANGED vars
    BY <1>12 DEF vars, tableVars, rotVars, historyVars
  <1> QED
    BY <1>1, <1>2, <1>3, <1>4, <1>5, <1>6, <1>7, <1>8, <1>9, <1>10, <1>11, <1>12 DEF Next

\* No key is published after a live successor that waits for its backdate.
LEMMA SuccessorStep == TypeOK /\ LockInv /\ RowInv /\ SuccessorInv /\ [Next]_vars => SuccessorInv'
  <1> SUFFICES ASSUME TypeOK, LockInv, RowInv, SuccessorInv, [Next]_vars PROVE SuccessorInv'
    OBVIOUS
  <1> USE DurationsAssumption, NoneAssumption DEF TypeOK, LockInv, RowInv, SuccessorInv, NoTime, NoExpiry, Live, LiveKeys
  <1>1. ASSUME NEW k \in Keys, Sign(k) PROVE SuccessorInv'
    BY <1>1 DEF Sign, SignedNow, Signers, LiveKeys, tableVars, rotVars
  <1>2. ASSUME NEW k \in Keys, MintAndSign(k) PROVE SuccessorInv'
    BY <1>2 DEF MintAndSign, Insert, Unused, SignedNow, LiveKeys, rotVars
  <1>3. ASSUME NEW k \in Keys, EnsureSigningKey(k) PROVE SuccessorInv'
    BY <1>3 DEF EnsureSigningKey, Insert, Unused, rotVars
  <1>4. ASSUME NEW r \in Rotators, TakeLock(r) PROVE SuccessorInv'
    BY <1>4 DEF TakeLock, tableVars, historyVars
  <1>5. ASSUME NEW r \in Rotators, ReadLive(r) PROVE SuccessorInv'
    BY <1>5 DEF ReadLive, tableVars, historyVars, Oldest, Signers, LiveKeys
  <1>6. ASSUME NEW r \in Rotators, Backdate(r) PROVE SuccessorInv'
    BY <1>6 DEF Backdate, Backdated
  <1>7. ASSUME NEW r \in Rotators, Retire(r) PROVE SuccessorInv'
    BY <1>7 DEF Retire, MustBringForward, EffectiveAt, Finish, historyVars
  <1>8. ASSUME NEW r \in Rotators, Crash(r) PROVE SuccessorInv'
    BY <1>8 DEF Crash, Finish, tableVars, historyVars
  <1>9. ASSUME NEW r \in Rotators, NEW k \in Keys, CreateSuccessor(r, k) PROVE SuccessorInv'
    BY <1>9 DEF CreateSuccessor, Insert, Unused
  <1>10. CASE Cleanup
    BY <1>10 DEF Cleanup, PastGrace, rotVars, historyVars
  <1>11. CASE Tick
    BY <1>11 DEF Tick, tableVars, rotVars, historyVars
  <1>12. CASE UNCHANGED vars
    BY <1>12 DEF vars, tableVars, rotVars, historyVars
  <1> QED
    BY <1>1, <1>2, <1>3, <1>4, <1>5, <1>6, <1>7, <1>8, <1>9, <1>10, <1>11, <1>12 DEF Next

\* createdAt runs against publication among the live keys.
LEMMA OrderStep == TypeOK /\ LockInv /\ RowInv /\ SnapshotInv /\ FloorInv /\ SuccessorInv /\ TakeoverInPublicationOrder /\ [Next]_vars => TakeoverInPublicationOrder'
  <1> SUFFICES ASSUME TypeOK, LockInv, RowInv, SnapshotInv, FloorInv, SuccessorInv, TakeoverInPublicationOrder, [Next]_vars PROVE TakeoverInPublicationOrder'
    OBVIOUS
  <1> USE DurationsAssumption, NoneAssumption DEF TypeOK, LockInv, RowInv, SnapshotInv, Rotating, FloorInv, SuccessorInv, TakeoverInPublicationOrder, NoTime, NoExpiry, Live, LiveKeys
  <1>1. ASSUME NEW k \in Keys, Sign(k) PROVE TakeoverInPublicationOrder'
    BY <1>1 DEF Sign, SignedNow, Signers, LiveKeys, tableVars, rotVars
  <1>2. ASSUME NEW k \in Keys, MintAndSign(k) PROVE TakeoverInPublicationOrder'
    BY <1>2 DEF MintAndSign, Insert, Unused, SignedNow, LiveKeys, rotVars
  <1>3. ASSUME NEW k \in Keys, EnsureSigningKey(k) PROVE TakeoverInPublicationOrder'
    BY <1>3 DEF EnsureSigningKey, Insert, Unused, rotVars
  <1>4. ASSUME NEW r \in Rotators, TakeLock(r) PROVE TakeoverInPublicationOrder'
    BY <1>4 DEF TakeLock, tableVars, historyVars
  <1>5. ASSUME NEW r \in Rotators, ReadLive(r) PROVE TakeoverInPublicationOrder'
    BY <1>5 DEF ReadLive, tableVars, historyVars, Oldest, Signers, LiveKeys
  <1>6. ASSUME NEW r \in Rotators, Backdate(r) PROVE TakeoverInPublicationOrder'
    <2> DEFINE c == created[r]
    <2>1. SUFFICES ASSUME NEW j \in LiveKeys, NEW k \in LiveKeys,
                          j = c \/ j \notin half, k = c \/ k \notin half,
                          publishedAt[j] < publishedAt[k]
                   PROVE  createdAt'[k] < createdAt'[j]
      BY <1>6, <2>1 DEF Backdate
    <2>2. /\ c \in Keys /\ floor[r] \in Int
          /\ createdAt' = [createdAt EXCEPT ![c] = floor[r] - 1]
      BY <1>6 DEF Backdate, Backdated
    <2>3. CASE k = c
      <3>1. j # c /\ floor[r] <= createdAt[j]
        BY <1>6, <2>1, <2>3 DEF Backdate
      <3> QED
        BY <2>2, <2>3, <3>1
    <2>4. CASE j = c
      <3>1. publishedAt[k] <= publishedAt[c]
        BY <1>6, <2>4 DEF Backdate
      <3> QED
        BY <2>1, <2>4, <3>1
    <2>5. CASE j # c /\ k # c
      <3>1. createdAt[k] < createdAt[j]
        BY <2>1, <2>5
      <3> QED
        BY <2>2, <2>5, <3>1
    <2> QED
      BY <2>3, <2>4, <2>5
  <1>7. ASSUME NEW r \in Rotators, Retire(r) PROVE TakeoverInPublicationOrder'
    BY <1>7 DEF Retire, MustBringForward, EffectiveAt, Finish, historyVars
  <1>8. ASSUME NEW r \in Rotators, Crash(r) PROVE TakeoverInPublicationOrder'
    BY <1>8 DEF Crash, Finish, tableVars, historyVars
  <1>9. ASSUME NEW r \in Rotators, NEW k \in Keys, CreateSuccessor(r, k) PROVE TakeoverInPublicationOrder'
    BY <1>9 DEF CreateSuccessor, Insert, Unused
  <1>10. CASE Cleanup
    BY <1>10 DEF Cleanup, PastGrace, rotVars, historyVars
  <1>11. CASE Tick
    BY <1>11 DEF Tick, tableVars, rotVars, historyVars
  <1>12. CASE UNCHANGED vars
    BY <1>12 DEF vars, tableVars, rotVars, historyVars
  <1> QED
    BY <1>1, <1>2, <1>3, <1>4, <1>5, <1>6, <1>7, <1>8, <1>9, <1>10, <1>11, <1>12 DEF Next
-----------------------------------------------------------------------------
(* The theorems.                                                           *)

LEMMA InitIInv == Init => IInv
  <1> SUFFICES ASSUME Init PROVE IInv
    OBVIOUS
  <1>1. TypeOK
    BY TypeInit
  <1> QED
    BY <1>1, DurationsAssumption, NoneAssumption
    DEF IInv, TypeOK, Init, LockInv, RowInv, SnapshotInv, Rotating, SignedInv, FloorInv, SuccessorInv,
        TakeoverInPublicationOrder, LiveKeys, NoTime

LEMMA StepIInv == IInv /\ [Next]_vars => IInv'
  BY TypeStep, LockStep, RowStep, SnapshotStep, SignedStep, FloorStep, SuccessorStep, OrderStep
  DEF IInv

LEMMA InductiveInvariant == Spec => []IInv
  BY InitIInv, StepIInv, PTL DEF Spec

\* The variables keep their types, whatever the durations and however many keys.
THEOREM TypeCorrect == Spec => []TypeOK
  BY InductiveInvariant, PTL DEF IInv

\* A token that has not expired always names a key the JWKS still lists.
THEOREM TokensVerify == Spec => []IssuedTokensVerify
  <1>1. IInv => IssuedTokensVerify
    BY DurationsAssumption
    DEF IInv, TypeOK, SignedInv, RowInv, IssuedTokensVerify, Published, NoTime, NoExpiry
  <1> QED
    BY <1>1, InductiveInvariant, PTL

\* Live keys sign in the order in which they were published, however many
\* rotations queued up and however many of them died half way.
THEOREM TakeoverOrder == Spec => []TakeoverInPublicationOrder
  BY InductiveInvariant, PTL DEF IInv

\* No step of the system moves a key's deadline further away.
THEOREM DeadlinesOnlyMoveCloser == Spec => ExpiryNeverPushedBack
  <1> DEFINE Closer == \A k \in row \cap row' :
               expiresAt[k] # NoExpiry => expiresAt'[k] # NoExpiry /\ expiresAt'[k] <= expiresAt[k]
  <1>1. ASSUME IInv, [Next]_vars PROVE [Closer]_vars
    <2> USE <1>1, DurationsAssumption, NoneAssumption DEF IInv, TypeOK, NoExpiry
    <2>1. ASSUME NEW r \in Rotators, Retire(r) PROVE Closer
      BY <2>1 DEF Retire, MustBringForward, EffectiveAt, SnapshotInv, Rotating
    <2>2. ASSUME NEW k \in Keys, Insert(k) PROVE Closer
      BY <2>2 DEF Insert, Unused, RowInv, NoTime
    <2>3. CASE UNCHANGED expiresAt
      BY <2>3
    <2> QED
      BY <2>1, <2>2, <2>3 DEF Next, Sign, MintAndSign, EnsureSigningKey, TakeLock, ReadLive,
         CreateSuccessor, Backdate, Crash, Cleanup, Tick, vars, tableVars, historyVars
  <1>2. IInv /\ [Next]_vars => [Closer]_vars
    BY <1>1
  <1> QED
    BY <1>2, InductiveInvariant, PTL DEF Spec, ExpiryNeverPushedBack
=============================================================================
