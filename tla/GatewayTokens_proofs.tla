----------------------- MODULE GatewayTokens_proofs -----------------------
(***************************************************************************)
(* Proofs about GatewayTokens for any number of credentials, gateways,      *)
(* requests and writers, and any lifetimes.                                *)
(***************************************************************************)
EXTENDS GatewayTokens, FiniteSetTheorems, TLAPS

Minted(r) == pc[r] = "minted" /\ result[r] = "token"

\* The types the arguments need.
ClockInv ==
    /\ now \in Nat
    /\ pc \in [Requests -> {"idle", "minting", "minted"}]
    /\ job \in [Requests -> {job[r] : r \in Requests}]
    /\ result \in [Requests -> {"none", "token", "refused", "error"}]
    /\ signedAt \in [Requests -> Nat]
    /\ changedAt \in [Credentials -> Nat]
    /\ valid \in SUBSET Credentials
    /\ entry \in [Hashes -> {entry[h] : h \in Hashes}]
    /\ \A r \in Requests : pc[r] # "idle" =>
         /\ job[r].cred \in Credentials /\ job[r].gw \in Gateways
    /\ \A h \in Hashes : Cached(h) => entry[h].signedAt \in Nat /\ entry[h].until \in Int

\* A token was signed while its credential passed the check, so whoever has it
\* although the credential does not pass holds one from before that changed; and
\* it is stored within the stall.
SignedInv ==
    /\ \A r \in Requests : pc[r] = "minted" => now <= signedAt[r] + MaxStall
    /\ \A r \in Requests : Minted(r) =>
         /\ signedAt[r] <= now
         /\ job[r].cred \notin valid => signedAt[r] <= changedAt[job[r].cred]
    /\ \A h \in Hashes : Cached(h) =>
         /\ entry[h].signedAt <= now
         /\ entry[h].until <= entry[h].signedAt + MaxStall + CacheSeconds
         /\ h[1] \notin valid => entry[h].signedAt <= changedAt[h[1]]

\* What ended before a reset is held by nobody who was not running then.
EndedInv ==
    /\ ended \cap valid = {}
    /\ \A r \in Requests : Minted(r) /\ r \notin late => job[r].cred \notin ended
    /\ \A h \in Hashes : Cached(h) /\ ~entry[h].late => h[1] \notin ended

TokensInv == ClockInv /\ SignedInv /\ EndedInv

-----------------------------------------------------------------------------
LEMMA HashNames ==
  ASSUME NEW c \in Credentials, NEW g \in Gateways, NEW aud
  PROVE  Hash(c, g, aud) \in Hashes /\ Hash(c, g, aud)[1] = c
  BY DEF Hash, Hashes

LEMMA CacheSecondsInt == ASSUME TokensAssumption PROVE CacheSeconds \in Int /\ CacheSeconds <= Life - Margin
  BY DEF CacheSeconds, TokensAssumption

\* The fields of an entry, its Boolean one included.
LEMMA Fields ==
  ASSUME NEW a, NEW s, NEW u, NEW l, NEW e, e = [aud |-> a, signedAt |-> s, until |-> u, late |-> l]
  PROVE  e.signedAt = s /\ e.until = u /\ e.late = l
  OBVIOUS

LEMMA InvInit == ASSUME TokensAssumption PROVE Init => TokensInv
  <1> SUFFICES ASSUME Init PROVE TokensInv
    OBVIOUS
  <1>1. \A h \in Hashes : ~Cached(h)
    BY DEF Init, Cached
  <1>2. \A r \in Requests : pc[r] = "idle" /\ ~Minted(r)
    BY DEF Init, Minted
  <1>3. ClockInv
    BY <1>1, <1>2 DEF Init, ClockInv, TokensAssumption
  <1> QED
    BY <1>1, <1>2, <1>3 DEF Init, TokensInv, SignedInv, EndedInv

-----------------------------------------------------------------------------
\* A step that only forgets entries, and leaves the rest of what the invariant
\* reads as it is, keeps it.
LEMMA Forgetting ==
  ASSUME TokensAssumption, TokensInv,
         UNCHANGED <<now, pc, job, result, signedAt, changedAt, valid, ended, late>>,
         entry' \in [Hashes -> {entry'[h] : h \in Hashes}],
         \A h \in Hashes : entry'[h] = entry[h] \/ entry'[h] = Nothing
  PROVE  TokensInv'
  <1> USE DEF TokensInv
  <1>1. \A h \in Hashes : Cached(h)' => Cached(h) /\ entry'[h] = entry[h]
    BY DEF Cached
  <1>2. \A r \in Requests : Minted(r)' <=> Minted(r)
    BY DEF Minted
  <1>3. ClockInv'
    BY <1>1 DEF ClockInv
  <1>4. SignedInv'
    BY <1>1, <1>2 DEF SignedInv, CacheSeconds
  <1>5. EndedInv'
    BY <1>1, <1>2 DEF EndedInv
  <1> QED
    BY <1>3, <1>4, <1>5

LEMMA ExchangeStep ==
  ASSUME TokensAssumption, TokensInv,
         NEW r \in Requests, NEW c \in Credentials, NEW g \in Gateways, Exchange(r, c, g)
  PROVE  TokensInv'
  <1> USE DEF TokensInv
  <1>1. PICK aud \in {audience[g], known[g]} \ {Nothing} :
          /\ Forget(Hash(c, g, aud))
          /\ \/ UNCHANGED <<pc, job>>
             \/ /\ pc' = [pc EXCEPT ![r] = "minting"]
                /\ job' = [job EXCEPT ![r] = [cred |-> c, gw |-> g, aud |-> aud]]
    BY DEF Exchange
  <1>2. UNCHANGED <<now, result, signedAt, changedAt, valid, ended, late>>
    BY DEF Exchange, rowVars, historyVars
  <1>3. entry' = [entry EXCEPT ![Hash(c, g, aud)] = Nothing]
    BY <1>1 DEF Forget
  <1>4. \A h \in Hashes : Cached(h)' => Cached(h) /\ entry'[h] = entry[h]
    BY <1>3 DEF Cached, ClockInv
  <1>5. \A x \in Requests : Minted(x)' => Minted(x) /\ job'[x] = job[x]
    BY <1>1, <1>2 DEF Minted, ClockInv
  <1>6. /\ pc' \in [Requests -> {"idle", "minting", "minted"}]
        /\ job' \in [Requests -> {job'[x] : x \in Requests}]
        /\ entry' \in [Hashes -> {entry'[h] : h \in Hashes}]
    BY <1>1, <1>3 DEF ClockInv
  <1>7. \A x \in Requests : pc'[x] # "idle" =>
          job'[x].cred \in Credentials /\ job'[x].gw \in Gateways
    BY <1>1 DEF ClockInv
  <1>8. ClockInv'
    BY <1>2, <1>4, <1>6, <1>7 DEF ClockInv
  <1>9. SignedInv'
    BY <1>1, <1>2, <1>4, <1>5 DEF SignedInv, CacheSeconds, ClockInv
  <1>10. EndedInv'
    BY <1>2, <1>4, <1>5 DEF EndedInv
  <1> QED
    BY <1>8, <1>9, <1>10

LEMMA MintStep ==
  ASSUME TokensAssumption, TokensInv, NEW r \in Requests, Mint(r)
  PROVE  TokensInv'
  <1> USE DEF TokensInv
  <1>1. UNCHANGED <<now, entry, job, changedAt, valid, ended, late>>
    BY DEF Mint, rowVars, cacheVars, historyVars
  <1>2. /\ pc' = [pc EXCEPT ![r] = "minted"] /\ signedAt' = [signedAt EXCEPT ![r] = now]
        /\ pc[r] = "minting"
    BY DEF Mint
  <1>3. /\ result' \in [Requests -> {"none", "token", "refused", "error"}]
        /\ \A x \in Requests : x # r => result'[x] = result[x]
        /\ result'[r] = "token" => job[r].cred \in valid
    BY DEF Mint, ClockInv
  <1>4. \A h \in Hashes : Cached(h)' <=> Cached(h)
    BY <1>1 DEF Cached
  <1>5. \A x \in Requests : Minted(x)' =>
          \/ x # r /\ Minted(x) /\ signedAt'[x] = signedAt[x]
          \/ x = r /\ job[r].cred \in valid /\ signedAt'[r] = now
    BY <1>2, <1>3 DEF Minted, ClockInv
  <1>6. ClockInv'
    BY <1>1, <1>2, <1>3, <1>4 DEF ClockInv
  <1>7. SignedInv'
    BY <1>1, <1>2, <1>4, <1>5 DEF SignedInv, CacheSeconds, ClockInv, TokensAssumption
  <1>8. EndedInv'
    BY <1>1, <1>4, <1>5 DEF EndedInv
  <1> QED
    BY <1>6, <1>7, <1>8

LEMMA StoreStep ==
  ASSUME TokensAssumption, TokensInv, NEW r \in Requests, Store(r) \/ PassLimit(r)
  PROVE  TokensInv'
  <1> USE DEF TokensInv
  <1> DEFINE h == Hash(job[r].cred, job[r].gw, job[r].aud)
  <1>1. UNCHANGED <<now, changedAt, valid, ended>> /\ pc[r] # "idle"
    BY DEF Store, PassLimit, rowVars
  <1>2. /\ pc' = [pc EXCEPT ![r] = "idle"] /\ job' = [job EXCEPT ![r] = Nothing]
        /\ result' = [result EXCEPT ![r] = "none"] /\ signedAt' = [signedAt EXCEPT ![r] = 0]
        /\ late' = late \ {r}
    BY DEF Store, PassLimit, Done
  <1>3. h \in Hashes /\ h[1] = job[r].cred
    BY <1>1, HashNames DEF ClockInv
  <1>4. \A x \in Requests : Minted(x)' =>
          x # r /\ Minted(x) /\ signedAt'[x] = signedAt[x] /\ job'[x] = job[x]
    BY <1>2 DEF Minted, ClockInv
  <1>5. \/ UNCHANGED entry
        \/ /\ Minted(r)
           /\ entry' = [x \in Hashes |->
                IF x = h
                THEN [aud |-> job[r].aud, signedAt |-> signedAt[r],
                      until |-> now + CacheSeconds, late |-> r \in late]
                ELSE IF x \in Kept THEN entry[x] ELSE Nothing]
    <2>1. CASE PassLimit(r)
      BY <2>1 DEF PassLimit, cacheVars
    <2>2. CASE Store(r)
      BY <2>2 DEF Store, StoreToken, Minted
    <2> QED
      BY <2>1, <2>2
  <1>6. \A x \in Hashes : Cached(x)' =>
          \/ Cached(x) /\ entry'[x] = entry[x]
          \/ /\ x = h /\ Minted(r) /\ entry'[x].signedAt = signedAt[r]
             /\ entry'[x].until = now + CacheSeconds
             /\ entry'[x].late <=> r \in late
    <2> SUFFICES ASSUME NEW x \in Hashes, Cached(x)', ~(Cached(x) /\ entry'[x] = entry[x])
                 PROVE  /\ x = h /\ Minted(r) /\ entry'[x].signedAt = signedAt[r]
                        /\ entry'[x].until = now + CacheSeconds
                        /\ entry'[x].late <=> r \in late
      OBVIOUS
    <2>1. entry' # entry
      BY DEF Cached
    <2>2. /\ Minted(r)
          /\ entry'[x] = IF x = h
                         THEN [aud |-> job[r].aud, signedAt |-> signedAt[r],
                               until |-> now + CacheSeconds, late |-> r \in late]
                         ELSE IF x \in Kept THEN entry[x] ELSE Nothing
      BY <1>5, <2>1
    <2>3. x = h
      BY <2>2 DEF Cached
    <2>4. entry'[x] = [aud |-> job[r].aud, signedAt |-> signedAt[r],
                       until |-> now + CacheSeconds, late |-> r \in late]
      BY <2>2, <2>3
    <2>5. /\ entry'[x].signedAt = signedAt[r] /\ entry'[x].until = now + CacheSeconds
          /\ entry'[x].late = (r \in late)
      BY <2>4, Fields
    <2> QED
      BY <2>2, <2>3, <2>5
  <1>7. entry' \in [Hashes -> {entry'[x] : x \in Hashes}]
    BY <1>5 DEF ClockInv
  <1>8. ClockInv'
    <2>1. /\ pc' \in [Requests -> {"idle", "minting", "minted"}]
          /\ job' \in [Requests -> {job'[x] : x \in Requests}]
          /\ result' \in [Requests -> {"none", "token", "refused", "error"}]
          /\ signedAt' \in [Requests -> Nat]
      BY <1>2 DEF ClockInv
    <2>2. \A x \in Requests : pc'[x] # "idle" =>
            job'[x].cred \in Credentials /\ job'[x].gw \in Gateways
      BY <1>2 DEF ClockInv
    <2>3. \A x \in Hashes : Cached(x)' => entry'[x].signedAt \in Nat /\ entry'[x].until \in Int
      BY <1>6, CacheSecondsInt DEF ClockInv
    <2> QED
      BY <1>1, <1>7, <2>1, <2>2, <2>3 DEF ClockInv
  <1>9. SignedInv'
    BY <1>1, <1>2, <1>3, <1>4, <1>6, CacheSecondsInt DEF SignedInv, ClockInv, Minted, TokensAssumption
  <1>10. EndedInv'
    BY <1>1, <1>2, <1>3, <1>4, <1>6 DEF EndedInv
  <1> QED
    BY <1>8, <1>9, <1>10

\* A change of access is dated now, after every token there is.
LEMMA AccessStep ==
  ASSUME TokensAssumption, TokensInv, NEW c \in Credentials, NEW passes \in BOOLEAN, Pass(c, passes),
         UNCHANGED <<now, pc, job, result, signedAt, entry, late>>,
         ended' = ended \/ ended' = ended \ {c}, passes => ended' = ended \ {c}
  PROVE  TokensInv'
  <1> USE DEF TokensInv
  <1>1. \A h \in Hashes : Cached(h)' <=> Cached(h)
    BY DEF Cached
  <1>2. \A r \in Requests : Minted(r)' <=> Minted(r)
    BY DEF Minted
  <1>3. /\ changedAt' = [changedAt EXCEPT ![c] = now]
        /\ valid' = IF passes THEN valid \cup {c} ELSE valid \ {c}
    BY DEF Pass
  <1>4. ClockInv'
    BY <1>1, <1>3 DEF ClockInv
  <1>5. SignedInv'
    <2>1. \A h \in Hashes : h[1] \in Credentials
      BY DEF Hashes
    <2> QED
      BY <1>1, <1>2, <1>3, <2>1 DEF SignedInv, ClockInv, CacheSeconds, Minted
  <1>6. EndedInv'
    BY <1>1, <1>2, <1>3 DEF EndedInv, ClockInv
  <1> QED
    BY <1>4, <1>5, <1>6

LEMMA FollowStep ==
  ASSUME TokensAssumption, TokensInv, NEW w \in Writers, Follow(w)
  PROVE  TokensInv'
  <1>1. UNCHANGED <<now, pc, job, result, signedAt, changedAt, valid>>
    BY DEF Follow, requestVars
  <1>2. CASE UNCHANGED <<cacheVars, late, ended, quiet, replaced>>
    <2>1. UNCHANGED <<entry, late, ended>>
      BY <1>2 DEF cacheVars
    <2> QED
      BY <1>1, <2>1, Forgetting DEF TokensInv, ClockInv
  <1>3. CASE EmptyCaches
    <2>1. \A h \in Hashes : ~Cached(h)'
      BY <1>3 DEF EmptyCaches, ForgetTokens, Cached
    <2>2. \A r \in Requests : Minted(r)' => Minted(r) /\ r \in late'
      BY <1>1, <1>3 DEF EmptyCaches, Minted
    <2>3. ClockInv'
      BY <1>1, <1>3, <2>1 DEF TokensInv, ClockInv, EmptyCaches, ForgetTokens
    <2>4. SignedInv'
      BY <1>1, <2>1, <2>2 DEF TokensInv, SignedInv
    <2>5. EndedInv'
      BY <1>1, <1>3, <2>1, <2>2 DEF TokensInv, EndedInv, EmptyCaches
    <2> QED
      BY <2>3, <2>4, <2>5 DEF TokensInv
  <1> QED
    BY <1>2, <1>3 DEF Follow

LEMMA TickStep ==
  ASSUME TokensAssumption, TokensInv, Tick
  PROVE  TokensInv'
  <1> USE DEF TokensInv
  <1>1. UNCHANGED <<pc, job, result, signedAt, changedAt, valid, entry, ended, late>>
    BY DEF Tick, rowVars, cacheVars, requestVars, historyVars
  <1>2. now' = now + 1 /\ \A r \in Requests : pc[r] = "minted" => now < signedAt[r] + MaxStall
    BY DEF Tick
  <1>3. \A h \in Hashes : Cached(h)' <=> Cached(h)
    BY <1>1 DEF Cached
  <1>4. \A r \in Requests : Minted(r)' <=> Minted(r)
    BY <1>1 DEF Minted
  <1>5. ClockInv'
    BY <1>1, <1>2, <1>3 DEF ClockInv
  <1>6. SignedInv'
    BY <1>1, <1>2, <1>3, <1>4 DEF SignedInv, ClockInv, CacheSeconds, TokensAssumption
  <1>7. EndedInv'
    BY <1>1, <1>3, <1>4 DEF EndedInv
  <1> QED
    BY <1>5, <1>6, <1>7

LEMMA InvStep == ASSUME TokensAssumption, TokensInv, [Next]_vars PROVE TokensInv'
  <1>1. ASSUME NEW r \in Requests, NEW c \in Credentials, NEW g \in Gateways, Exchange(r, c, g)
        PROVE  TokensInv'
    BY <1>1, ExchangeStep
  <1>2. ASSUME NEW r \in Requests, Mint(r) \/ PassLimit(r) \/ Store(r) PROVE TokensInv'
    BY <1>2, MintStep, StoreStep
  <1>3. ASSUME NEW w \in Writers, NEW c \in Credentials, End(w, c) PROVE TokensInv'
    BY <1>3, AccessStep DEF End, cacheVars, requestVars
  <1>4. ASSUME NEW w \in Writers, NEW k \in Keys, Restore(w, k) PROVE TokensInv'
    BY <1>4, AccessStep DEF Restore, cacheVars, requestVars, Credentials
  <1>5. ASSUME NEW s \in Sessions, EndQuietly(s) PROVE TokensInv'
    BY <1>5, AccessStep DEF EndQuietly, cacheVars, requestVars, Credentials
  <1>6. ASSUME NEW c \in Credentials, EndElsewhere(c) PROVE TokensInv'
    BY <1>6, AccessStep DEF EndElsewhere, cacheVars, requestVars
  <1>7. ASSUME NEW w \in Writers, NEW g \in Gateways, DeleteGateway(w, g) PROVE TokensInv'
    BY <1>7, Forgetting DEF DeleteGateway, cacheVars, requestVars, TokensInv, ClockInv
  <1>8. ASSUME NEW w \in Writers, NEW g \in Gateways, NEW aud \in Audiences \cup {Default},
               EditGateway(w, g, aud) \/ CreateGateway(w, g, aud)
        PROVE  TokensInv'
    BY <1>8, Forgetting DEF EditGateway, CreateGateway, cacheVars, requestVars, historyVars, TokensInv, ClockInv
  <1>9. ASSUME NEW w \in Writers, Follow(w) PROVE TokensInv'
    BY <1>9, FollowStep
  <1>10. CASE Tick
    BY <1>10, TickStep
  <1>11. CASE UNCHANGED vars
    BY <1>11, Forgetting DEF vars, rowVars, cacheVars, requestVars, historyVars, TokensInv, ClockInv
  <1> QED
    BY <1>1, <1>2, <1>3, <1>4, <1>5, <1>6, <1>7, <1>8, <1>9, <1>10, <1>11 DEF Next

LEMMA InvHolds == ASSUME TokensAssumption PROVE Spec => []TokensInv
  <1>1. Init => TokensInv
    BY InvInit
  <1>2. TokensInv /\ [Next]_vars => TokensInv'
    BY InvStep
  <1> QED
    BY <1>1, <1>2, PTL DEF Spec

-----------------------------------------------------------------------------
\* By whatever route a credential ends, its tokens are served no longer than the
\* cache's lifetime and the stall of a mint (proxy.ts 42-45).
THEOREM RevocationReaches ==
  ASSUME TokensAssumption
  PROVE  Spec => []RevocationReachesEveryGateway
  <1>1. TokensInv => RevocationReachesEveryGateway
    <2> SUFFICES ASSUME TokensInv, NEW h \in Hashes, Usable(h), h[1] \notin valid
                 PROVE  now < changedAt[h[1]] + MaxStall + CacheSeconds
      BY DEF RevocationReachesEveryGateway
    <2>1. h[1] \in Credentials
      BY DEF Hashes
    <2>2. now < entry[h].until /\ Cached(h)
      BY DEF Usable
    <2> QED
      BY <2>1, <2>2, CacheSecondsInt DEF TokensInv, ClockInv, SignedInv, TokensAssumption
  <1> QED
    BY <1>1, InvHolds, PTL

\* A served token has the margin left, less the time its mint took (proxy.ts
\* 37-38).
THEOREM NeverNearExpiry ==
  ASSUME TokensAssumption
  PROVE  Spec => []NeverServedNearItsExpiry
  <1>1. TokensInv => NeverServedNearItsExpiry
    <2> SUFFICES ASSUME TokensInv, NEW h \in Hashes, Usable(h)
                 PROVE  entry[h].signedAt + Life > now + Margin - MaxStall
      BY DEF NeverServedNearItsExpiry
    <2>1. now < entry[h].until /\ Cached(h)
      BY DEF Usable
    <2> QED
      BY <2>1, CacheSecondsInt DEF TokensInv, ClockInv, SignedInv, TokensAssumption
  <1> QED
    BY <1>1, InvHolds, PTL

\* After a reset only an exchange that was running across it can serve what had
\* ended (proxy.ts 38-42).
THEOREM OnlyRunningExchanges ==
  ASSUME TokensAssumption
  PROVE  Spec => []OnlyARunningExchangeOutlivesTheReset
  <1>1. TokensInv => OnlyARunningExchangeOutlivesTheReset
    BY DEF TokensInv, EndedInv, OnlyARunningExchangeOutlivesTheReset, Usable
  <1> QED
    BY <1>1, InvHolds, PTL

-----------------------------------------------------------------------------
(* The order of insertion, and what a full cache keeps.                    *)

\* What is left of an ordered set is ordered by what is left of its order.
LEMMA FewerAreOrdered ==
  ASSUME NEW order, NEW S, Orders(order, S), NEW T \in SUBSET S
  PROVE  Orders({p \in order : p[1] \in T /\ p[2] \in T}, T)
  <1> DEFINE R == {p \in order : p[1] \in T /\ p[2] \in T}
  <1>1. \A x, y \in T : <<x, y>> \in R <=> <<x, y>> \in order
    OBVIOUS
  <1>2. R \subseteq T \X T
    BY DEF Orders
  <1> HIDE DEF R
  <1>3. Orders(R, T)
    BY <1>1, <1>2 DEF Orders
  <1> QED
    BY <1>3 DEF R

\* A new element comes after all the others.
LEMMA OneMoreIsOrdered ==
  ASSUME NEW order, NEW S, Orders(order, S), NEW h, h \notin S
  PROVE  Orders(order \cup (S \X {h}), S \cup {h})
  <1> DEFINE R == order \cup (S \X {h})
  <1>1. \A x, y \in S : <<x, y>> \in R <=> <<x, y>> \in order
    OBVIOUS
  <1>2. \A x \in S : <<x, h>> \in R /\ <<h, x>> \notin R
    BY DEF Orders
  <1>3. <<h, h>> \notin R /\ R \subseteq (S \cup {h}) \X (S \cup {h})
    BY DEF Orders
  <1> HIDE DEF R
  <1>4. Orders(R, S \cup {h})
    <2>1. \A x \in S \cup {h} : <<x, x>> \notin R
      BY <1>1, <1>3 DEF Orders
    <2>2. \A x, y \in S \cup {h} : x # y => <<x, y>> \in R \/ <<y, x>> \in R
      BY <1>1, <1>2 DEF Orders
    <2>3. \A x, y, z \in S \cup {h} : <<x, y>> \in R /\ <<y, z>> \in R => <<x, z>> \in R
      BY <1>1, <1>2, <1>3 DEF Orders
    <2> QED
      BY <1>3, <2>1, <2>2, <2>3 DEF Orders
  <1> QED
    BY <1>4 DEF R

\* A finite ordered set that is not empty has a first element.
LEMMA First ==
  ASSUME NEW order, NEW S, Orders(order, S), IsFiniteSet(S), S # {}
  PROVE  \E m \in S : \A x \in S \ {m} : <<m, x>> \in order
  <1> DEFINE Before(x) == {y \in S : <<y, x>> \in order}
             Befores == {Before(x) : x \in S}
  <1>1. IsWellFoundedOn(StrictSubsetOrdering(S), FiniteSubsetsOf(S))
    BY FS_StrictSubsetOrderingWellFounded
  <1>2. Befores \subseteq FiniteSubsetsOf(S) /\ Befores # {}
    <2>1. FiniteSubsetsOf(S) = SUBSET S
      BY FS_FiniteSubsetsOfFinite
    <2>2. Befores \subseteq SUBSET S /\ Befores # {}
      OBVIOUS
    <2> QED
      BY <2>1, <2>2
  <1>3. PICK B \in Befores : \A C \in Befores : <<C, B>> \notin StrictSubsetOrdering(S)
    <2> HIDE DEF Befores
    <2> QED
      BY <1>1, <1>2, WFMin
  <1>4. PICK m \in S : B = Before(m)
    OBVIOUS
  <1>5. ASSUME NEW y \in Before(m) PROVE FALSE
    <2>1. y \in S /\ <<y, m>> \in order
      OBVIOUS
    <2>2. Before(y) \subseteq Before(m) /\ y \notin Before(y)
      BY <2>1 DEF Orders
    <2>3. <<Before(y), Before(m)>> \in StrictSubsetOrdering(S)
      BY <2>2 DEF StrictSubsetOrdering
    <2> QED
      BY <1>3, <1>4, <2>1, <2>3
  <1>6. \A x \in S \ {m} : <<m, x>> \in order
    BY <1>5 DEF Orders
  <1> QED
    BY <1>6

\* A full cache keeps one entry less than it may hold: its first entry has all
\* the others after it, and it is kept only if they are few enough.
LEMMA FullKeepsFewer ==
  ASSUME TokensAssumption, Orders(older, Held), IsFiniteSet(Held), Full
  PROVE  Cardinality(Kept) <= MaxEntries - 1
  <1>1. Kept = {h \in Live : Cardinality(NewerLive(h)) < MaxEntries - 1} /\ Live \subseteq Held
    BY DEF Kept, Live
  <1>2. IsFiniteSet(Kept) /\ IsFiniteSet(Live)
    BY <1>1, FS_Subset
  <1>3. CASE Kept = {}
    BY <1>3, FS_EmptySet DEF TokensAssumption
  <1>4. CASE Kept # {}
    <2>1. Orders({p \in older : p[1] \in Kept /\ p[2] \in Kept}, Kept)
      BY <1>1, FewerAreOrdered
    <2>2. PICK m \in Kept : \A x \in Kept \ {m} : <<m, x>> \in older
      BY <1>2, <1>4, <2>1, First
    <2>3. Kept \ {m} \subseteq NewerLive(m) /\ NewerLive(m) \subseteq Live
      BY <1>1, <2>2 DEF NewerLive
    <2>4. IsFiniteSet(NewerLive(m)) /\ Cardinality(NewerLive(m)) \in Nat
      BY <1>2, <2>3, FS_Subset, FS_CardinalityType
    <2>5. Cardinality(Kept \ {m}) <= Cardinality(NewerLive(m))
      BY <2>3, <2>4, FS_Subset
    <2>6. Cardinality(NewerLive(m)) < MaxEntries - 1
      BY <1>1, <2>2
    <2>7. Cardinality(Kept \ {m}) = Cardinality(Kept) - 1 /\ Cardinality(Kept) \in Nat
      BY <1>2, FS_RemoveElement, FS_CardinalityType
    <2> QED
      BY <2>4, <2>5, <2>6, <2>7 DEF TokensAssumption
  <1> QED
    BY <1>3, <1>4

-----------------------------------------------------------------------------
(* Types, the order of the cache and its bound.                            *)

RowsOK ==
    /\ valid \in SUBSET Credentials
    /\ audience \in [Gateways -> Audiences \cup {Default, Nothing}]
    /\ known \in [Gateways -> Audiences \cup {Default, Nothing}]
    /\ writing \in [Writers -> Writings \cup {Nothing}]
    /\ changedAt \in [Credentials -> 0..MaxTime]
    /\ ended \in SUBSET Credentials /\ quiet \in SUBSET Sessions /\ replaced \in SUBSET Gateways

CachesOK ==
    /\ entry \in [Hashes -> Entries \cup {Nothing}]
    /\ Orders(older, Held) /\ IsFiniteSet(Held) /\ CacheBounded
    /\ negative \in [Hashes -> Verdicts \cup {Nothing}]

RequestsOK ==
    /\ pc \in [Requests -> {"idle", "minting", "minted"}]
    /\ job \in [Requests -> Jobs \cup {Nothing}]
    /\ result \in [Requests -> {"none", "token", "refused", "error"}]
    /\ \A r \in Requests : (job[r] = Nothing <=> pc[r] = "idle") /\ (result[r] # "none" <=> pc[r] = "minted")
    /\ signedAt \in [Requests -> 0..MaxTime]
    /\ late \in SUBSET Requests

TypesInv == now \in 0..MaxTime /\ RowsOK /\ CachesOK /\ RequestsOK

\* No entry, verdict, job or write to follow up is Nothing.
LEMMA Somethings ==
  ASSUME TokensAssumption
  PROVE  /\ Nothing \notin Entries /\ Nothing \notin Verdicts /\ Nothing \notin Jobs
         /\ Nothing \notin Writings
  BY DEF TokensAssumption

LEMMA TypesGiveTypeOK == TypesInv => TypeOK
  BY DEF TypesInv, RowsOK, CachesOK, RequestsOK, TypeOK

LEMMA TypesInit == ASSUME TokensAssumption PROVE Init => TypesInv
  <1> SUFFICES ASSUME Init PROVE TypesInv
    OBVIOUS
  <1>1. Held = {}
    BY DEF Init, Held, Cached
  <1>2. CachesOK
    BY <1>1, FS_EmptySet DEF Init, CachesOK, Orders, CacheBounded, TokensAssumption
  <1>3. RowsOK
    BY DEF Init, RowsOK, TokensAssumption
  <1>4. RequestsOK
    BY DEF Init, RequestsOK, TokensAssumption
  <1> QED
    BY <1>2, <1>3, <1>4 DEF Init, TypesInv, TokensAssumption

LEMMA HeldFrame == ASSUME UNCHANGED entry PROVE Held' = Held
  BY DEF Held, Cached

LEMMA CachesFrame == ASSUME CachesOK, UNCHANGED <<entry, older>>,
                            negative' \in [Hashes -> Verdicts \cup {Nothing}]
                     PROVE  CachesOK'
  BY HeldFrame DEF CachesOK, CacheBounded

LEMMA ForgetKeepsCaches ==
  ASSUME TokensAssumption, CachesOK, NEW h \in Hashes, Forget(h)
  PROVE  CachesOK'
  <1>1. /\ entry' = [entry EXCEPT ![h] = Nothing] /\ older' = Without(h)
        /\ negative' = IF Refused(h) THEN negative ELSE [negative EXCEPT ![h] = Nothing]
    BY DEF Forget
  <1>2. Held' = Held \ {h}
    BY <1>1 DEF Held, Cached, CachesOK
  <1>3. older' = {p \in older : p[1] \in Held' /\ p[2] \in Held'}
    BY <1>1, <1>2 DEF Without, CachesOK, Orders
  <1>4. Orders(older', Held')
    BY <1>2, <1>3, FewerAreOrdered DEF CachesOK
  <1>5. IsFiniteSet(Held') /\ CacheBounded'
    <2>1. IsFiniteSet(Held) /\ Cardinality(Held) <= MaxEntries
      BY DEF CachesOK, CacheBounded
    <2>2. IsFiniteSet(Held \ {h}) /\ Cardinality(Held \ {h}) <= Cardinality(Held)
      BY <2>1, FS_Subset
    <2>3. Cardinality(Held) \in Nat /\ Cardinality(Held \ {h}) \in Nat
      BY <2>1, <2>2, FS_CardinalityType
    <2>4. Cardinality(Held \ {h}) <= MaxEntries
      BY <2>1, <2>2, <2>3 DEF TokensAssumption
    <2> QED
      BY <1>2, <2>2, <2>4 DEF CacheBounded
  <1> QED
    BY <1>1, <1>4, <1>5 DEF CachesOK

LEMMA EmptyKeepsCaches ==
  ASSUME TokensAssumption, ForgetTokens, negative' = [h \in Hashes |-> Nothing]
  PROVE  CachesOK'
  <1>1. Held' = {}
    BY DEF ForgetTokens, Held, Cached
  <1> QED
    BY <1>1, FS_EmptySet DEF ForgetTokens, CachesOK, Orders, CacheBounded, TokensAssumption

\* What the cache keeps when one more is stored leaves room for it.
LEMMA KeptFits ==
  ASSUME TokensAssumption, CachesOK
  PROVE  /\ Kept \subseteq Held /\ IsFiniteSet(Kept) /\ Orders({p \in older : p[1] \in Kept /\ p[2] \in Kept}, Kept)
         /\ \A h : Cardinality(Kept \cup {h}) <= MaxEntries /\ IsFiniteSet(Kept \cup {h})
  <1>1. Kept \subseteq Held
    BY DEF Kept, Live
  <1>2. IsFiniteSet(Kept) /\ Cardinality(Kept) \in Nat
    BY <1>1, FS_Subset, FS_CardinalityType DEF CachesOK
  <1>3. Cardinality(Kept) <= MaxEntries - 1
    <2>1. CASE Full
      BY <2>1, FullKeepsFewer DEF CachesOK
    <2>2. CASE ~Full
      BY <2>2, FS_CardinalityType DEF Full, Kept, CachesOK, TokensAssumption
    <2> QED
      BY <2>1, <2>2
  <1>4. \A h : Cardinality(Kept \cup {h}) <= MaxEntries /\ IsFiniteSet(Kept \cup {h})
    <2> TAKE h
    <2>1. /\ IsFiniteSet(Kept \cup {h})
          /\ Cardinality(Kept \cup {h}) = IF h \in Kept THEN Cardinality(Kept) ELSE Cardinality(Kept) + 1
      BY <1>2, FS_AddElement
    <2> QED
      BY <1>2, <1>3, <2>1 DEF TokensAssumption
  <1> QED
    BY <1>1, <1>2, <1>4, FewerAreOrdered DEF CachesOK

LEMMA EntryTyped ==
  ASSUME NEW a \in Audiences \cup {Default}, NEW s \in Nat, NEW u \in Nat, NEW l \in BOOLEAN
  PROVE  [aud |-> a, signedAt |-> s, until |-> u, late |-> l] \in Entries
  BY DEF Entries

LEMMA StoreTokenKeepsCaches ==
  ASSUME TokensAssumption, CachesOK, now \in Nat, NEW r \in Requests, NEW h \in Hashes,
         job[r].aud \in Audiences \cup {Default}, signedAt[r] \in Nat,
         StoreToken(r, h), UNCHANGED negative
  PROVE  CachesOK'
  <1>1. CASE CacheSeconds <= 0
    BY <1>1, CachesFrame DEF StoreToken, CachesOK
  <1>2. CASE ~(CacheSeconds <= 0)
    <2> DEFINE e == [aud |-> job[r].aud, signedAt |-> signedAt[r],
                     until |-> now + CacheSeconds, late |-> r \in late]
    <2>1. /\ older' = Added(h)
          /\ entry' = [x \in Hashes |-> IF x = h THEN e ELSE IF x \in Kept THEN entry[x] ELSE Nothing]
      BY <1>2 DEF StoreToken
    <2>2. now + CacheSeconds \in Nat
      BY <1>2, CacheSecondsInt
    <2>3. (r \in late) \in BOOLEAN
      OBVIOUS
    <2>4. e \in Entries /\ e # Nothing
      <3>1. e \in Entries
        BY <2>2, <2>3, EntryTyped, Zenon
      <3> QED
        BY <3>1, Somethings, Zenon
    <2> HIDE DEF e
    <2>5. Kept \subseteq Held /\ Held \subseteq Hashes
      BY KeptFits DEF Held
    <2>6. Held' = Kept \cup {h}
      BY <2>1, <2>4, <2>5 DEF Held, Cached
    <2>7. Orders(older', Held')
      <3>1. CASE h \in Kept
        BY <2>1, <2>6, <3>1, KeptFits DEF Added
      <3>2. CASE h \notin Kept
        BY <2>1, <2>6, <3>2, KeptFits, OneMoreIsOrdered DEF Added
      <3> QED
        BY <3>1, <3>2
    <2>8. IsFiniteSet(Held') /\ CacheBounded'
      BY <2>6, KeptFits DEF CacheBounded
    <2>9. entry' \in [Hashes -> Entries \cup {Nothing}]
      BY <2>1, <2>4 DEF CachesOK
    <2> QED
      BY <2>7, <2>8, <2>9 DEF CachesOK
  <1> QED
    BY <1>1, <1>2

LEMMA RowsFrame ==
  ASSUME RowsOK, UNCHANGED <<rowVars, changedAt, ended, quiet, replaced>>
  PROVE  RowsOK'
  BY DEF RowsOK, rowVars

LEMMA RequestsFrame ==
  ASSUME RequestsOK, UNCHANGED requestVars, late' \in SUBSET Requests
  PROVE  RequestsOK'
  BY DEF RequestsOK, requestVars

LEMMA DoneKeepsRequests ==
  ASSUME TokensAssumption, RequestsOK, NEW r \in Requests, Done(r)
  PROVE  RequestsOK'
  BY DEF RequestsOK, Done, TokensAssumption

\* The job of a running exchange, and the key its answer goes under.
LEMMA RunningJob ==
  ASSUME RequestsOK, NEW r \in Requests, pc[r] # "idle"
  PROVE  /\ job[r].cred \in Credentials /\ job[r].gw \in Gateways /\ job[r].aud \in Audiences \cup {Default}
         /\ Hash(job[r].cred, job[r].gw, job[r].aud) \in Hashes
  <1>1. job[r] \in Jobs
    BY DEF RequestsOK
  <1> QED
    BY <1>1 DEF Jobs, Hash, Hashes

LEMMA ExchangeTypes ==
  ASSUME TokensAssumption, TypesInv,
         NEW r \in Requests, NEW c \in Credentials, NEW g \in Gateways, Exchange(r, c, g)
  PROVE  TypesInv'
  <1>1. PICK aud \in {audience[g], known[g]} \ {Nothing} :
          /\ Forget(Hash(c, g, aud))
          /\ \/ UNCHANGED <<pc, job>>
             \/ /\ pc' = [pc EXCEPT ![r] = "minting"]
                /\ job' = [job EXCEPT ![r] = [cred |-> c, gw |-> g, aud |-> aud]]
    BY DEF Exchange
  <1>2. UNCHANGED <<now, rowVars, result, signedAt, budget, historyVars>> /\ pc[r] = "idle"
    BY DEF Exchange
  <1>3. aud \in Audiences \cup {Default}
    BY <1>1 DEF TypesInv, RowsOK
  <1>4. CachesOK'
    BY <1>1, HashNames, ForgetKeepsCaches DEF TypesInv
  <1>5. RequestsOK'
    <2>1. [cred |-> c, gw |-> g, aud |-> aud] \in Jobs /\ [cred |-> c, gw |-> g, aud |-> aud] # Nothing
      BY <1>3, Somethings DEF Jobs
    <2>2. UNCHANGED <<result, signedAt, late>>
      BY <1>2 DEF historyVars
    <2>3. CASE UNCHANGED <<pc, job>>
      BY <2>2, <2>3 DEF TypesInv, RequestsOK
    <2>4. CASE /\ pc' = [pc EXCEPT ![r] = "minting"]
               /\ job' = [job EXCEPT ![r] = [cred |-> c, gw |-> g, aud |-> aud]]
      BY <1>2, <2>1, <2>2, <2>4 DEF TypesInv, RequestsOK
    <2> QED
      BY <1>1, <2>3, <2>4
  <1>6. RowsOK'
    BY <1>2, RowsFrame DEF TypesInv, historyVars
  <1> QED
    BY <1>2, <1>4, <1>5, <1>6 DEF TypesInv

LEMMA MintTypes ==
  ASSUME TokensAssumption, TypesInv, NEW r \in Requests, Mint(r)
  PROVE  TypesInv'
  <1>1. UNCHANGED <<now, rowVars, cacheVars, job, historyVars>>
    BY DEF Mint
  <1>2. CachesOK'
    BY <1>1, CachesFrame DEF TypesInv, CachesOK, cacheVars
  <1>3. RowsOK'
    BY <1>1, RowsFrame DEF TypesInv, historyVars
  <1>4. RequestsOK'
    BY <1>1 DEF TypesInv, RequestsOK, Mint, historyVars
  <1> QED
    BY <1>1, <1>2, <1>3, <1>4 DEF TypesInv

LEMMA StoreTypes ==
  ASSUME TokensAssumption, TypesInv, NEW r \in Requests, Store(r) \/ PassLimit(r)
  PROVE  TypesInv'
  <1>1. Done(r) /\ UNCHANGED <<now, rowVars, changedAt, ended, quiet, replaced>> /\ pc[r] # "idle"
    BY DEF Store, PassLimit
  <1>2. RequestsOK' /\ RowsOK'
    BY <1>1, DoneKeepsRequests, RowsFrame DEF TypesInv
  <1>3. CachesOK'
    <2>1. CASE PassLimit(r)
      BY <2>1, CachesFrame DEF TypesInv, CachesOK, cacheVars, PassLimit
    <2>2. CASE Store(r)
      <3> DEFINE h == Hash(job[r].cred, job[r].gw, job[r].aud)
      <3>1. h \in Hashes /\ job[r].aud \in Audiences \cup {Default}
        BY <1>1, RunningJob DEF TypesInv
      <3>2. now \in Nat /\ signedAt[r] \in Nat
        BY DEF TypesInv, RequestsOK, TokensAssumption
      <3>3. \/ StoreToken(r, h) /\ UNCHANGED negative
            \/ negative' = [negative EXCEPT ![h] = Verdict(r)] /\ UNCHANGED <<entry, older>>
        BY <2>2 DEF Store
      <3>4. Verdict(r) \in Verdicts
        <4>1. (result[r] = "error") \in BOOLEAN /\ now + NegativeTTL \in Nat
          BY <3>2 DEF TokensAssumption
        <4> QED
          BY <4>1 DEF Verdict, Verdicts
      <3> HIDE DEF h
      <3>5. CASE StoreToken(r, h) /\ UNCHANGED negative
        BY <3>1, <3>2, <3>5, StoreTokenKeepsCaches DEF TypesInv
      <3>6. CASE negative' = [negative EXCEPT ![h] = Verdict(r)] /\ UNCHANGED <<entry, older>>
        BY <3>4, <3>6, CachesFrame DEF TypesInv, CachesOK
      <3> QED
        BY <3>3, <3>5, <3>6
    <2> QED
      BY <2>1, <2>2
  <1> QED
    BY <1>1, <1>2, <1>3 DEF TypesInv

\* A write leaves the caches and the exchanges as they are.
LEMMA WriteTypes ==
  ASSUME TokensAssumption, TypesInv, UNCHANGED <<now, cacheVars, requestVars, late>>, RowsOK'
  PROVE  TypesInv'
  <1>1. CachesOK'
    BY CachesFrame DEF TypesInv, CachesOK, cacheVars
  <1>2. RequestsOK'
    BY RequestsFrame DEF TypesInv, RequestsOK
  <1> QED
    BY <1>1, <1>2 DEF TypesInv

LEMMA FollowTypes ==
  ASSUME TokensAssumption, TypesInv, NEW w \in Writers, Follow(w)
  PROVE  TypesInv'
  <1>1. /\ writing' = [writing EXCEPT ![w] = Nothing]
        /\ known' = IF writing[w][1] = "access" THEN known ELSE audience
        /\ UNCHANGED <<now, valid, audience, requestVars, changedAt>>
        /\ EmptyCaches \/ UNCHANGED <<cacheVars, late, ended, quiet, replaced>>
    BY DEF Follow
  <1>2. /\ ended' \in SUBSET Credentials /\ quiet' \in SUBSET Sessions
        /\ replaced' \in SUBSET Gateways /\ late' \in SUBSET Requests
    BY <1>1 DEF EmptyCaches, TypesInv, RowsOK, RequestsOK
  <1>3. RowsOK'
    BY <1>1, <1>2 DEF TypesInv, RowsOK
  <1>4. RequestsOK'
    BY <1>1, <1>2, RequestsFrame DEF TypesInv
  <1>5. CachesOK'
    <2>1. CASE EmptyCaches
      BY <2>1, EmptyKeepsCaches DEF EmptyCaches
    <2>2. CASE UNCHANGED <<cacheVars, late, ended, quiet, replaced>>
      BY <2>2, CachesFrame DEF TypesInv, CachesOK, cacheVars
    <2> QED
      BY <1>1, <2>1, <2>2
  <1> QED
    BY <1>1, <1>3, <1>4, <1>5 DEF TypesInv

LEMMA TypesStep == ASSUME TokensAssumption, TypesInv, [Next]_vars PROVE TypesInv'
  <1>1. ASSUME NEW r \in Requests, NEW c \in Credentials, NEW g \in Gateways, Exchange(r, c, g)
        PROVE  TypesInv'
    BY <1>1, ExchangeTypes
  <1>2. ASSUME NEW r \in Requests, Mint(r) \/ PassLimit(r) \/ Store(r) PROVE TypesInv'
    BY <1>2, MintTypes, StoreTypes
  <1>3. ASSUME NEW w \in Writers, NEW c \in Credentials, End(w, c) PROVE TypesInv'
    <2>1. RowsOK'
      BY <1>3 DEF End, Pass, Writes, TypesInv, RowsOK, Writings
    <2> QED
      BY <1>3, <2>1, WriteTypes DEF End
  <1>4. ASSUME NEW w \in Writers, NEW k \in Keys, Restore(w, k) PROVE TypesInv'
    <2>1. RowsOK'
      BY <1>4 DEF Restore, Pass, Writes, TypesInv, RowsOK, Writings, Credentials
    <2> QED
      BY <1>4, <2>1, WriteTypes DEF Restore
  <1>5. ASSUME NEW s \in Sessions, EndQuietly(s) PROVE TypesInv'
    <2>1. RowsOK'
      BY <1>5 DEF EndQuietly, Pass, TypesInv, RowsOK, Credentials
    <2> QED
      BY <1>5, <2>1, WriteTypes DEF EndQuietly
  <1>6. ASSUME NEW c \in Credentials, EndElsewhere(c) PROVE TypesInv'
    <2>1. RowsOK'
      BY <1>6 DEF EndElsewhere, Pass, TypesInv, RowsOK
    <2> QED
      BY <1>6, <2>1, WriteTypes DEF EndElsewhere
  <1>7. ASSUME NEW w \in Writers, NEW g \in Gateways, DeleteGateway(w, g) PROVE TypesInv'
    <2>1. RowsOK'
      BY <1>7 DEF DeleteGateway, Writes, TypesInv, RowsOK, Writings
    <2> QED
      BY <1>7, <2>1, WriteTypes DEF DeleteGateway
  <1>8. ASSUME NEW w \in Writers, NEW g \in Gateways, NEW aud \in Audiences \cup {Default},
               EditGateway(w, g, aud) \/ CreateGateway(w, g, aud)
        PROVE  TypesInv'
    <2>1. RowsOK'
      BY <1>8 DEF EditGateway, CreateGateway, Writes, TypesInv, RowsOK, Writings, historyVars
    <2> QED
      BY <1>8, <2>1, WriteTypes DEF EditGateway, CreateGateway, historyVars
  <1>9. ASSUME NEW w \in Writers, Follow(w) PROVE TypesInv'
    BY <1>9, FollowTypes
  <1>10. CASE Tick
    <2>1. UNCHANGED <<rowVars, cacheVars, requestVars, historyVars>> /\ now' \in 0..MaxTime
      BY <1>10 DEF Tick, TypesInv, TokensAssumption
    <2>2. RowsOK' /\ RequestsOK'
      BY <2>1, RowsFrame, RequestsFrame DEF TypesInv, RequestsOK, historyVars
    <2>3. CachesOK'
      BY <2>1, CachesFrame DEF TypesInv, CachesOK, cacheVars
    <2> QED
      BY <2>1, <2>2, <2>3 DEF TypesInv
  <1>11. CASE UNCHANGED vars
    <2>1. RowsOK'
      BY <1>11, RowsFrame DEF TypesInv, vars, historyVars
    <2> QED
      BY <1>11, <2>1, WriteTypes DEF vars, historyVars
  <1> QED
    BY <1>1, <1>2, <1>3, <1>4, <1>5, <1>6, <1>7, <1>8, <1>9, <1>10, <1>11 DEF Next

LEMMA TypesHold == ASSUME TokensAssumption PROVE Spec => []TypesInv
  <1>1. Init => TypesInv
    BY TypesInit
  <1>2. TypesInv /\ [Next]_vars => TypesInv'
    BY TypesStep
  <1> QED
    BY <1>1, <1>2, PTL DEF Spec

-----------------------------------------------------------------------------
(* The audience of what is cached.                                         *)

\* An edit of g is not followed up yet, or g was deleted since the last reset.
Changing(g) == g \in replaced \/ \E w \in Writers : writing[w] = <<"edit", g>>

\* What the registry serves differs from the row, and what was exchanged or
\* cached differs from the row, only while the gateway is changing: a reset ends
\* that, and overlaps whatever is running.
AudienceInv ==
    /\ \A g \in Gateways : audience[g] = Nothing => g \in replaced
    /\ \A g \in Gateways : ~Changing(g) => known[g] = audience[g]
    /\ \A r \in Requests : pc[r] # "idle" /\ r \notin late /\ ~Changing(job[r].gw) =>
         audience[job[r].gw] = job[r].aud
    /\ \A h \in Hashes : Cached(h) /\ ~entry[h].late =>
         IF h[2] = Default THEN entry[h].aud = Default
         ELSE ~Changing(h[2]) => audience[h[2]] = entry[h].aud

LEMMA AudienceInit == ASSUME TokensAssumption PROVE Init => AudienceInv
  <1> SUFFICES ASSUME Init PROVE AudienceInv
    OBVIOUS
  <1>1. \A h \in Hashes : ~Cached(h)
    BY DEF Init, Cached
  <1>2. \A g \in Gateways : audience[g] # Nothing /\ known[g] = audience[g]
    BY DEF Init, TokensAssumption
  <1> QED
    BY <1>1, <1>2 DEF Init, AudienceInv

\* A step that starts no exchange, stores no entry and makes a gateway settle on
\* nothing but its row keeps it.
LEMMA AudienceFrame ==
  ASSUME TypesInv, AudienceInv,
         \A g \in Gateways : Changing(g) => Changing(g)',
         \A g \in Gateways : audience'[g] = audience[g] \/ Changing(g)',
         \A g \in Gateways : known'[g] \in {known[g], audience[g]} \/ Changing(g)',
         \A g \in Gateways : audience'[g] = Nothing => g \in replaced',
         \A r \in Requests : pc'[r] # "idle" /\ r \notin late' =>
            pc[r] # "idle" /\ r \notin late /\ job'[r] = job[r],
         \A h \in Hashes : entry'[h] = entry[h] \/ entry'[h] = Nothing
  PROVE  AudienceInv'
  <1>1. \A g \in Gateways : ~Changing(g)' => known'[g] = audience'[g]
    BY DEF AudienceInv
  <1>2. \A r \in Requests : pc'[r] # "idle" /\ r \notin late' /\ ~Changing(job[r].gw)' =>
          audience'[job'[r].gw] = job'[r].aud
    <2> TAKE r \in Requests
    <2> HAVE pc'[r] # "idle" /\ r \notin late' /\ ~Changing(job[r].gw)'
    <2>1. pc[r] # "idle" /\ r \notin late /\ job'[r] = job[r]
      OBVIOUS
    <2>2. job[r].gw \in Gateways
      BY <2>1, RunningJob DEF TypesInv
    <2> QED
      BY <2>1, <2>2 DEF AudienceInv
  <1>3. \A h \in Hashes : Cached(h)' /\ ~entry'[h].late =>
          IF h[2] = Default THEN entry'[h].aud = Default
          ELSE ~Changing(h[2])' => audience'[h[2]] = entry'[h].aud
    <2> TAKE h \in Hashes
    <2> HAVE Cached(h)' /\ ~entry'[h].late
    <2>1. Cached(h) /\ ~entry[h].late /\ entry'[h] = entry[h]
      BY DEF Cached
    <2>2. h[2] # Default => h[2] \in Gateways
      BY DEF Hashes
    <2> QED
      BY <2>1, <2>2 DEF AudienceInv
  <1> QED
    BY <1>1, <1>2, <1>3 DEF AudienceInv

LEMMA AudienceExchange ==
  ASSUME TokensAssumption, TypesInv, AudienceInv,
         NEW r \in Requests, NEW c \in Credentials, NEW g \in Gateways, Exchange(r, c, g)
  PROVE  AudienceInv'
  <1>1. PICK aud \in {audience[g], known[g]} \ {Nothing} :
          /\ Forget(Hash(c, g, aud))
          /\ \/ UNCHANGED <<pc, job>>
             \/ /\ pc' = [pc EXCEPT ![r] = "minting"]
                /\ job' = [job EXCEPT ![r] = [cred |-> c, gw |-> g, aud |-> aud]]
    BY DEF Exchange
  <1>2. UNCHANGED <<audience, known, writing, replaced, late>>
    BY DEF Exchange, rowVars, historyVars
  <1>3. \A x : Changing(x)' <=> Changing(x)
    BY <1>2 DEF Changing
  <1>4. \A h \in Hashes : entry'[h] = entry[h] \/ entry'[h] = Nothing
    BY <1>1 DEF Forget, TypesInv, CachesOK
  <1>5. CASE UNCHANGED <<pc, job>>
    BY <1>2, <1>3, <1>4, <1>5, AudienceFrame DEF AudienceInv
  <1>6. CASE /\ pc' = [pc EXCEPT ![r] = "minting"]
             /\ job' = [job EXCEPT ![r] = [cred |-> c, gw |-> g, aud |-> aud]]
    <2>1. \A h \in Hashes : Cached(h)' => Cached(h) /\ entry'[h] = entry[h]
      BY <1>4 DEF Cached
    <2>2. job'[r].gw = g /\ job'[r].aud = aud /\ (~Changing(g) => aud = audience[g])
      BY <1>1, <1>6 DEF AudienceInv, TypesInv, RequestsOK
    <2>3. \A x \in Requests : x # r => pc'[x] = pc[x] /\ job'[x] = job[x]
      BY <1>6 DEF TypesInv, RequestsOK
    <2>4. \A x \in Requests : pc'[x] # "idle" /\ x \notin late' /\ ~Changing(job'[x].gw) =>
            audience[job'[x].gw] = job'[x].aud
      BY <1>2, <2>2, <2>3 DEF AudienceInv
    <2>5. \A h \in Hashes : Cached(h)' /\ ~entry'[h].late =>
            IF h[2] = Default THEN entry'[h].aud = Default
            ELSE ~Changing(h[2])' => audience'[h[2]] = entry'[h].aud
      BY <1>2, <1>3, <2>1 DEF AudienceInv
    <2> QED
      BY <1>2, <1>3, <2>4, <2>5 DEF AudienceInv
  <1> QED
    BY <1>1, <1>5, <1>6

\* The key an answer goes under names its gateway unless it asked for nothing.
LEMMA AudienceStore ==
  ASSUME TokensAssumption, TypesInv, AudienceInv, NEW r \in Requests, Store(r)
  PROVE  AudienceInv'
  <1> DEFINE h == Hash(job[r].cred, job[r].gw, job[r].aud)
             e == [aud |-> job[r].aud, signedAt |-> signedAt[r],
                   until |-> now + CacheSeconds, late |-> r \in late]
  <1>1. Done(r) /\ UNCHANGED <<audience, known, writing, replaced>> /\ pc[r] # "idle"
    BY DEF Store, rowVars
  <1>2. \A x : Changing(x)' <=> Changing(x)
    BY <1>1 DEF Changing
  <1>3. \A x \in Requests : pc'[x] # "idle" /\ x \notin late' =>
          pc[x] # "idle" /\ x \notin late /\ job'[x] = job[x]
    BY <1>1 DEF Done, TypesInv, RequestsOK
  <1>4. /\ h \in Hashes /\ job[r].gw \in Gateways
        /\ job[r].aud = Default => h[2] = Default
        /\ job[r].aud # Default => h[2] = job[r].gw /\ h[2] # Default
    BY <1>1, RunningJob DEF TypesInv, Hash, TokensAssumption
  <1>5. e.late = (r \in late) /\ e.aud = job[r].aud
    OBVIOUS
  <1>6. \/ UNCHANGED entry
        \/ entry' = [x \in Hashes |-> IF x = h THEN e ELSE IF x \in Kept THEN entry[x] ELSE Nothing]
    BY DEF Store, StoreToken
  <1> HIDE DEF h, e
  <1>7. ASSUME NEW x \in Hashes, Cached(x)', ~entry'[x].late
        PROVE  IF x[2] = Default THEN entry'[x].aud = Default
               ELSE ~Changing(x[2]) => audience[x[2]] = entry'[x].aud
    <2>1. CASE entry'[x] = entry[x]
      BY <1>7, <2>1 DEF AudienceInv, Cached
    <2>2. CASE x = h /\ entry'[x] = e
      <3>1. r \notin late
        BY <1>5, <1>7, <2>2
      <3>2. ~Changing(job[r].gw) => audience[job[r].gw] = job[r].aud
        BY <1>1, <3>1 DEF AudienceInv
      <3> QED
        BY <1>4, <1>5, <2>2, <3>2
    <2>3. entry'[x] = entry[x] \/ (x = h /\ entry'[x] = e)
      BY <1>6, <1>7 DEF Cached
    <2> QED
      BY <2>1, <2>2, <2>3
  <1>8. \A x \in Requests : pc'[x] # "idle" /\ x \notin late' /\ ~Changing(job[x].gw)' =>
          audience'[job'[x].gw] = job'[x].aud
    <2> TAKE x \in Requests
    <2> HAVE pc'[x] # "idle" /\ x \notin late' /\ ~Changing(job[x].gw)'
    <2>1. pc[x] # "idle" /\ x \notin late /\ job'[x] = job[x]
      BY <1>3
    <2>2. PICK g \in Gateways : g = job[x].gw
      BY <2>1, RunningJob DEF TypesInv
    <2>3. ~Changing(g)
      BY <1>2, <2>1, <2>2
    <2> QED
      BY <1>1, <2>1, <2>2, <2>3 DEF AudienceInv
  <1> QED
    BY <1>1, <1>2, <1>7, <1>8 DEF AudienceInv

\* A reset overlaps whatever runs, and what still differs is still changing.
LEMMA AudienceFollow ==
  ASSUME TokensAssumption, TypesInv, AudienceInv, NEW w \in Writers, Follow(w)
  PROVE  AudienceInv'
  <1>1. /\ writing' = [writing EXCEPT ![w] = Nothing]
        /\ known' = IF writing[w][1] = "access" THEN known ELSE audience
        /\ UNCHANGED <<audience, pc, job>>
    BY DEF Follow, requestVars
  <1>2. CASE ~Empties(writing[w][1])
    <2>1. UNCHANGED <<entry, late, replaced>>
      BY <1>2 DEF Follow, cacheVars
    <2>2. \A g : writing[w] # <<"edit", g>>
      BY <1>2 DEF Empties
    <2>3. \A g \in Gateways : Changing(g) => Changing(g)'
      BY <1>1, <2>1, <2>2 DEF Changing, TypesInv, RowsOK
    <2>4. \A g \in Gateways : known'[g] \in {known[g], audience[g]}
      BY <1>1
    <2> QED
      BY <1>1, <2>1, <2>3, <2>4, AudienceFrame DEF AudienceInv
  <1>3. CASE Empties(writing[w][1])
    <2>1. /\ \A h \in Hashes : ~Cached(h)'
          /\ late' = {r \in Requests : pc[r] # "idle"}
          /\ replaced' = {g \in replaced : audience[g] = Nothing \/ known'[g] # audience[g]}
      BY <1>3 DEF Follow, EmptyCaches, ForgetTokens, Cached
    <2>2. \A g \in Gateways : audience'[g] = Nothing => g \in replaced'
      BY <1>1, <2>1 DEF AudienceInv
    <2>3. ASSUME NEW g \in Gateways, known'[g] # audience'[g] PROVE Changing(g)'
      <3>1. writing[w][1] = "access" /\ known'[g] = known[g] /\ known[g] # audience[g]
        BY <1>1, <2>3
      <3>2. CASE g \in replaced
        BY <1>1, <2>1, <2>3, <3>2 DEF Changing
      <3>3. CASE g \notin replaced
        <4>1. PICK v \in Writers : writing[v] = <<"edit", g>>
          BY <3>1, <3>3 DEF AudienceInv, Changing
        <4>2. v # w
          BY <3>1, <4>1
        <4>3. writing'[v] = <<"edit", g>>
          BY <1>1, <4>1, <4>2 DEF TypesInv, RowsOK
        <4> QED
          BY <4>3 DEF Changing
      <3> QED
        BY <3>2, <3>3
    <2>4. \A r \in Requests : ~(pc'[r] # "idle" /\ r \notin late')
      BY <1>1, <2>1
    <2> QED
      BY <2>1, <2>2, <2>3, <2>4 DEF AudienceInv
  <1> QED
    BY <1>2, <1>3

\* A call that writes takes a writer that had nothing to follow up.
LEMMA WritesKeepsChanging ==
  ASSUME TokensAssumption, TypesInv, NEW w \in Writers, NEW what, Writes(w, what),
         replaced \subseteq replaced'
  PROVE  \A g \in Gateways : Changing(g) => Changing(g)'
  <1>1. \A g \in Gateways : Nothing # <<"edit", g>>
    BY Somethings DEF Writings
  <1>2. writing[w] = Nothing /\ writing' = [writing EXCEPT ![w] = what]
    BY DEF Writes
  <1>3. \A v \in Writers, g \in Gateways : writing[v] = <<"edit", g>> => writing'[v] = <<"edit", g>>
    BY <1>1, <1>2 DEF TypesInv, RowsOK
  <1> QED
    BY <1>3 DEF Changing

LEMMA AudienceStep ==
  ASSUME TokensAssumption, TypesInv, AudienceInv, [Next]_vars
  PROVE  AudienceInv'
  <1>1. ASSUME NEW r \in Requests, NEW c \in Credentials, NEW g \in Gateways, Exchange(r, c, g)
        PROVE  AudienceInv'
    BY <1>1, AudienceExchange
  <1>2. ASSUME NEW r \in Requests, Mint(r) PROVE AudienceInv'
    <2>1. UNCHANGED <<audience, known, writing, replaced, late, entry, job>>
      BY <1>2 DEF Mint, rowVars, cacheVars, historyVars
    <2>2. \A x \in Requests : pc'[x] # "idle" => pc[x] # "idle"
      BY <1>2 DEF Mint, TypesInv, RequestsOK
    <2>3. \A g \in Gateways : Changing(g)' <=> Changing(g)
      BY <2>1 DEF Changing
    <2> QED
      BY <2>1, <2>2, <2>3, AudienceFrame DEF AudienceInv
  <1>3. ASSUME NEW r \in Requests, PassLimit(r) PROVE AudienceInv'
    <2>1. UNCHANGED <<audience, known, writing, replaced, entry>> /\ Done(r)
      BY <1>3 DEF PassLimit, rowVars, cacheVars
    <2>2. \A x \in Requests : pc'[x] # "idle" /\ x \notin late' =>
            pc[x] # "idle" /\ x \notin late /\ job'[x] = job[x]
      BY <2>1 DEF Done, TypesInv, RequestsOK
    <2>3. \A g \in Gateways : Changing(g)' <=> Changing(g)
      BY <2>1 DEF Changing
    <2> QED
      BY <2>1, <2>2, <2>3, AudienceFrame DEF AudienceInv
  <1>4. ASSUME NEW r \in Requests, Store(r) PROVE AudienceInv'
    BY <1>4, AudienceStore
  <1>5. ASSUME NEW w \in Writers, NEW c \in Credentials, End(w, c) \/ (c \in Keys /\ Restore(w, c))
        PROVE  AudienceInv'
    <2>1. UNCHANGED <<audience, known, replaced, late, entry, pc, job>> /\ Writes(w, <<"access", c>>)
      BY <1>5 DEF End, Restore, cacheVars, requestVars
    <2>2. \A g \in Gateways : Changing(g) => Changing(g)'
      BY <2>1, WritesKeepsChanging
    <2> QED
      BY <2>1, <2>2, AudienceFrame DEF AudienceInv
  <1>6. ASSUME NEW c \in Credentials, EndQuietly(c) \/ EndElsewhere(c) PROVE AudienceInv'
    <2>1. UNCHANGED <<audience, known, writing, replaced, late, entry, pc, job>>
      BY <1>6 DEF EndQuietly, EndElsewhere, cacheVars, requestVars
    <2>2. \A g \in Gateways : Changing(g)' <=> Changing(g)
      BY <2>1 DEF Changing
    <2> QED
      BY <2>1, <2>2, AudienceFrame DEF AudienceInv
  <1>7. ASSUME NEW w \in Writers, NEW g \in Gateways, DeleteGateway(w, g) PROVE AudienceInv'
    <2>1. /\ UNCHANGED <<known, late, entry, pc, job>> /\ Writes(w, <<"list", g>>)
          /\ audience' = [audience EXCEPT ![g] = Nothing] /\ replaced' = replaced \cup {g}
      BY <1>7 DEF DeleteGateway, cacheVars, requestVars
    <2>2. \A x \in Gateways : Changing(x) => Changing(x)'
      BY <2>1, WritesKeepsChanging
    <2>3. Changing(g)'
      BY <2>1 DEF Changing
    <2>4. \A x \in Gateways : x # g => audience'[x] = audience[x]
      BY <2>1 DEF TypesInv, RowsOK
    <2>5. \A x \in Gateways : audience'[x] = Nothing => x \in replaced'
      BY <2>1, <2>4 DEF AudienceInv
    <2> QED
      BY <2>1, <2>2, <2>3, <2>4, <2>5, AudienceFrame
  <1>8. ASSUME NEW w \in Writers, NEW g \in Gateways, NEW aud \in Audiences \cup {Default},
               EditGateway(w, g, aud) \/ CreateGateway(w, g, aud)
        PROVE  AudienceInv'
    <2>1. /\ UNCHANGED <<known, late, entry, pc, job, replaced>>
          /\ audience' = [audience EXCEPT ![g] = aud]
          /\ \/ Writes(w, <<"edit", g>>)
             \/ Writes(w, <<"list", g>>) /\ audience[g] = Nothing
      BY <1>8 DEF EditGateway, CreateGateway, cacheVars, requestVars, historyVars
    <2>2. \A x \in Gateways : Changing(x) => Changing(x)'
      BY <2>1, WritesKeepsChanging
    <2>3. Changing(g)'
      <3>1. CASE Writes(w, <<"edit", g>>)
        BY <3>1 DEF Changing, Writes, TypesInv, RowsOK
      <3>2. CASE audience[g] = Nothing
        BY <2>1, <3>2 DEF AudienceInv, Changing
      <3> QED
        BY <2>1, <3>1, <3>2
    <2>4. \A x \in Gateways : x # g => audience'[x] = audience[x]
      BY <2>1 DEF TypesInv, RowsOK
    <2>5. audience'[g] # Nothing
      BY <2>1 DEF TypesInv, RowsOK, TokensAssumption
    <2>6. \A x \in Gateways : audience'[x] = Nothing => x \in replaced'
      BY <2>1, <2>4, <2>5 DEF AudienceInv
    <2> QED
      BY <2>1, <2>2, <2>3, <2>4, <2>6, AudienceFrame
  <1>9. ASSUME NEW w \in Writers, Follow(w) PROVE AudienceInv'
    BY <1>9, AudienceFollow
  <1>10. CASE Tick \/ UNCHANGED vars
    <2>1. UNCHANGED <<audience, known, writing, replaced, late, entry, pc, job>>
      BY <1>10 DEF Tick, vars, rowVars, cacheVars, requestVars, historyVars
    <2>2. \A g \in Gateways : Changing(g)' <=> Changing(g)
      BY <2>1 DEF Changing
    <2> QED
      BY <2>1, <2>2, AudienceFrame DEF AudienceInv
  <1> QED
    BY <1>1, <1>2, <1>3, <1>4, <1>5, <1>6, <1>7, <1>8, <1>9, <1>10 DEF Next, Credentials

-----------------------------------------------------------------------------
\* Every variable keeps its type, and the order of insertion stays a strict total
\* order on what tokenCache holds (proxy.ts tokenCache, storeToken).
THEOREM TypeCorrect ==
  ASSUME TokensAssumption
  PROVE  Spec => []TypeOK
  BY TypesHold, TypesGiveTypeOK, PTL

\* The token cache never holds more entries than its limit (proxy.ts storeToken).
THEOREM CacheStaysBounded ==
  ASSUME TokensAssumption
  PROVE  Spec => []CacheBounded
  <1>1. TypesInv => CacheBounded
    BY DEF TypesInv, CachesOK
  <1> QED
    BY <1>1, TypesHold, PTL

\* A cached token names the audience of the gateway it is served at, unless an
\* exchange ran across a reset or the gateway was deleted and created again
\* (proxy.ts hashCredential, endpoints.ts updateGateway).
THEOREM AudienceHolds ==
  ASSUME TokensAssumption
  PROVE  Spec => []AudienceHoldsUnlessReplaced
  <1>1. Init => TypesInv /\ AudienceInv
    BY TypesInit, AudienceInit
  <1>2. TypesInv /\ AudienceInv /\ [Next]_vars => (TypesInv /\ AudienceInv)'
    BY TypesStep, AudienceStep
  <1>3. TypesInv /\ AudienceInv => AudienceHoldsUnlessReplaced
    <2> SUFFICES ASSUME AudienceInv, NEW h \in Hashes, Usable(h), ~entry[h].late,
                        h[2] \notin replaced, h[2] # Default => Settled(h[2])
                 PROVE  NamesItsGateway(h)
      BY DEF AudienceHoldsUnlessReplaced
    <2>1. h[2] # Default => ~Changing(h[2])
      BY DEF Settled, Changing
    <2> QED
      BY <2>1 DEF AudienceInv, Usable, NamesItsGateway
  <1> QED
    BY <1>1, <1>2, <1>3, PTL DEF Spec
=============================================================================
