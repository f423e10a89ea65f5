--------------------------- MODULE Server_proofs ---------------------------
(***************************************************************************)
(* Proofs about what a request meets before its handler: the limits of the  *)
(* token endpoint (RateLimits), for any number of requests and addresses,   *)
(* any maxima and any window; and the runtime it shares (Lifecycle), for     *)
(* any number of requests and builds.  And about the parts in one            *)
(* specification (MCServer), with what Tables_proofs and Accounts_proofs     *)
(* have shown of the others.                                                 *)
(***************************************************************************)
EXTENDS MCServer, Tables_proofs, Accounts_proofs, FiniteSetTheorems, TLAPS

\* The requests that have looked at b and may still be counted in it.
Pending(b) == {r \in Tokens :
    IF b = Client
    THEN token[r].pc \in {"peeked", "forwarded"} \/ (token[r].pc = "answered" /\ token[r].answer = "ok")
    ELSE token[r].address = b /\ (token[r].pc = "forwarded" \/ (token[r].pc = "answered" /\ token[r].answer # "ok"))}

\* Why the overshoot is bounded: a request that may still be counted was let
\* through below the maximum, or unseen, and there are only so many at a time.
RoomLeft == \A b \in Buckets : ~Over(b) =>
    bucket[b].count + Cardinality(Pending(b)) < Max[b] + Cardinality(Tokens) + unseen[b]

LimitsInv == LimitsTypeOK /\ RoomLeft

-----------------------------------------------------------------------------
LEMMA NothingType == Nothing \in TokenSet /\ Nothing.pc = "idle"
  BY DEF Nothing, TokenSet, Buckets

LEMMA TypeInit == ASSUME LimitsAssumption PROVE LimitsInit => LimitsTypeOK
  <1> SUFFICES ASSUME LimitsInit PROVE LimitsTypeOK
    OBVIOUS
  <1>1. bucket \in [Buckets -> [count : Nat, since : Nat]]
    BY DEF LimitsInit
  <1>2. token \in [Tokens -> TokenSet]
    BY NothingType DEF LimitsInit
  <1>3. \A r \in Tokens : token[r].pc # "idle" => token[r].address \in Addresses
    BY NothingType DEF LimitsInit
  <1>4. \A b \in Buckets : bucket[b].since <= clock
    BY DEF LimitsInit
  <1>5. unseen \in [Buckets -> Nat]
    BY DEF LimitsInit
  <1> QED
    BY <1>1, <1>2, <1>3, <1>4, <1>5 DEF LimitsInit, LimitsTypeOK

\* A look leaves the buckets alone and moves one request.
LEMMA PeekType ==
  ASSUME LimitsTypeOK, NEW r \in Tokens, NEW b \in Buckets, NEW on, Peek(r, b, on),
         on.pc # "idle", on.address \in Addresses,
         on \in TokenSet
  PROVE  LimitsTypeOK'
  <1>1. Nothing \in TokenSet /\ Nothing.pc = "idle"
    BY NothingType
  <1>2. PICK x \in {on, Nothing} : token' = [token EXCEPT ![r] = x]
    BY DEF Peek
  <1>3. unseen' \in [Buckets -> Nat] /\ outages' \in Nat
    BY DEF Peek, Outage, LimitsTypeOK
  <1>4. bucket' = bucket /\ clock' = clock /\ answers' = answers
    BY DEF Peek
  <1> QED
    BY <1>1, <1>2, <1>3, <1>4 DEF LimitsTypeOK

\* Every step keeps the variables well typed.
LEMMA TypeStep ==
  ASSUME LimitsAssumption, LimitsTypeOK, [LimitsNext]_limitVars
  PROVE  LimitsTypeOK'
  <1>1. ASSUME NEW r \in Tokens, NEW a \in Addresses, PeekClient(r, a) PROVE LimitsTypeOK'
    <2> DEFINE on == [pc |-> "peeked", address |-> a, answer |-> ""]
    <2>1. /\ on.pc # "idle" /\ on.address \in Addresses /\ Client \in Buckets
          /\ on \in TokenSet
      BY DEF Buckets, TokenSet
    <2>2. Peek(r, Client, on)
      BY <1>1 DEF PeekClient
    <2> QED
      BY <2>1, <2>2, PeekType
  <1>2. ASSUME NEW r \in Tokens, PeekAttempt(r) PROVE LimitsTypeOK'
    <2> DEFINE on == [token[r] EXCEPT !.pc = "forwarded"]
    <2>1. /\ on.pc # "idle" /\ on.address \in Addresses /\ token[r].address \in Buckets
          /\ on \in TokenSet
      BY <1>2 DEF PeekAttempt, LimitsTypeOK, TokenSet
    <2>2. Peek(r, token[r].address, on)
      BY <1>2 DEF PeekAttempt
    <2> QED
      BY <2>1, <2>2, PeekType
  <1>3. ASSUME NEW r \in Tokens, NEW answer \in {"ok", "refused", "wait"}, Answered(r, answer) PROVE LimitsTypeOK'
    <2> DEFINE told == [token[r] EXCEPT !.pc = "answered", !.answer = answer]
    <2>1. /\ token[r] \in TokenSet /\ token[r].pc # "idle"
          /\ token' = [token EXCEPT ![r] = IF answer = "wait" THEN Nothing ELSE told]
      BY <1>3 DEF Answered, LimitsTypeOK
    <2>2. answer # "wait" => told \in TokenSet /\ told.address = token[r].address
      BY <2>1 DEF TokenSet
    <2> HIDE DEF told
    <2> QED
      BY <1>3, <2>1, <2>2, NothingType DEF Answered, LimitsTypeOK
  <1>4. ASSUME NEW r \in Tokens, Consume(r) PROVE LimitsTypeOK'
    <2>1. /\ token' \in [Tokens -> TokenSet]
          /\ \A q \in Tokens : token'[q].pc # "idle" => token'[q].address \in Addresses
      BY <1>4, NothingType DEF Consume, LimitsTypeOK
    <2>2. CountedIn(r) \in Buckets
      BY DEF CountedIn, LimitsTypeOK, TokenSet, Buckets
    <2>3. /\ bucket' \in [Buckets -> [count : Nat, since : Nat]]
          /\ \A b \in Buckets : bucket'[b].since <= clock
          /\ unseen' \in [Buckets -> Nat] /\ outages' \in Nat
          /\ clock' = clock /\ answers' = answers
      <3>1. /\ bucket[CountedIn(r)].count + 1 \in Nat /\ bucket[CountedIn(r)].since <= clock
            /\ bucket[CountedIn(r)].since \in Nat /\ clock \in Nat
        BY <2>2 DEF LimitsTypeOK
      <3>2. CASE Outage /\ UNCHANGED <<bucket, unseen>>
        BY <1>4, <3>2 DEF Consume, LimitsTypeOK, Outage
      <3>3. CASE ~(Outage /\ UNCHANGED <<bucket, unseen>>)
        <4> DEFINE b == CountedIn(r)
                   fresh == bucket[b].count = 0 \/ Over(b)
        <4>1. /\ bucket' = [bucket EXCEPT ![b] = [count |-> IF fresh THEN 1 ELSE bucket[b].count + 1,
                                                  since |-> IF fresh THEN clock ELSE bucket[b].since]]
              /\ unseen' = [unseen EXCEPT ![b] = IF fresh THEN 0 ELSE unseen[b]]
              /\ outages' = outages /\ clock' = clock /\ answers' = answers
          BY <1>4, <2>2, <3>3 DEF Consume, LimitsTypeOK
        <4>2. unseen[b] \in Nat /\ outages \in Nat
          BY <2>2 DEF LimitsTypeOK
        <4> HIDE DEF fresh
        <4>3. CASE fresh
          <5>1. /\ bucket' = [bucket EXCEPT ![b] = [count |-> 1, since |-> clock]]
                /\ unseen' = [unseen EXCEPT ![b] = 0]
            BY <4>1, <4>3
          <5> QED
            BY <2>2, <3>1, <4>1, <4>2, <5>1 DEF LimitsTypeOK
        <4>4. CASE ~fresh
          <5>1. /\ bucket' = [bucket EXCEPT ![b] = [count |-> bucket[b].count + 1, since |-> bucket[b].since]]
                /\ unseen' = [unseen EXCEPT ![b] = unseen[b]]
            BY <4>1, <4>4
          <5> QED
            BY <2>2, <3>1, <4>1, <4>2, <5>1 DEF LimitsTypeOK
        <4> QED
          BY <4>3, <4>4
      <3> QED
        BY <3>2, <3>3
    <2> QED
      BY <2>1, <2>3 DEF LimitsTypeOK
  <1>5. CASE Tick
    <2>1. /\ clock' \in Nat /\ clock <= clock'
          /\ bucket' = bucket /\ token' = token /\ answers' = answers /\ outages' = outages
          /\ unseen' = unseen
      BY <1>5 DEF Tick, LimitsTypeOK
    <2>2. \A b \in Buckets : bucket[b].since \in Nat
      BY DEF LimitsTypeOK
    <2> QED
      BY <2>1, <2>2 DEF LimitsTypeOK
  <1>6. CASE UNCHANGED limitVars
    BY <1>6 DEF limitVars, LimitsTypeOK
  <1> QED
    BY <1>1, <1>2, <1>3, <1>4, <1>5, <1>6 DEF LimitsNext

-----------------------------------------------------------------------------
\* The sizes of two sets of requests that differ at most in r.
LEMMA Sizes ==
  ASSUME LimitsAssumption, NEW P \in SUBSET Tokens, NEW Q \in SUBSET Tokens, NEW r \in Tokens
  PROVE  /\ Cardinality(P) \in Nat /\ Cardinality(Q) \in Nat /\ Cardinality(Tokens) \in Nat
         /\ Cardinality(Q) <= Cardinality(Tokens)
         /\ Q \subseteq P => Cardinality(Q) <= Cardinality(P)
         /\ Q \subseteq P \cup {r} => Cardinality(Q) <= Cardinality(P) + 1
         /\ r \in P /\ Q \subseteq P \ {r} => Cardinality(Q) <= Cardinality(P) - 1
         /\ r \notin Q => Cardinality(Q) <= Cardinality(Tokens) - 1
  <1>1. IsFiniteSet(Tokens) /\ IsFiniteSet(P) /\ IsFiniteSet(Q)
    BY FS_Subset DEF LimitsAssumption
  <1>2. Cardinality(P) \in Nat /\ Cardinality(Q) \in Nat /\ Cardinality(Tokens) \in Nat
    BY <1>1, FS_CardinalityType
  <1>3. Cardinality(Q) <= Cardinality(Tokens)
    BY <1>1, FS_Subset
  <1>4. Q \subseteq P => Cardinality(Q) <= Cardinality(P)
    BY <1>1, FS_Subset
  <1>5. Q \subseteq P \cup {r} => Cardinality(Q) <= Cardinality(P) + 1
    <2>1. IsFiniteSet(P \cup {r}) /\ Cardinality(P \cup {r}) <= Cardinality(P) + 1
      <3>1. /\ IsFiniteSet(P \cup {r})
            /\ Cardinality(P \cup {r}) = IF r \in P THEN Cardinality(P) ELSE Cardinality(P) + 1
        BY <1>1, FS_AddElement
      <3> QED
        BY <1>2, <3>1
    <2>2. Q \subseteq P \cup {r} => Cardinality(Q) <= Cardinality(P \cup {r})
      BY <2>1, FS_Subset
    <2>3. Cardinality(P \cup {r}) \in Nat
      BY <2>1, FS_CardinalityType
    <2> QED
      BY <1>2, <2>1, <2>2, <2>3
  <1>6. r \in P /\ Q \subseteq P \ {r} => Cardinality(Q) <= Cardinality(P) - 1
    <2>1. r \in P => IsFiniteSet(P \ {r}) /\ Cardinality(P \ {r}) = Cardinality(P) - 1
      BY <1>1, FS_RemoveElement
    <2> QED
      BY <2>1, FS_Subset
  <1>7. r \notin Q => Cardinality(Q) <= Cardinality(Tokens) - 1
    <2>1. IsFiniteSet(Tokens \ {r}) /\ Cardinality(Tokens \ {r}) = Cardinality(Tokens) - 1
      BY <1>1, FS_RemoveElement
    <2> QED
      BY <2>1, FS_Subset
  <1> QED
    BY <1>2, <1>3, <1>4, <1>5, <1>6, <1>7

\* A request that moves changes whether it is pending, and nobody else's.
LEMMA OthersPend ==
  ASSUME NEW r \in Tokens, \A q \in Tokens \ {r} : token'[q] = token[q], NEW b \in Buckets
  PROVE  /\ Pending(b)' \subseteq Pending(b) \cup {r}
         /\ r \notin Pending(b)' => Pending(b)' \subseteq Pending(b) \ {r}
         /\ r \in Pending(b) => Pending(b)' \subseteq Pending(b)
         /\ Pending(b) \in SUBSET Tokens /\ Pending(b)' \in SUBSET Tokens
  <1>1. Pending(b) \in SUBSET Tokens /\ Pending(b)' \in SUBSET Tokens
    BY DEF Pending
  <1>2. ASSUME NEW q \in Tokens \ {r}, q \in Pending(b)' PROVE q \in Pending(b)
    <2>1. token'[q] = token[q] /\ q \in Tokens
      OBVIOUS
    <2> QED
      BY <1>2, <2>1 DEF Pending
  <1> QED
    BY <1>1, <1>2

\* A look lets a request through below the maximum, or counts as unseen.
LEMMA PeekKeepsRoom ==
  ASSUME LimitsAssumption, LimitsTypeOK, RoomLeft, NEW r \in Tokens, NEW b \in Buckets, NEW on, Peek(r, b, on),
         \A c \in Buckets \ {b} : r \in Pending(c)' => r \in Pending(c)
  PROVE  RoomLeft'
  <1> SUFFICES ASSUME NEW c \in Buckets, ~Over(c)'
               PROVE  bucket'[c].count + Cardinality(Pending(c)') < Max[c] + Cardinality(Tokens) + unseen'[c]
    BY DEF RoomLeft
  <1>1. bucket' = bucket /\ clock' = clock /\ \A q \in Tokens \ {r} : token'[q] = token[q]
    BY DEF Peek, LimitsTypeOK
  <1>2. ~Over(c) /\ bucket[c].count + Cardinality(Pending(c)) < Max[c] + Cardinality(Tokens) + unseen[c]
    BY <1>1 DEF Over, RoomLeft
  <1>3. /\ bucket[c].count \in Nat /\ unseen[c] \in Nat /\ Max[c] \in Nat \ {0}
        /\ unseen'[c] \in {unseen[c], unseen[c] + 1} /\ unseen'[b] \in {unseen[b], unseen[b] + 1}
    BY DEF LimitsTypeOK, LimitsAssumption, Peek
  <1>4. /\ Pending(c)' \subseteq Pending(c) \cup {r}
        /\ r \notin Pending(c)' => Pending(c)' \subseteq Pending(c)
        /\ r \in Pending(c) => Pending(c)' \subseteq Pending(c)
        /\ Pending(c) \in SUBSET Tokens /\ Pending(c)' \in SUBSET Tokens
    BY <1>1, OthersPend
  <1>5. CASE Pending(c)' \subseteq Pending(c)
    <2>1. /\ Cardinality(Pending(c)) \in Nat /\ Cardinality(Pending(c)') \in Nat
          /\ Cardinality(Tokens) \in Nat /\ Cardinality(Pending(c)') <= Cardinality(Pending(c))
      BY <1>4, <1>5, Sizes
    <2> QED
      BY <1>1, <1>2, <1>3, <2>1
  <1>6. CASE c = b /\ bucket[b].count < Max[b]
    BY <1>1, <1>3, <1>4, <1>6, Sizes
  <1>7. CASE c = b /\ unseen'[b] = unseen[b] + 1
    BY <1>1, <1>2, <1>3, <1>4, <1>7, Sizes
  <1>8. CASE c = b /\ token' = [token EXCEPT ![r] = Nothing]
    <2>1. r \notin Pending(b)'
      BY <1>8, NothingType DEF LimitsTypeOK, Pending, Nothing
    <2> QED
      BY <1>4, <1>5, <1>8, <2>1
  <1>9. c = b => \/ bucket[b].count < Max[b]
                 \/ unseen'[b] = unseen[b] + 1
                 \/ token' = [token EXCEPT ![r] = Nothing]
    <2>1. CASE c = b /\ Allowed(b)
      BY <1>2, <1>3, <2>1 DEF Allowed
    <2>2. CASE ~Allowed(b)
      <3>1. CASE token' = [token EXCEPT ![r] = IF Allowed(b) THEN on ELSE Nothing]
        BY <2>2, <3>1, Zenon
      <3>2. CASE unseen' = [unseen EXCEPT ![b] = @ + 1]
        BY <3>2 DEF LimitsTypeOK
      <3> QED
        BY <3>1, <3>2 DEF Peek
    <2> QED
      BY <2>1, <2>2
  <1> QED
    BY <1>4, <1>5, <1>6, <1>7, <1>8, <1>9

\* Every step keeps room for the requests that may still be counted.
LEMMA RoomStep ==
  ASSUME LimitsAssumption, LimitsTypeOK, RoomLeft, [LimitsNext]_limitVars
  PROVE  RoomLeft'
  <1>1. ASSUME NEW r \in Tokens, NEW a \in Addresses, PeekClient(r, a) PROVE RoomLeft'
    <2> DEFINE on == [pc |-> "peeked", address |-> a, answer |-> ""]
    <2>1. Client \in Buckets /\ Peek(r, Client, on)
      BY <1>1 DEF PeekClient, Buckets
    <2>2. PICK x \in {on, Nothing} : token' = [token EXCEPT ![r] = x]
      BY <2>1 DEF Peek
    <2>3. x.pc = "peeked" \/ x.pc = "idle"
      <3>1. on.pc = "peeked" /\ Nothing.pc = "idle"
        BY NothingType
      <3> QED
        BY <2>2, <3>1, Zenon
    <2>4. token'[r] = x
      BY <2>2 DEF LimitsTypeOK
    <2>5. \A c \in Buckets \ {Client} : r \notin Pending(c)'
      BY <2>3, <2>4 DEF Pending
    <2> QED
      BY <2>1, <2>5, PeekKeepsRoom
  <1>2. ASSUME NEW r \in Tokens, PeekAttempt(r) PROVE RoomLeft'
    <2> DEFINE on == [token[r] EXCEPT !.pc = "forwarded"]
               b == token[r].address
    <2>1. /\ b \in Addresses /\ b \in Buckets /\ Peek(r, b, on) /\ token[r].pc = "peeked"
          /\ token[r] \in TokenSet
      BY <1>2 DEF PeekAttempt, LimitsTypeOK, Buckets
    <2>2. on.pc = "forwarded" /\ on.address = b
      BY <2>1 DEF TokenSet
    <2>3. PICK x \in {on, Nothing} : token' = [token EXCEPT ![r] = x]
      BY <2>1 DEF Peek
    <2>4. token'[r] = x /\ (x.pc = "idle" \/ (x.pc = "forwarded" /\ x.address = b))
      BY <2>2, <2>3, NothingType DEF LimitsTypeOK
    <2>5. r \in Pending(Client)
      BY <2>1 DEF Pending
    <2>6. \A c \in Buckets \ {b} : c # Client => r \notin Pending(c)'
      BY <2>4 DEF Pending
    <2> QED
      BY <2>1, <2>5, <2>6, PeekKeepsRoom
  <1>3. ASSUME \A b \in Buckets : Pending(b)' \subseteq Pending(b),
               \A b \in Buckets : Over(b) => Over(b)',
               bucket' = bucket, unseen' = unseen
        PROVE  RoomLeft'
    <2> SUFFICES ASSUME NEW b \in Buckets, ~Over(b)'
                 PROVE  bucket[b].count + Cardinality(Pending(b)') < Max[b] + Cardinality(Tokens) + unseen[b]
      BY <1>3 DEF RoomLeft
    <2>1. Pending(b) \in SUBSET Tokens /\ Pending(b)' \in SUBSET Pending(b)
      BY <1>3 DEF Pending
    <2>2. /\ Cardinality(Pending(b)) \in Nat /\ Cardinality(Pending(b)') \in Nat
          /\ Cardinality(Tokens) \in Nat /\ Cardinality(Pending(b)') <= Cardinality(Pending(b))
      BY <2>1, FS_Subset, FS_CardinalityType DEF LimitsAssumption
    <2>3. bucket[b].count \in Nat /\ unseen[b] \in Nat /\ Max[b] \in Nat
      BY DEF LimitsTypeOK, LimitsAssumption
    <2> QED
      BY <1>3, <2>2, <2>3 DEF RoomLeft
  <1>4. ASSUME NEW r \in Tokens, NEW answer \in {"ok", "refused", "wait"}, Answered(r, answer)
        PROVE  RoomLeft'
    <2>1. /\ token[r] \in TokenSet /\ token[r].pc = "forwarded"
          /\ \A q \in Tokens \ {r} : token'[q] = token[q]
          /\ bucket' = bucket /\ unseen' = unseen /\ clock' = clock
      BY <1>4 DEF Answered, LimitsTypeOK
    <2>2. /\ token'[r].pc \in {"idle", "answered"}
          /\ token'[r].pc = "answered" => token'[r].address = token[r].address
      <3>1. CASE answer = "wait"
        BY <1>4, <3>1, NothingType DEF Answered, LimitsTypeOK
      <3>2. CASE answer # "wait"
        <4>1. token'[r] = [token[r] EXCEPT !.pc = "answered", !.answer = answer]
          BY <1>4, <3>2 DEF Answered, LimitsTypeOK
        <4> QED
          BY <2>1, <4>1 DEF TokenSet
      <3> QED
        BY <3>1, <3>2
    <2>3. \A b \in Buckets : r \in Pending(b)' => r \in Pending(b)
      BY <2>1, <2>2 DEF Pending
    <2>4. \A b \in Buckets : Pending(b)' \subseteq Pending(b)
      BY <2>1, <2>3, OthersPend
    <2>5. \A b \in Buckets : Over(b) => Over(b)'
      BY <2>1 DEF Over
    <2> QED
      BY <1>3, <2>1, <2>4, <2>5
  <1>5. ASSUME NEW r \in Tokens, Consume(r) PROVE RoomLeft'
    <2> DEFINE d == CountedIn(r)
    <2>1. /\ \A q \in Tokens \ {r} : token'[q] = token[q]
          /\ token'[r].pc = "idle" /\ clock' = clock
      BY <1>5, NothingType DEF Consume, LimitsTypeOK
    <2>2. \A b \in Buckets : r \notin Pending(b)'
      BY <2>1 DEF Pending
    <2>3. \A b \in Buckets : Pending(b)' \subseteq Pending(b) \ {r}
      BY <2>1, <2>2, OthersPend
    <2>4. d \in Buckets /\ r \in Pending(d)
      BY <1>5 DEF Consume, CountedIn, Pending, LimitsTypeOK, TokenSet, Buckets, LimitsAssumption
    <2>5. CASE bucket' = bucket /\ unseen' = unseen
      BY <1>3, <2>1, <2>3, <2>5 DEF Over
    <2>6. CASE /\ bucket' = [bucket EXCEPT ![d] =
                    [count |-> IF bucket[d].count = 0 \/ Over(d) THEN 1 ELSE bucket[d].count + 1,
                     since |-> IF bucket[d].count = 0 \/ Over(d) THEN clock ELSE bucket[d].since]]
               /\ unseen' = [unseen EXCEPT ![d] = IF bucket[d].count = 0 \/ Over(d) THEN 0 ELSE unseen[d]]
      <3> SUFFICES ASSUME NEW b \in Buckets, ~Over(b)'
                   PROVE  bucket'[b].count + Cardinality(Pending(b)') < Max[b] + Cardinality(Tokens) + unseen'[b]
        BY DEF RoomLeft
      <3>1. /\ Pending(b) \in SUBSET Tokens /\ Pending(b)' \in SUBSET Tokens
            /\ Pending(b)' \subseteq Pending(b) /\ r \notin Pending(b)'
        BY <2>2, <2>3 DEF Pending
      <3>2. /\ Cardinality(Pending(b)) \in Nat /\ Cardinality(Pending(b)') \in Nat
            /\ Cardinality(Tokens) \in Nat
            /\ Cardinality(Pending(b)') <= Cardinality(Pending(b))
            /\ Cardinality(Pending(b)') <= Cardinality(Tokens) - 1
            /\ r \in Pending(b) => Cardinality(Pending(b)') <= Cardinality(Pending(b)) - 1
        BY <2>3, <3>1, Sizes
      <3>3. bucket[b].count \in Nat /\ unseen[b] \in Nat /\ Max[b] \in Nat \ {0}
        BY DEF LimitsTypeOK, LimitsAssumption
      <3>4. CASE b # d
        <4>1. bucket'[b] = bucket[b] /\ unseen'[b] = unseen[b] /\ ~Over(b)
          BY <2>1, <2>6, <3>4 DEF LimitsTypeOK, Over
        <4> QED
          BY <3>2, <3>3, <4>1 DEF RoomLeft
      <3>5. CASE b = d /\ (bucket[d].count = 0 \/ Over(d))
        <4>1. bucket'[b].count = 1 /\ unseen'[b] = 0
          BY <2>6, <3>5 DEF LimitsTypeOK
        <4> QED
          BY <3>2, <3>3, <4>1
      <3>6. CASE b = d /\ ~(bucket[d].count = 0 \/ Over(d))
        <4>1. bucket'[b].count = bucket[b].count + 1 /\ unseen'[b] = unseen[b] /\ ~Over(b)
          BY <2>6, <3>6 DEF LimitsTypeOK
        <4> QED
          BY <2>4, <3>2, <3>3, <3>6, <4>1 DEF RoomLeft
      <3> QED
        BY <3>4, <3>5, <3>6
    <2> QED
      BY <1>5, <2>5, <2>6 DEF Consume
  <1>6. CASE Tick
    <2>1. \A b \in Buckets : Pending(b)' \subseteq Pending(b)
      BY <1>6 DEF Tick, Pending
    <2>2. \A b \in Buckets : Over(b) => Over(b)'
      BY <1>6 DEF Tick, Over, LimitsTypeOK, LimitsAssumption
    <2> QED
      BY <1>3, <1>6, <2>1, <2>2 DEF Tick
  <1>7. CASE UNCHANGED limitVars
    BY <1>3, <1>7 DEF limitVars, Pending, Over
  <1> QED
    BY <1>1, <1>2, <1>4, <1>5, <1>6, <1>7 DEF LimitsNext

\* At the beginning nothing is counted.
LEMMA RoomInit == ASSUME LimitsAssumption PROVE LimitsInit => RoomLeft
  <1> SUFFICES ASSUME LimitsInit, NEW b \in Buckets
               PROVE  bucket[b].count + Cardinality(Pending(b)) < Max[b] + Cardinality(Tokens) + unseen[b]
    BY DEF RoomLeft
  <1>1. bucket[b].count = 0 /\ unseen[b] = 0 /\ Max[b] \in Nat \ {0}
    BY DEF LimitsInit, LimitsAssumption
  <1>2. Pending(b) \in SUBSET Tokens
    BY DEF Pending
  <1>3. /\ Cardinality(Pending(b)) \in Nat /\ Cardinality(Tokens) \in Nat
        /\ Cardinality(Pending(b)) <= Cardinality(Tokens)
    BY <1>2, FS_Subset, FS_CardinalityType DEF LimitsAssumption
  <1> QED
    BY <1>1, <1>3

-----------------------------------------------------------------------------
\* The variables of the rate limits always have their types.
THEOREM LimitsTypeCorrect == ASSUME LimitsAssumption PROVE LimitsSpec => []LimitsTypeOK
  BY TypeInit, TypeStep, PTL DEF LimitsSpec

\* Whatever the maxima, the window and the number of requests: a window counts
\* less than its maximum and the requests that can be in flight together, and
\* the looks at it that failed (http/rate-limit.ts peek and consume).
THEOREM OvershootBounded == ASSUME LimitsAssumption PROVE LimitsSpec => []OvershootIsTheConcurrency
  <1>1. LimitsInit => LimitsInv
    BY TypeInit, RoomInit DEF LimitsInv
  <1>2. LimitsInv /\ [LimitsNext]_limitVars => LimitsInv'
    BY TypeStep, RoomStep DEF LimitsInv
  <1>3. LimitsInv => OvershootIsTheConcurrency
    <2> SUFFICES ASSUME LimitsInv, NEW b \in Buckets, ~Over(b)
                 PROVE  bucket[b].count < Max[b] + Cardinality(Tokens) + unseen[b]
      BY DEF OvershootIsTheConcurrency
    <2>1. Pending(b) \in SUBSET Tokens
      BY DEF Pending
    <2>2. Cardinality(Pending(b)) \in Nat /\ Cardinality(Tokens) \in Nat
      BY <2>1, FS_Subset, FS_CardinalityType DEF LimitsAssumption
    <2>3. bucket[b].count \in Nat /\ unseen[b] \in Nat /\ Max[b] \in Nat
      BY DEF LimitsInv, LimitsTypeOK, LimitsAssumption
    <2> QED
      BY <2>2, <2>3 DEF LimitsInv, RoomLeft
  <1> QED
    BY <1>1, <1>2, <1>3, PTL DEF LimitsSpec

-----------------------------------------------------------------------------
(* The runtime of the process: why one is held, and as long as it is used.  *)

\* Where the process is says what is held: until the drain has taken the promise,
\* its build and no other; then the one that is being closed; in the end nothing.
HeldInv ==
    /\ process \in {"up", "stopping", "release"} =>
        /\ \A b \in Held : b = pending /\ build[b] # "closing"
        /\ pending # NoRuntime => build[pending] \in {"building", "open"}
    /\ process \in {"release", "await", "close"} => InFlight = {}
    /\ process \in {"await", "close"} => pending = NoRuntime /\ \A b \in Held : b = shut
    /\ process = "await" => \A b \in Held : build[b] # "closing"
    /\ \A b, c \in Held : b = c
    /\ process = "exited" /\ ~again => Held = {}

\* Who waits waits for a build that nobody closes, who has one has it open.
UsesInv ==
    \A r \in Handlers :
        /\ handler[r] = "waits" => build[uses[r]] \in {"building", "open", "failed"}
        /\ handler[r] = "has" => build[uses[r]] = "open"

PoolsInv == LifeTypeOK /\ (~forced => HeldInv /\ UsesInv)

LEMMA PoolsInvInit == ASSUME LifeAssumption PROVE LifeInit => PoolsInv
  BY DEF LifeInit, PoolsInv, HeldInv, UsesInv, LifeTypeOK, Held, InFlight, LifeAssumption, Builds

\* Every step keeps the variables well typed.
LEMMA LifeTypeStep ==
  ASSUME LifeAssumption, LifeTypeOK, [LifeNext]_lifeVars
  PROVE  LifeTypeOK'
  <1> USE DEF LifeTypeOK, LifeAssumption
  <1>1. ASSUME NEW r \in Handlers, Accept(r) \/ Settle(r) \/ AskAgain(r) \/ Finish(r) PROVE LifeTypeOK'
    BY <1>1 DEF Accept, Settle, AskAgain, Finish
  <1>2. ASSUME NEW r \in Handlers, GetRuntime(r) PROVE LifeTypeOK'
    BY <1>2 DEF GetRuntime, Shared, Alive
  <1>3. ASSUME NEW b \in Builds, Built(b) \/ BuildFails(b) PROVE LifeTypeOK'
    BY <1>3 DEF Built, BuildFails
  <1>4. ASSUME Signal \/ SignalAgain \/ ForceClose \/ StopAccepting PROVE LifeTypeOK'
    BY <1>4 DEF Signal, SignalAgain, ForceClose, StopAccepting
  <1>5. ASSUME ReleaseRuntime \/ AwaitBuild \/ Close PROVE LifeTypeOK'
    BY <1>5 DEF ReleaseRuntime, AwaitBuild, Close
  <1>6. CASE UNCHANGED lifeVars
    BY <1>6 DEF lifeVars
  <1> QED
    BY <1>1, <1>2, <1>3, <1>4, <1>5, <1>6 DEF LifeNext

LEMMA PoolsStep ==
  ASSUME LifeAssumption, LifeTypeOK, LifeTypeOK', ~forced', HeldInv, UsesInv, [LifeNext]_lifeVars
  PROVE  HeldInv' /\ UsesInv'
  <1> USE DEF LifeTypeOK, LifeAssumption, HeldInv, UsesInv, Held, InFlight
  <1>1. ASSUME NEW r \in Handlers, Accept(r) \/ Settle(r) \/ AskAgain(r) \/ Finish(r)
        PROVE  HeldInv' /\ UsesInv'
    BY <1>1 DEF Accept, Settle, AskAgain, Finish, Alive
  <1>2. ASSUME NEW r \in Handlers, GetRuntime(r) PROVE HeldInv' /\ UsesInv'
    <2>1. CASE pending # NoRuntime
      BY <1>2, <2>1 DEF GetRuntime, Shared, Alive
    <2>2. CASE pending = NoRuntime
      BY <1>2, <2>2 DEF GetRuntime, Shared, Alive
    <2> QED
      BY <2>1, <2>2
  <1>3. ASSUME NEW b \in Builds, Built(b) PROVE HeldInv' /\ UsesInv'
    BY <1>3 DEF Built, Alive
  <1>4. ASSUME NEW b \in Builds, BuildFails(b) PROVE HeldInv' /\ UsesInv'
    BY <1>4 DEF BuildFails, Alive
  <1>5. ASSUME Signal \/ SignalAgain \/ ForceClose \/ StopAccepting PROVE HeldInv' /\ UsesInv'
    BY <1>5 DEF Signal, SignalAgain, ForceClose, StopAccepting, Stopped
  <1>6. ASSUME ReleaseRuntime PROVE HeldInv' /\ UsesInv'
    BY <1>6 DEF ReleaseRuntime
  <1>7. ASSUME AwaitBuild PROVE HeldInv' /\ UsesInv'
    BY <1>7 DEF AwaitBuild
  <1>8. ASSUME Close PROVE HeldInv' /\ UsesInv'
    BY <1>8 DEF Close
  <1>9. CASE UNCHANGED lifeVars
    BY <1>9 DEF lifeVars
  <1> QED
    BY <1>1, <1>2, <1>3, <1>4, <1>5, <1>6, <1>7, <1>8, <1>9 DEF LifeNext

\* The variables of the process always have their types.
THEOREM LifeTypeCorrect == ASSUME LifeAssumption PROVE LifeSpec => []LifeTypeOK
  <1>1. LifeInit => LifeTypeOK
    BY PoolsInvInit DEF PoolsInv
  <1> QED
    BY <1>1, LifeTypeStep, PTL DEF LifeSpec

\* However many requests there are and however often a build fails: one runtime
\* is held at a time, it is open as long as a request has it, and a process that
\* one signal ends holds nothing, unless the deadline cut requests off
\* (runtime.ts getRuntime and shutdownRuntime, http/lifecycle.ts runDrain).
THEOREM PoolsLast == ASSUME LifeAssumption PROVE LifeSpec => []PoolsLastAsLongAsTheRequests
  <1>1. LifeInit => PoolsInv
    BY PoolsInvInit
  <1>2. PoolsInv /\ [LifeNext]_lifeVars => PoolsInv'
    <2> SUFFICES ASSUME PoolsInv, [LifeNext]_lifeVars PROVE PoolsInv'
      OBVIOUS
    <2>1. LifeTypeOK'
      BY LifeTypeStep DEF PoolsInv
    <2>2. forced => forced'
      BY DEF LifeNext, lifeVars, Accept, GetRuntime, Settle, AskAgain, Finish, Built, BuildFails,
             Signal, SignalAgain, ForceClose, StopAccepting, ReleaseRuntime, AwaitBuild, Close
    <2> QED
      BY <2>1, <2>2, PoolsStep DEF PoolsInv
  <1>3. PoolsInv => PoolsLastAsLongAsTheRequests
    BY DEF PoolsInv, HeldInv, UsesInv, PoolsLastAsLongAsTheRequests
  <1> QED
    BY <1>1, <1>2, <1>3, PTL DEF LifeSpec

-----------------------------------------------------------------------------
(* The parts in one specification.                                         *)

\* A step of the server is a step of each part, or leaves it as it is.
LEMMA ServerSteps ==
  ASSUME [ServerNext]_serverVars
  PROVE  /\ [Next]_clientVars /\ [GatewaysNext]_gatewayVars /\ [LimitsNext]_limitVars
         /\ [DevicesNext]_deviceVars /\ [SetupNext]_setupVars /\ [ForcedNext]_forcedVars
         /\ [StandingNext]_standingVars /\ [LifeNext]_lifeVars
  BY Zenon DEF ServerNext, serverVars

\* Every part runs as it does alone.
THEOREM EveryPartRuns ==
  ServerSpec => /\ Spec /\ GatewaysSpec /\ LimitsSpec /\ DevicesSpec
                /\ SetupSpec /\ ForcedSpec /\ StandingSpec /\ LifeSpec
  <1>1. ServerInit => /\ Init /\ GatewaysInit /\ LimitsInit /\ DevicesInit
                      /\ SetupInit /\ ForcedInit /\ StandingInit /\ LifeInit
    BY DEF ServerInit
  <1> QED
    BY <1>1, ServerSteps, PTL
       DEF ServerSpec, Spec, GatewaysSpec, LimitsSpec, DevicesSpec, SetupSpec, ForcedSpec, StandingSpec, LifeSpec

\* Whichever part a behaviour is one of, its variables have their types.
THEOREM AllTyped == ServerSpec => []AllTypeOK
  <1>1. TypeOK /\ GatewaysTypeOK /\ LimitsTypeOK /\ SetupTypeOK /\ ForcedInv
          /\ StandingTypeOK /\ LifeTypeOK /\ DevicesInv => AllTypeOK
    BY DEF AllTypeOK, ForcedInv, DevicesInv
  <1> QED
    BY <1>1, EveryPartRuns, ClientsTypeCorrect, ClientsAssumption, GatewaysTypeCorrect, GatewaysAssumption,
       LimitsTypeCorrect, LimitsAssumption, SetupTypeCorrect, SetupAssumption,
       ForcedInvariant, ForcedAssumption, StandingTypeCorrect, LifeTypeCorrect, LifeAssumption,
       DevicesInvariant, DevicesAssumption, PTL

\* For any clients and gateways, calls and start-ups: both tables pass rows on
\* as the one abstract table does (gateways/reconcile.ts, oidc/reconcile.ts).
THEOREM BothTablesImplement == ServerSpec => OwnersPassAsPromised
  <1>1. Spec => ClientOwnersChangeAsPromised
    BY ClientsImplement, ClientsAssumption
  <1>2. GatewaysSpec => OwnersChangeAsPromised
    BY Implements, GatewaysAssumption
  <1> QED
    BY EveryPartRuns, <1>1, <1>2 DEF OwnersPassAsPromised

\* What the parts promise they promise together: every safety property checked of
\* the server holds whatever its constants are.
THEOREM ServerIsSafe ==
  ServerSpec =>
    /\ [](FileRowsFollowTheFile /\ LastCallHolds /\ OriginsAreCurrent /\ GatewaysFollowTheFile)
    /\ [](OvershootIsTheConcurrency /\ PoolsLastAsLongAsTheRequests)
    /\ [](TrustEndsAtTheCeiling /\ ClearedTrustOpensNothing /\ NobodyIsLockedOut)
    /\ [](OneFirstUser /\ ClosedSetupHasAnAdmin /\ ReplacedPasswordsOpenNothing)
    /\ RegisteredRowsSurviveAStart /\ ManualRowsSurviveASweep /\ OwnersPassAsPromised
    /\ TemporaryPasswordBuysNothing /\ BarsBiteInTime
  <1>1. Spec => /\ [](FileRowsFollowTheFile /\ LastCallHolds /\ OriginsAreCurrent)
                /\ RegisteredRowsSurviveAStart
    BY FileClientsFollow, LastCallStands, OriginsFollow, RegisteredRowsSurvive, ClientsAssumption, PTL
  <1>2. GatewaysSpec => []GatewaysFollowTheFile /\ ManualRowsSurviveASweep
    BY FileIsFollowed, ManualRowsSurvive, GatewaysAssumption
  <1>3. LimitsSpec /\ LifeSpec => [](OvershootIsTheConcurrency /\ PoolsLastAsLongAsTheRequests)
    BY OvershootBounded, LimitsAssumption, PoolsLast, LifeAssumption, PTL
  <1>4. DevicesSpec => [](TrustEndsAtTheCeiling /\ ClearedTrustOpensNothing /\ NobodyIsLockedOut)
    BY TrustEnds, ClearingTakesAll, NoLockOut, PTL
  <1>5. SetupSpec => [](OneFirstUser /\ ClosedSetupHasAnAdmin)
    BY OneAdministrator, ClosedWithAnAdmin, SetupAssumption, PTL
  <1>6. ForcedSpec => []ReplacedPasswordsOpenNothing /\ TemporaryPasswordBuysNothing
    BY ReplacedPasswordsEnd, TemporaryPasswordStops, ForcedAssumption
  <1>7. StandingSpec => BarsBiteInTime
    BY BarsBite
  <1> QED
    BY EveryPartRuns, BothTablesImplement, <1>1, <1>2, <1>3, <1>4, <1>5, <1>6, <1>7, PTL
=============================================================================
