------------------------ MODULE RefreshGrants_proofs ------------------------
(***************************************************************************)
(* Proofs about RefreshGrants for any number of users, clients, sessions,  *)
(* requests and tokens, and any lifetimes the configuration accepts.       *)
(***************************************************************************)
EXTENDS RefreshGrants, FiniteSetTheorems, TLAPS

BudgetSet == [time : Nat, tokens : Nat, grants : Nat, sessions : Nat, parallel : Nat,
              ends : Nat, restarts : Nat, failures : Nat]
GrantSet == [user : Users, client : Clients, session : Sessions \cup {NoSession}, at : Nat]
TokenSet == [grant : Nat, session : Sessions \cup {NoSession}, at : Nat, expires : Nat,
             revoked : Nat \cup {Never}]
RequestSet == [pc : {"idle", "ceiling", "over", "lookup", "spend", "insert"},
               row : Nat \cup TokenSet, over : SUBSET Nat, since : Nat]
HandlerSet == [stage : {"rest", "revoke", "all", "reject"}, user : Users \cup {NoSession},
               left : SUBSET Sessions, doomed : SUBSET Sessions, listed : SUBSET Sessions, known : Nat]

\* The types of the tables, and where their rows point.
TablesInv ==
    /\ now \in Nat /\ issued \in Nat
    /\ budget \in BudgetSet /\ now <= budget.time /\ issued <= budget.tokens
    /\ standing \in [Users -> {"active", "barred", "rejected"}]
    /\ disabled \subseteq Clients
    /\ session \in [Sessions -> {"unused", "live", "gone"}]
    /\ grants \in Seq(GrantSet) /\ Len(grants) <= budget.grants
    /\ \A f \in Grants : grants[f].at <= now
    /\ approved \subseteq Grants
    /\ DOMAIN tokens \subseteq 1..issued
    /\ tokens \in [DOMAIN tokens -> TokenSet]
    /\ \A id \in DOMAIN tokens : /\ tokens[id].grant \in Grants /\ tokens[id].at <= now
                                 /\ tokens[id].revoked # Never => tokens[id].revoked <= now

\* The types of what runs, and of the history.
RunningInv ==
    /\ request \in [Requests -> RequestSet]
    /\ \A q \in Requests :
        /\ request[q].pc \in {"idle", "insert"} \/ request[q].row \in Nat
        /\ request[q].pc = "insert" => /\ request[q].row \in TokenSet
                                       /\ request[q].row.grant \in Grants
    /\ handler \in HandlerSet /\ handler.known <= Len(grants)
    /\ ended \subseteq Grants
    /\ excuse \in [1..budget.grants -> SUBSET {"rotating", "approved", "detached", "during"}]
    /\ spent \in [1..budget.tokens -> Nat \cup {Never}]

Inserting(q, f) == request[q].pc = "insert" /\ request[q].row.grant = f
Good(id, f) == id \in DOMAIN tokens /\ tokens[id].grant = f /\ tokens[id].revoked = Never

\* A grant is held in one of three ways, and once.
HeldOnce == \A f \in Grants :
    /\ \A i, j \in DOMAIN tokens : Good(i, f) /\ Good(j, f) => i = j
    /\ \A q, r \in Requests : Inserting(q, f) /\ Inserting(r, f) => q = r
    /\ \A q \in Requests : Inserting(q, f) => f \notin approved /\ \A id \in DOMAIN tokens : ~Good(id, f)
    /\ f \in approved => \A id \in DOMAIN tokens : ~Good(id, f)

\* A row names the session of its grant, which is live, or none; and a grant
\* that lost its session cannot get it back.
Names(row) ==
    /\ row.session = NoSession \/ row.session = grants[row.grant].session
    /\ row.session = NoSession /\ grants[row.grant].session # NoSession =>
            session[grants[row.grant].session] = "gone"

SessionsInv ==
    /\ \A f \in Grants : grants[f].session # NoSession =>
            /\ session[grants[f].session] # "unused"
            /\ grants[f].user = UserOf[grants[f].session]
    /\ \A f \in approved : grants[f].session = NoSession
    /\ \A id \in DOMAIN tokens : /\ Names(tokens[id])
                                 /\ tokens[id].session = NoSession \/ session[tokens[id].session] = "live"
    /\ \A q \in Requests : request[q].pc = "insert" => Names(request[q].row)

\* Nothing of a grant is good, or about to be.
Extinct(f) ==
    /\ \A id \in DOMAIN tokens : ~Good(id, f)
    /\ \A q \in Requests : ~Inserting(q, f)
    /\ f \notin approved

\* The grants whose revocation has been judged: those of a finished handler,
\* and those of the sessions the running one has been through.
Judged(f) ==
    \/ f \in ended
    \/ f <= handler.known /\ grants[f].session \in handler.listed \ handler.left

\* Why what was ended stays so: a judged grant without an excuse is over, and
\* the sessions a handler deletes without having listed them are younger than it.
EndedInv ==
    /\ \A f \in Grants : Judged(f) /\ excuse[f] = {} => Extinct(f)
    /\ \A s \in handler.doomed \ handler.listed : session[s] # "gone" =>
            \A f \in Grants : grants[f].session = s => f > handler.known

\* Why a spent token is remembered: it was spent soon after a request found it
\* good, and its row was revoked no earlier.
SpentInv ==
    /\ \A q \in Requests : request[q].pc # "idle" =>
            request[q].since <= now /\ now - request[q].since <= MaxStall
    /\ \A q \in Requests : request[q].pc = "spend" =>
            /\ request[q].row <= issued
            /\ request[q].row \in DOMAIN tokens => tokens[request[q].row].expires >= request[q].since
    /\ \A id \in 1..budget.tokens : spent[id] # Never =>
            /\ id <= issued /\ spent[id] <= now
            /\ id \in DOMAIN tokens => /\ tokens[id].revoked # Never /\ tokens[id].revoked >= spent[id]
                                       /\ tokens[id].expires >= spent[id] - MaxStall
    /\ SpentTokensAreRemembered

GrantsInv == TablesInv /\ RunningInv /\ HeldOnce /\ SessionsInv /\ EndedInv /\ SpentInv

-----------------------------------------------------------------------------
(* What most steps have in common: no grant is given, no token inserted, and *)
(* sessions only end.                                                      *)

\* The sessions of S end, and the rows that named them name none.
Ends(S) ==
    /\ S \in SUBSET Sessions
    /\ session' \in [Sessions -> {"unused", "live", "gone"}]
    /\ \A s \in Sessions :
        /\ s \in S /\ session[s] = "live" => session'[s] = "gone"
        /\ s \notin S => session'[s] = session[s] \/ (session[s] = "unused" /\ session'[s] = "live")
        /\ session[s] # "live" => session'[s] = session[s] \/ (session[s] = "unused" /\ session'[s] = "live")
    /\ \A id \in DOMAIN tokens' :
        tokens'[id].session = IF tokens[id].session \in S THEN NoSession ELSE tokens[id].session

\* Rows go, or stay but for their revocation and their session.
RowsStay ==
    /\ DOMAIN tokens' \subseteq DOMAIN tokens
    /\ tokens' \in [DOMAIN tokens' -> TokenSet]
    /\ \A id \in DOMAIN tokens' :
        /\ tokens'[id].grant = tokens[id].grant
        /\ tokens'[id].at = tokens[id].at
        /\ tokens'[id].expires = tokens[id].expires
        /\ tokens'[id].revoked = tokens[id].revoked \/ tokens'[id].revoked = now

\* The bounds but for the events left.
SameBounds ==
    /\ budget' \in BudgetSet
    /\ budget'.time = budget.time /\ budget'.tokens = budget.tokens /\ budget'.grants = budget.grants

QuietRows ==
    /\ grants' = grants /\ issued' = issued /\ approved' = approved
    /\ SameBounds
    /\ now' \in Nat /\ now <= now' /\ now' <= budget.time
    /\ standing' \in [Users -> {"active", "barred", "rejected"}]
    /\ disabled' \subseteq Clients
    /\ RowsStay
    /\ \E S : Ends(S)

\* And no rotation begins.
Quiet ==
    /\ QuietRows
    /\ spent' = spent
    /\ \A q \in Requests : request'[q] = request[q] \/ request'[q].pc # "insert"

LEMMA EventCounted ==
  ASSUME TablesInv, NEW k \in {"ends", "restarts", "failures"}, Bounded(k), Counted(k)
  PROVE  SameBounds
  <1>1. budget[k] - 1 \in Nat
    BY DEF TablesInv, BudgetSet, Bounded
  <1> QED
    BY <1>1 DEF TablesInv, BudgetSet, Counted, SameBounds

LEMMA SameBoundsKept == ASSUME TablesInv, UNCHANGED budget PROVE SameBounds
  BY DEF TablesInv, SameBounds

\* What a revocation does to the rows.
LEMMA RevokedRows ==
  ASSUME TablesInv, NEW S
  PROVE  /\ Revoked(S) \in [DOMAIN tokens -> TokenSet] /\ DOMAIN Revoked(S) = DOMAIN tokens
         /\ \A id \in DOMAIN tokens :
              /\ Revoked(S)[id].grant = tokens[id].grant
              /\ Revoked(S)[id].session = tokens[id].session
              /\ Revoked(S)[id].at = tokens[id].at
              /\ Revoked(S)[id].expires = tokens[id].expires
              /\ Revoked(S)[id].revoked = IF id \in S /\ tokens[id].revoked = Never
                                            THEN now ELSE tokens[id].revoked
  <1>1. \A id \in DOMAIN tokens : tokens[id] \in TokenSet /\ now \in Nat
    BY DEF TablesInv
  <1>2. \A id \in DOMAIN tokens : Revoked(S)[id] =
          IF id \in S /\ tokens[id].revoked = Never THEN [tokens[id] EXCEPT !.revoked = now] ELSE tokens[id]
    BY DEF Revoked, Unrevoked
  <1>3. DOMAIN Revoked(S) = DOMAIN tokens /\ Revoked(S) = [id \in DOMAIN tokens |-> Revoked(S)[id]]
    BY DEF Revoked
  <1>4. \A id \in DOMAIN tokens :
              /\ Revoked(S)[id].grant = tokens[id].grant
              /\ Revoked(S)[id].session = tokens[id].session
              /\ Revoked(S)[id].at = tokens[id].at
              /\ Revoked(S)[id].expires = tokens[id].expires
              /\ Revoked(S)[id].revoked = IF id \in S /\ tokens[id].revoked = Never
                                            THEN now ELSE tokens[id].revoked
              /\ Revoked(S)[id] \in TokenSet
    BY <1>1, <1>2 DEF TokenSet
  <1> QED
    BY <1>3, <1>4

\* What the deletion of sessions does to rows t.
LEMMA DetachedRows ==
  ASSUME NEW t, t \in [DOMAIN t -> TokenSet], NEW S
  PROVE  /\ Detached(S, t) \in [DOMAIN t -> TokenSet] /\ DOMAIN Detached(S, t) = DOMAIN t
         /\ \A id \in DOMAIN t :
              /\ Detached(S, t)[id].grant = t[id].grant
              /\ Detached(S, t)[id].session = IF t[id].session \in S THEN NoSession ELSE t[id].session
              /\ Detached(S, t)[id].at = t[id].at
              /\ Detached(S, t)[id].expires = t[id].expires
              /\ Detached(S, t)[id].revoked = t[id].revoked
  <1>1. \A id \in DOMAIN t : t[id] \in TokenSet
    OBVIOUS
  <1>2. \A id \in DOMAIN t : Detached(S, t)[id] =
          IF t[id].session \in S THEN [t[id] EXCEPT !.session = NoSession] ELSE t[id]
    BY DEF Detached
  <1>3. DOMAIN Detached(S, t) = DOMAIN t /\ Detached(S, t) = [id \in DOMAIN t |-> Detached(S, t)[id]]
    BY DEF Detached
  <1>4. \A id \in DOMAIN t :
              /\ Detached(S, t)[id].grant = t[id].grant
              /\ Detached(S, t)[id].session = IF t[id].session \in S THEN NoSession ELSE t[id].session
              /\ Detached(S, t)[id].at = t[id].at
              /\ Detached(S, t)[id].expires = t[id].expires
              /\ Detached(S, t)[id].revoked = t[id].revoked
              /\ Detached(S, t)[id] \in TokenSet
    BY <1>1, <1>2 DEF TokenSet
  <1> QED
    BY <1>3, <1>4

\* The rows after a revocation, and the sessions that go with it.
LEMMA RevocationStays ==
  ASSUME TablesInv, NEW S, tokens' = Revoked(S)
  PROVE  RowsStay /\ \A id \in DOMAIN tokens' : tokens'[id].session = tokens[id].session
  BY RevokedRows DEF RowsStay

LEMMA DetachingStays ==
  ASSUME TablesInv, NEW t, t = tokens \/ \E R : t = Revoked(R),
         NEW S \in SUBSET Sessions, Gone(S), tokens' = Detached(S, t)
  PROVE  RowsStay /\ Ends(S)
  <1>1. /\ t \in [DOMAIN tokens -> TokenSet] /\ DOMAIN t = DOMAIN tokens
        /\ \A id \in DOMAIN tokens :
              /\ t[id].grant = tokens[id].grant /\ t[id].session = tokens[id].session
              /\ t[id].at = tokens[id].at /\ t[id].expires = tokens[id].expires
              /\ t[id].revoked = tokens[id].revoked \/ t[id].revoked = now
    <2>1. CASE t = tokens
      BY <2>1 DEF TablesInv
    <2>2. CASE \E R : t = Revoked(R)
      <3>1. PICK R : t = Revoked(R)
        BY <2>2
      <3> QED
        BY <3>1, RevokedRows
    <2> QED
      BY <2>1, <2>2
  <1>2. RowsStay
    BY <1>1, DetachedRows DEF RowsStay
  <1>3. \A id \in DOMAIN tokens' :
            tokens'[id].session = IF tokens[id].session \in S THEN NoSession ELSE tokens[id].session
    BY <1>1, DetachedRows
  <1>4. \A s \in Sessions : session'[s] = IF s \in S /\ session[s] = "live" THEN "gone" ELSE session[s]
    BY DEF Gone
  <1>5. session' \in [Sessions -> {"unused", "live", "gone"}]
    BY DEF Gone, TablesInv
  <1> QED
    BY <1>2, <1>3, <1>4, <1>5 DEF Ends

LEMMA NothingChanges ==
  ASSUME TablesInv, UNCHANGED tokens
  PROVE  RowsStay /\ \A id \in DOMAIN tokens' : tokens'[id].session = tokens[id].session
  BY DEF TablesInv, RowsStay

LEMMA NoneEnds ==
  ASSUME TablesInv, UNCHANGED session, RowsStay,
         \A id \in DOMAIN tokens' : tokens'[id].session = tokens[id].session
  PROVE  Ends({})
  BY DEF TablesInv, Ends

-----------------------------------------------------------------------------
(* What a quiet step keeps. *)

LEMMA GrantTypes == ASSUME TablesInv PROVE \A f \in Grants : grants[f] \in GrantSet
  <1>1. grants \in Seq(GrantSet)
    BY DEF TablesInv
  <1> HIDE DEF GrantSet
  <1> QED
    BY <1>1 DEF Grants

LEMMA QuietTables == ASSUME TablesInv, QuietRows PROVE TablesInv'
  <1>1. PICK S : Ends(S)
    BY DEF QuietRows
  <1>2. Grants' = Grants
    BY DEF QuietRows, Grants
  <1>3. \A id \in DOMAIN tokens' :
            /\ id \in DOMAIN tokens /\ tokens'[id].grant = tokens[id].grant
            /\ tokens'[id].at = tokens[id].at
            /\ tokens'[id].revoked = tokens[id].revoked \/ tokens'[id].revoked = now
    BY DEF QuietRows, RowsStay
  <1>4. \A id \in DOMAIN tokens' :
            /\ tokens'[id].grant \in Grants' /\ tokens'[id].at <= now'
            /\ tokens'[id].revoked # Never => tokens'[id].revoked <= now'
    <2> SUFFICES ASSUME NEW id \in DOMAIN tokens'
                 PROVE  /\ tokens'[id].grant \in Grants' /\ tokens'[id].at <= now'
                        /\ tokens'[id].revoked # Never => tokens'[id].revoked <= now'
      OBVIOUS
    <2>1. /\ tokens[id] \in TokenSet /\ tokens[id].grant \in Grants
          /\ tokens[id].at <= now
          /\ tokens[id].revoked # Never => tokens[id].revoked <= now
      BY <1>3 DEF TablesInv
    <2>2. tokens[id].at \in Nat /\ tokens[id].revoked \in Nat \cup {Never}
      BY <2>1 DEF TokenSet
    <2>3. now \in Nat /\ now' \in Nat /\ now <= now'
      BY DEF TablesInv, QuietRows
    <2> QED
      BY <1>2, <1>3, <2>1, <2>2, <2>3
  <1>5. \A f \in Grants' : grants'[f].at <= now'
    BY <1>2, GrantTypes DEF QuietRows, TablesInv, GrantSet
  <1>6. /\ session' \in [Sessions -> {"unused", "live", "gone"}]
        /\ tokens' \in [DOMAIN tokens' -> TokenSet]
        /\ DOMAIN tokens' \subseteq 1..issued'
    BY <1>1 DEF Ends, QuietRows, RowsStay, TablesInv
  <1>7. /\ budget' \in BudgetSet /\ now' <= budget'.time /\ issued' <= budget'.tokens
        /\ Len(grants') <= budget'.grants /\ grants' \in Seq(GrantSet) /\ approved' \subseteq Grants'
    BY <1>2 DEF QuietRows, SameBounds, TablesInv
  <1> QED
    BY <1>4, <1>5, <1>6, <1>7 DEF TablesInv, QuietRows

LEMMA QuietGood ==
  ASSUME TablesInv, QuietRows
  PROVE  /\ Grants' = Grants /\ approved' = approved /\ DOMAIN tokens' \subseteq DOMAIN tokens
         /\ \A id, f : Good(id, f)' => Good(id, f)
  <1>1. \A id \in DOMAIN tokens' : tokens'[id].revoked = Never => tokens[id].revoked = Never
    <2>1. RowsStay /\ now # Never
      BY GrantsAssumption DEF QuietRows, TablesInv
    <2> QED
      BY <2>1 DEF RowsStay
  <1> QED
    BY <1>1, GrantsAssumption DEF QuietRows, RowsStay, Grants, Good, TablesInv

LEMMA QuietInserting == ASSUME Quiet PROVE \A q \in Requests : \A f : Inserting(q, f)' => Inserting(q, f)
  BY DEF Quiet, Inserting

LEMMA QuietHeld == ASSUME TablesInv, HeldOnce, Quiet PROVE HeldOnce'
  BY QuietGood, QuietInserting DEF HeldOnce, Quiet

LEMMA QuietExtinct == ASSUME TablesInv, Quiet, NEW f, Extinct(f) PROVE Extinct(f)'
  BY QuietGood, QuietInserting DEF Extinct, Quiet

LEMMA QuietSessions ==
  ASSUME TablesInv, SessionsInv, QuietRows,
         \A q \in Requests : request'[q].pc = "insert" =>
             request'[q].row.grant \in Grants /\ Names(request'[q].row)
  PROVE  SessionsInv'
  <1>1. PICK S : Ends(S)
    BY DEF QuietRows
  <1>2. grants' = grants /\ Grants' = Grants
    BY DEF QuietRows, Grants
  <1>3. \A s \in Sessions : /\ session[s] = "gone" => session'[s] = "gone"
                            /\ session[s] # "unused" => session'[s] # "unused"
    BY <1>1 DEF Ends, TablesInv
  <1>4. \A f \in Grants : grants[f].session \in Sessions \cup {NoSession}
    BY GrantTypes DEF GrantSet
  <1>5. \A f \in Grants' : grants'[f].session # NoSession =>
            /\ session'[grants'[f].session] # "unused"
            /\ grants'[f].user = UserOf[grants'[f].session]
    BY <1>2, <1>3, <1>4 DEF SessionsInv
  <1>6. \A id \in DOMAIN tokens' :
            /\ Names(tokens[id])
            /\ tokens[id].session = NoSession \/ session[tokens[id].session] = "live"
            /\ tokens[id].session \in Sessions \cup {NoSession}
            /\ tokens[id].grant \in Grants /\ tokens'[id].grant = tokens[id].grant
            /\ tokens'[id].session = IF tokens[id].session \in S THEN NoSession ELSE tokens[id].session
    BY <1>1 DEF QuietRows, RowsStay, SessionsInv, TablesInv, TokenSet, Ends
  <1>7. ASSUME NEW id \in DOMAIN tokens'
        PROVE  /\ Names(tokens[id])'
               /\ tokens'[id].session = NoSession \/ session'[tokens'[id].session] = "live"
    <2>1. CASE tokens[id].session \in S
      <3>1. /\ tokens[id].session \in Sessions /\ tokens[id].session # NoSession
            /\ session[tokens[id].session] = "live"
        BY <1>1, <1>6, <2>1, GrantsAssumption DEF Ends
      <3>2. session'[tokens[id].session] = "gone" /\ tokens[id].session = grants[tokens[id].grant].session
        BY <1>1, <1>6, <2>1, <3>1 DEF Ends, Names
      <3> QED
        BY <1>2, <1>6, <2>1, <3>2 DEF Names
    <2>2. CASE tokens[id].session \notin S
      <3>1. tokens[id].session = NoSession \/ session'[tokens[id].session] = "live"
        BY <1>1, <1>6, <2>2 DEF Ends, TablesInv
      <3> QED
        BY <1>2, <1>3, <1>4, <1>6, <2>2, <3>1 DEF Names
    <2> QED
      BY <2>1, <2>2
  <1>8. ASSUME NEW q \in Requests, request'[q].pc = "insert" PROVE Names(request[q].row)'
    <2>1. request'[q].row.grant \in Grants /\ Names(request'[q].row)
      BY <1>8
    <2> QED
      BY <1>2, <1>3, <1>4, <2>1 DEF Names
  <1>9. \A f \in approved' : grants'[f].session = NoSession
    BY DEF QuietRows, SessionsInv
  <1> QED
    BY <1>5, <1>7, <1>8, <1>9 DEF SessionsInv

LEMMA QuietEnded ==
  ASSUME TablesInv, RunningInv, EndedInv, QuietRows, UNCHANGED <<handler, ended, excuse>>,
         \A f \in Grants : Extinct(f) => Extinct(f)'
  PROVE  EndedInv'
  <1>1. PICK S : Ends(S)
    BY DEF QuietRows
  <1>2. grants' = grants /\ Grants' = Grants
    BY DEF QuietRows, Grants
  <1>3. \A f \in Grants' : Judged(f)' /\ excuse'[f] = {} => Extinct(f)'
    BY <1>2 DEF EndedInv, Judged
  <1>4. handler' = handler /\ \A s \in handler.doomed : s \in Sessions
    BY DEF RunningInv, HandlerSet
  <1>5. \A s \in Sessions : session[s] = "gone" => session'[s] = "gone"
    BY <1>1 DEF Ends
  <1>6. ASSUME NEW s \in handler'.doomed \ handler'.listed, session'[s] # "gone", NEW f \in Grants',
               grants'[f].session = s
        PROVE  f > handler'.known
    <2>1. session[s] # "gone"
      BY <1>4, <1>5, <1>6
    <2> QED
      BY <1>2, <1>4, <1>6, <2>1 DEF EndedInv
  <1> QED
    BY <1>3, <1>6 DEF EndedInv

\* The requests' part of SpentInv.
Timely ==
    /\ \A q \in Requests : request[q].pc # "idle" =>
            request[q].since <= now /\ now - request[q].since <= MaxStall
    /\ \A q \in Requests : request[q].pc = "spend" =>
            /\ request[q].row <= issued
            /\ request[q].row \in DOMAIN tokens => tokens[request[q].row].expires >= request[q].since

LEMMA QuietSpent ==
  ASSUME TablesInv, RunningInv, SpentInv, QuietRows, DOMAIN tokens' = DOMAIN tokens, Timely',
         \A id \in 1..budget.tokens : spent'[id] = spent[id] \/
            /\ now' = now /\ spent'[id] = now
            /\ id \in DOMAIN tokens /\ tokens'[id].revoked = now /\ tokens[id].expires >= now - MaxStall
  PROVE  SpentInv'
  <1>1. /\ now \in Nat /\ now' \in Nat /\ now <= now' /\ issued' = issued
        /\ budget'.tokens = budget.tokens /\ RowsStay /\ now # Never
    BY GrantsAssumption DEF QuietRows, TablesInv, SameBounds
  <1>2. ASSUME NEW id \in 1..budget'.tokens, spent'[id] # Never
        PROVE  /\ id <= issued' /\ spent'[id] <= now'
               /\ id \in DOMAIN tokens' => /\ tokens'[id].revoked # Never /\ tokens'[id].revoked >= spent'[id]
                                           /\ tokens'[id].expires >= spent'[id] - MaxStall
    <2>4. CASE spent'[id] # spent[id]
      <3>1. id <= issued /\ tokens'[id].expires = tokens[id].expires
        BY <1>1, <1>2, <2>4 DEF RowsStay, TablesInv
      <3> QED
        BY <1>1, <1>2, <2>4, <3>1
    <2> SUFFICES ASSUME spent'[id] = spent[id]
                 PROVE  /\ id <= issued' /\ spent'[id] <= now'
                        /\ id \in DOMAIN tokens' => /\ tokens'[id].revoked # Never
                                                    /\ tokens'[id].revoked >= spent'[id]
                                                    /\ tokens'[id].expires >= spent'[id] - MaxStall
      BY <2>4
    <2>1. /\ id \in 1..budget.tokens /\ spent[id] \in Nat /\ spent[id] <= now /\ id <= issued
          /\ id \in DOMAIN tokens => /\ tokens[id].revoked # Never /\ tokens[id].revoked >= spent[id]
                                     /\ tokens[id].expires >= spent[id] - MaxStall
      BY <1>1, <1>2 DEF SpentInv, RunningInv
    <2>2. id \in DOMAIN tokens' => /\ tokens'[id].expires = tokens[id].expires
                                   /\ tokens'[id].revoked = tokens[id].revoked \/ tokens'[id].revoked = now
      BY <1>1 DEF RowsStay
    <2>3. spent'[id] = spent[id] /\ spent[id] <= now'
      BY <1>1, <2>1
    <2> QED
      BY <1>1, <2>1, <2>2, <2>3
  <1>3. SpentTokensAreRemembered'
    <2> SUFFICES ASSUME NEW id \in 1..budget'.tokens, spent'[id] # Never, now' - spent'[id] <= Grace - MaxStall
                 PROVE  id \in DOMAIN tokens'
      BY DEF SpentTokensAreRemembered
    <2>3. CASE spent'[id] # spent[id]
      BY <1>1, <2>3
    <2> SUFFICES ASSUME spent'[id] = spent[id] PROVE id \in DOMAIN tokens'
      BY <2>3
    <2>1. spent[id] \in Nat /\ Grace \in Nat /\ MaxStall \in Nat
      BY <1>1, GrantsAssumption DEF RunningInv
    <2>2. now - spent[id] <= Grace - MaxStall
      BY <1>1, <2>1
    <2> QED
      BY <1>1, <2>2 DEF SpentInv, SpentTokensAreRemembered
  <1> QED
    BY <1>2, <1>3 DEF SpentInv, Timely

\* A step that leaves the requests and the clock alone keeps them timely.
LEMMA StillTimely ==
  ASSUME TablesInv, SpentInv, QuietRows, UNCHANGED <<now, request>>
  PROVE  Timely'
  <1>1. RowsStay /\ issued' = issued
    BY DEF QuietRows
  <1> QED
    BY <1>1 DEF SpentInv, Timely, RowsStay

LEMMA QuietKeeps ==
  ASSUME GrantsInv, Quiet, RunningInv', EndedInv', SpentInv'
  PROVE  GrantsInv'
  <1>1. \A q \in Requests : request'[q].pc = "insert" =>
            request'[q].row.grant \in Grants /\ Names(request'[q].row)
    BY DEF Quiet, GrantsInv, RunningInv, SessionsInv
  <1> QED
    BY <1>1, QuietTables, QuietHeld, QuietSessions DEF GrantsInv, Quiet

\* A step of request q to r that neither spends nor inserts.
LEMMA RefreshKeeps ==
  ASSUME GrantsInv, NEW q \in Requests, NEW r \in RequestSet, Step(q, r), SameBounds, RowsStay,
         DOMAIN tokens' = DOMAIN tokens,
         \A id \in DOMAIN tokens' : tokens'[id].session = tokens[id].session,
         r.pc # "insert",
         r.pc = "idle" \/ r.row \in Nat,
         r.pc = "idle" \/ r.since = now \/ (request[q].pc # "idle" /\ r.since = request[q].since),
         r.pc = "spend" => r.row \in DOMAIN tokens /\ tokens[r.row].expires >= r.since,
         UNCHANGED <<now, standing, disabled, session, grants, approved, issued, handler, history>>
  PROVE  GrantsInv'
  <1>1. request' = [request EXCEPT ![q] = r] /\ request \in [Requests -> RequestSet]
    BY DEF Step, GrantsInv, RunningInv
  <1>2. /\ request'[q] = r
        /\ \A x \in Requests \ {q} : request'[x] = request[x]
        /\ request' \in [Requests -> RequestSet]
    BY <1>1
  <1>3. Ends({})
    BY NoneEnds DEF GrantsInv
  <1>4. \A x \in Requests : request'[x] = request[x] \/ request'[x].pc # "insert"
    BY <1>2
  <1>5. Quiet
    BY <1>3, <1>4 DEF Quiet, QuietRows, GrantsInv, TablesInv, history
  <1>6. \A x \in Requests :
            /\ request'[x].pc \in {"idle", "insert"} \/ request'[x].row \in Nat
            /\ request'[x].pc = "insert" => /\ request'[x].row \in TokenSet
                                            /\ request'[x].row.grant \in Grants'
    <2>1. Grants' = Grants
      BY DEF Grants
    <2> QED
      BY <1>2, <2>1 DEF GrantsInv, RunningInv
  <1>7. RunningInv'
    BY <1>2, <1>6 DEF GrantsInv, RunningInv, Grants, history, SameBounds
  <1>8. Timely'
    <2>1. now \in Nat /\ MaxStall \in Nat /\ \A id \in DOMAIN tokens : id <= issued
      BY GrantsAssumption DEF GrantsInv, TablesInv
    <2>2. \A x \in Requests : request'[x].pc # "idle" =>
            request'[x].since <= now' /\ now' - request'[x].since <= MaxStall
      BY <1>2, <2>1 DEF GrantsInv, SpentInv
    <2>3. RowsStay /\ \A x \in Requests : request'[x].pc = "spend" =>
            /\ request'[x].row <= issued
            /\ request'[x].row \in DOMAIN tokens => tokens[request'[x].row].expires >= request'[x].since
      BY <1>2, <2>1 DEF GrantsInv, SpentInv
    <2> QED
      BY <2>2, <2>3 DEF Timely, RowsStay
  <1>9. EndedInv' /\ SpentInv'
    BY <1>5, <1>8, QuietEnded, QuietExtinct, QuietSpent DEF Quiet, GrantsInv, history
  <1> QED
    BY <1>5, <1>7, <1>9, QuietKeeps

LEMMA PresentStep == ASSUME GrantsInv, NEW q \in Requests, NEW id \in DOMAIN tokens \cup {0}, Present(q, id)
                     PROVE  GrantsInv'
  <1> DEFINE r == [pc |-> "ceiling", row |-> id, over |-> {}, since |-> now]
  <1>1. id \in Nat /\ now \in Nat
    BY DEF GrantsInv, TablesInv
  <1>2. r \in RequestSet /\ r.pc = "ceiling" /\ r.row \in Nat /\ r.since = now
    BY <1>1 DEF RequestSet
  <1>3. /\ Step(q, r) /\ UNCHANGED <<budget, tokens>>
        /\ UNCHANGED <<now, standing, disabled, session, grants, approved, issued, handler, history>>
    BY DEF Present, store
  <1>4. SameBounds /\ RowsStay
    BY <1>3, SameBoundsKept, NothingChanges DEF GrantsInv
  <1> HIDE DEF r
  <1> QED
    BY <1>2, <1>3, <1>4, RefreshKeeps

LEMMA RequestTypes ==
  ASSUME GrantsInv, NEW q \in Requests
  PROVE  /\ request[q] \in RequestSet /\ Idle \in RequestSet /\ Idle.pc = "idle"
         /\ OverAge \in SUBSET Nat
         /\ \A pc \in {"over", "lookup", "spend"}, over \in SUBSET Nat :
                LET r == [request[q] EXCEPT !.pc = pc, !.over = over] IN
                /\ r \in RequestSet /\ r.pc = pc /\ r.row = request[q].row /\ r.since = request[q].since
  <1>1. request[q] \in RequestSet
    BY DEF GrantsInv, RunningInv
  <1>2. Grants \subseteq Nat
    BY DEF Grants
  <1> QED
    BY <1>1, <1>2 DEF RequestSet, Idle, OverAge

LEMMA CeilingStep ==
  ASSUME GrantsInv, NEW q \in Requests, SelectOverAge(q) \/ RevokeOverAge(q) \/ CeilingFails(q)
  PROVE  GrantsInv'
  <1> USE DEF store
  <1>1. request[q].pc \in {"ceiling", "over"} /\ request[q].row \in Nat
    BY DEF SelectOverAge, RevokeOverAge, CeilingFails, GrantsInv, RunningInv
  <1>2. PICK pc \in {"over", "lookup"}, over \in SUBSET Nat :
            Step(q, [request[q] EXCEPT !.pc = pc, !.over = over])
    <2>1. OverAge \in SUBSET Nat /\ {} \in SUBSET Nat
      BY RequestTypes
    <2> QED
      BY <2>1 DEF SelectOverAge, RevokeOverAge, CeilingFails
  <1> DEFINE r == [request[q] EXCEPT !.pc = pc, !.over = over]
  <1>3. r \in RequestSet /\ r.pc \in {"over", "lookup"} /\ r.row \in Nat /\ r.since = request[q].since
    <2>1. request[q] \in RequestSet
      BY RequestTypes
    <2> QED
      BY <1>1, <2>1 DEF RequestSet
  <1>4. SameBounds
    BY SameBoundsKept, EventCounted DEF SelectOverAge, RevokeOverAge, CeilingFails, GrantsInv
  <1>5. tokens' = tokens \/ \E S : tokens' = Revoked(S)
    BY DEF SelectOverAge, RevokeOverAge, CeilingFails
  <1>6. /\ RowsStay /\ DOMAIN tokens' = DOMAIN tokens
        /\ \A id \in DOMAIN tokens' : tokens'[id].session = tokens[id].session
    BY <1>5, NothingChanges, RevocationStays, RevokedRows DEF GrantsInv
  <1>7. UNCHANGED <<now, standing, disabled, session, grants, approved, issued, handler, history>>
    BY DEF SelectOverAge, RevokeOverAge, CeilingFails
  <1>8. Step(q, r)
    BY <1>2
  <1> HIDE DEF r
  <1> QED
    BY <1>1, <1>3, <1>4, <1>6, <1>7, <1>8, RefreshKeeps

LEMMA LookupStep == ASSUME GrantsInv, NEW q \in Requests, Lookup(q) PROVE GrantsInv'
  <1> DEFINE id == request[q].row
             on == [request[q] EXCEPT !.pc = "spend"]
  <1>1. /\ request[q].pc = "lookup" /\ id \in Nat
        /\ UNCHANGED <<now, standing, disabled, session, grants, approved, issued, handler, history>>
        /\ UNCHANGED budget
    BY DEF Lookup, GrantsInv, RunningInv
  <1>2. SameBounds
    BY <1>1, SameBoundsKept DEF GrantsInv
  <1>3. CASE Step(q, on) /\ UNCHANGED tokens /\ Unrevoked(id) /\ now <= tokens[id].expires
    <2>1. on \in RequestSet /\ on.pc = "spend" /\ on.row = id /\ on.since = request[q].since
      BY RequestTypes DEF RequestSet
    <2>2. on.row \in DOMAIN tokens /\ tokens[on.row].expires >= on.since
      <3>1. id \in DOMAIN tokens /\ now <= tokens[id].expires
        BY <1>3 DEF Unrevoked
      <3>2. tokens[id].expires \in Nat /\ now \in Nat /\ request[q].since \in Nat
        BY <3>1, RequestTypes DEF GrantsInv, TablesInv, TokenSet, RequestSet
      <3>3. request[q].since <= now
        BY <1>1 DEF GrantsInv, SpentInv
      <3> QED
        BY <2>1, <3>1, <3>2, <3>3
    <2>3. /\ RowsStay /\ DOMAIN tokens' = DOMAIN tokens
          /\ \A i \in DOMAIN tokens' : tokens'[i].session = tokens[i].session
      BY <1>3, NothingChanges DEF GrantsInv
    <2>4. Step(q, on)
      BY <1>3
    <2> HIDE DEF on
    <2> QED
      BY <1>1, <1>2, <2>1, <2>2, <2>3, <2>4, RefreshKeeps
  <1>4. CASE Step(q, Idle) /\ (tokens' = tokens \/ \E S : tokens' = Revoked(S))
    <2>1. /\ RowsStay /\ DOMAIN tokens' = DOMAIN tokens
          /\ \A i \in DOMAIN tokens' : tokens'[i].session = tokens[i].session
      BY <1>4, NothingChanges, RevocationStays, RevokedRows DEF GrantsInv
    <2>2. Idle \in RequestSet /\ Idle.pc = "idle"
      BY RequestTypes
    <2> QED
      BY <1>1, <1>2, <1>4, <2>1, <2>2, RefreshKeeps
  <1> QED
    BY <1>3, <1>4 DEF Lookup

LEMMA DieStep == ASSUME GrantsInv, NEW q \in Requests, Die(q) PROVE GrantsInv'
  <1>1. /\ Step(q, Idle) /\ UNCHANGED <<budget, tokens>>
        /\ UNCHANGED <<now, standing, disabled, session, grants, approved, issued, handler, history>>
    BY DEF Die, store
  <1>2. Idle \in RequestSet /\ Idle.pc = "idle"
    BY RequestTypes
  <1>3. SameBounds /\ RowsStay
    BY <1>1, SameBoundsKept, NothingChanges DEF GrantsInv
  <1> QED
    BY <1>1, <1>2, <1>3, RefreshKeeps

-----------------------------------------------------------------------------
(* The steps that move a grant between a device code, a token and a rotation, *)
(* and those that give one.                                                *)

\* The compare-and-set fails: the request ends.
LEMMA SpendRefused ==
  ASSUME GrantsInv, NEW q \in Requests, Spend(q), ~Unrevoked(request[q].row)
  PROVE  GrantsInv'
  <1>1. /\ Step(q, Idle)
        /\ tokens' = tokens \/ \E S : tokens' = Revoked(S)
        /\ UNCHANGED <<now, standing, disabled, session, grants, approved, issued, handler, history>>
        /\ UNCHANGED budget
    BY DEF Spend, history
  <1>2. /\ RowsStay /\ DOMAIN tokens' = DOMAIN tokens
        /\ \A i \in DOMAIN tokens' : tokens'[i].session = tokens[i].session
    BY <1>1, NothingChanges, RevocationStays, RevokedRows DEF GrantsInv
  <1>3. Idle \in RequestSet /\ Idle.pc = "idle" /\ SameBounds
    BY <1>1, RequestTypes, SameBoundsKept DEF GrantsInv
  <1> QED
    BY <1>1, <1>2, <1>3, RefreshKeeps

\* The token of f that is spent leaves the grant to the request alone.
LEMMA SpendSucceeds ==
  ASSUME GrantsInv, NEW q \in Requests, Spend(q), Unrevoked(request[q].row)
  PROVE  GrantsInv'
  <1> DEFINE id == request[q].row
             row == tokens[id]
             r == [request[q] EXCEPT !.pc = "insert", !.row = row]
  <1>1. /\ request[q].pc = "spend" /\ id \in DOMAIN tokens /\ tokens[id].revoked = Never
        /\ tokens' = Revoked({id}) /\ spent' = [spent EXCEPT ![id] = now] /\ Step(q, r)
        /\ UNCHANGED <<now, standing, disabled, session, grants, approved, issued, handler, budget, ended, excuse>>
    BY DEF Spend, Unrevoked
  <1>2. /\ row \in TokenSet /\ row.grant \in Grants /\ Names(row) /\ id \in 1..budget.tokens
    BY <1>1 DEF GrantsInv, TablesInv, SessionsInv, BudgetSet
  <1>3. /\ request'[q] = r /\ \A x \in Requests \ {q} : request'[x] = request[x]
        /\ request' \in [Requests -> RequestSet]
        /\ r.pc = "insert" /\ r.row = row /\ r.since = request[q].since
    <2>1. request' = [request EXCEPT ![q] = r] /\ request \in [Requests -> RequestSet]
      BY <1>1 DEF Step, GrantsInv, RunningInv
    <2>2. request[q] \in RequestSet
      BY <2>1
    <2>3. r \in RequestSet /\ r.pc = "insert" /\ r.row = row /\ r.since = request[q].since
      BY <1>2, <2>2 DEF RequestSet
    <2> HIDE DEF r
    <2> QED
      BY <2>1, <2>3
  <1> HIDE DEF r, row
  <1>4. /\ RowsStay /\ DOMAIN tokens' = DOMAIN tokens /\ tokens'[id].revoked = now
        /\ \A i \in DOMAIN tokens' : tokens'[i].session = tokens[i].session
    BY <1>1, RevocationStays, RevokedRows DEF GrantsInv
  <1>5. QuietRows
    <2>1. Ends({})
      BY <1>1, <1>4, NoneEnds DEF GrantsInv
    <2>2. SameBounds
      BY <1>1, SameBoundsKept DEF GrantsInv
    <2> QED
      BY <1>1, <1>4, <2>1, <2>2 DEF QuietRows, GrantsInv, TablesInv
  <1>6. Grants' = Grants
    BY <1>1 DEF Grants
  <1>7. TablesInv'
    BY <1>5, QuietTables DEF GrantsInv
  <1>8. RunningInv'
    <2>1. \A x \in Requests :
            /\ request'[x].pc \in {"idle", "insert"} \/ request'[x].row \in Nat
            /\ request'[x].pc = "insert" => /\ request'[x].row \in TokenSet
                                            /\ request'[x].row.grant \in Grants'
      BY <1>2, <1>3, <1>6 DEF GrantsInv, RunningInv
    <2>2. spent' \in [1..budget'.tokens -> Nat \cup {Never}]
      BY <1>1 DEF GrantsInv, RunningInv, TablesInv
    <2> QED
      BY <1>1, <1>3, <1>6, <2>1, <2>2 DEF GrantsInv, RunningInv
  <1>9. \A f \in Grants : \A i \in DOMAIN tokens : Good(i, f)' => Good(i, f) /\ i # id
    <2>1. \A i, f : Good(i, f)' => Good(i, f)
      BY <1>5, QuietGood DEF GrantsInv
    <2>2. now # Never
      BY GrantsAssumption DEF GrantsInv, TablesInv
    <2> QED
      BY <1>4, <2>1, <2>2 DEF Good
  <1>10. \A x \in Requests, f \in Grants :
            Inserting(x, f)' <=> (x = q /\ f = row.grant) \/ (x # q /\ Inserting(x, f))
    BY <1>3 DEF Inserting
  <1>11. Good(id, row.grant)
    BY <1>1 DEF Good, row
  <1>12. HeldOnce'
    <2> PICK g \in Grants : g = row.grant
      BY <1>2
    <2>1. Good(id, g) /\ id \in DOMAIN tokens
      BY <1>1, <1>11
    <2>2. /\ \A i, j \in DOMAIN tokens : Good(i, g) /\ Good(j, g) => i = j
          /\ \A x \in Requests : ~Inserting(x, g)
          /\ g \notin approved
      BY <2>1 DEF GrantsInv, HeldOnce
    <2>3. \A i \in DOMAIN tokens : ~Good(i, g)'
      BY <1>9, <2>1, <2>2
    <2> SUFFICES ASSUME NEW f \in Grants
                 PROVE  /\ \A i, j \in DOMAIN tokens' : Good(i, f)' /\ Good(j, f)' => i = j
                        /\ \A x, y \in Requests : Inserting(x, f)' /\ Inserting(y, f)' => x = y
                        /\ \A x \in Requests : Inserting(x, f)' =>
                                f \notin approved /\ \A i \in DOMAIN tokens' : ~Good(i, f)'
                        /\ f \in approved => \A i \in DOMAIN tokens' : ~Good(i, f)'
      BY <1>1, <1>6 DEF HeldOnce
    <2>4. \A x \in Requests : Inserting(x, f)' <=> (x = q /\ f = g) \/ (x # q /\ Inserting(x, f))
      BY <1>10
    <2>5. CASE f = g
      BY <1>4, <2>2, <2>3, <2>4, <2>5
    <2>6. CASE f # g
      <3>1. /\ \A x \in Requests : Inserting(x, f)' => Inserting(x, f)
            /\ \A i \in DOMAIN tokens : Good(i, f)' => Good(i, f)
        BY <1>9, <2>4, <2>6
      <3> QED
        BY <1>4, <3>1 DEF GrantsInv, HeldOnce
    <2> QED
      BY <2>5, <2>6
  <1>13. SessionsInv'
    <2>1. \A x \in Requests : request'[x].pc = "insert" =>
            request'[x].row.grant \in Grants /\ Names(request'[x].row)
      BY <1>2, <1>3 DEF GrantsInv, RunningInv, SessionsInv
    <2> QED
      BY <1>5, <2>1, QuietSessions DEF GrantsInv
  <1>14. EndedInv'
    <2>1. \A f \in Grants : Extinct(f) => Extinct(f)'
      BY <1>1, <1>4, <1>9, <1>10, <1>11 DEF Extinct
    <2> QED
      BY <1>1, <1>5, <2>1, QuietEnded DEF GrantsInv
  <1>15. SpentInv'
    <2>1. /\ tokens[id].expires >= request[q].since /\ now - request[q].since <= MaxStall
          /\ request[q].since <= now
      BY <1>1 DEF GrantsInv, SpentInv
    <2>2. tokens[id].expires \in Nat /\ request[q].since \in Nat /\ now \in Nat /\ MaxStall \in Nat
      BY <1>1, <1>2, RequestTypes, GrantsAssumption DEF TokenSet, RequestSet, GrantsInv, TablesInv, row
    <2>3. tokens[id].expires >= now - MaxStall
      BY <2>1, <2>2
    <2>4. \A i \in 1..budget.tokens : spent'[i] = IF i = id THEN now ELSE spent[i]
      BY <1>1 DEF GrantsInv, RunningInv
    <2>5. Timely'
      <3>1. \A x \in Requests : request'[x].pc # "idle" =>
                /\ request[x].pc # "idle" /\ request'[x].since = request[x].since
                /\ request'[x].pc = "spend" => request[x].pc = "spend" /\ request'[x].row = request[x].row
        BY <1>1, <1>3
      <3>2. \A i \in DOMAIN tokens : tokens'[i].expires = tokens[i].expires
        BY <1>4 DEF RowsStay
      <3>3. now' = now /\ issued' = issued /\ DOMAIN tokens' = DOMAIN tokens
        BY <1>1, <1>4
      <3> QED
        BY <3>1, <3>2, <3>3 DEF Timely, GrantsInv, SpentInv
    <2> QED
      BY <1>1, <1>4, <1>5, <2>3, <2>4, <2>5, QuietSpent DEF GrantsInv
  <1> QED
    BY <1>7, <1>8, <1>12, <1>13, <1>14, <1>15 DEF GrantsInv

LEMMA Inserted ==
  ASSUME TablesInv, NEW f \in Nat, NEW s \in Sessions \cup {NoSession}, Insert(f, s)
  PROVE  /\ issued' = issued + 1 /\ issued' <= budget.tokens
         /\ DOMAIN tokens' = DOMAIN tokens \cup {issued + 1} /\ issued + 1 \notin DOMAIN tokens
         /\ \A id \in DOMAIN tokens : tokens'[id] = tokens[id]
         /\ tokens' \in [DOMAIN tokens' -> TokenSet]
         /\ tokens'[issued + 1].grant = f /\ tokens'[issued + 1].session = s
         /\ tokens'[issued + 1].at = now /\ tokens'[issued + 1].revoked = Never
  <1>1. now \in Nat /\ now + Ttl \in Nat /\ issued \in Nat /\ budget.tokens \in Nat
    BY GrantsAssumption DEF TablesInv, BudgetSet
  <1>2. Row(f, s) \in TokenSet
    BY <1>1 DEF Row, TokenSet
  <1>3. /\ DOMAIN tokens' = DOMAIN tokens \cup {issued + 1} /\ issued + 1 \notin DOMAIN tokens
        /\ tokens'[issued + 1] = Row(f, s) /\ \A id \in DOMAIN tokens : tokens'[id] = tokens[id]
        /\ tokens' = [id \in DOMAIN tokens' |-> tokens'[id]]
    BY <1>1 DEF Insert, TablesInv
  <1>4. \A id \in DOMAIN tokens' : tokens'[id] \in TokenSet
    BY <1>2, <1>3 DEF TablesInv
  <1>5. tokens' \in [DOMAIN tokens' -> TokenSet]
    BY <1>3, <1>4
  <1>6. /\ Row(f, s).grant = f /\ Row(f, s).session = s /\ Row(f, s).at = now /\ Row(f, s).revoked = Never
    BY DEF Row
  <1> QED
    BY <1>1, <1>3, <1>5, <1>6 DEF Insert

\* Where the new grants f of the table, if any, come from.
Extends(f) ==
    /\ grants' \in Seq(GrantSet) /\ Len(grants) <= Len(grants') /\ Len(grants') <= budget.grants
    /\ f \in Grants' /\ \A g \in Grants' : g \in Grants \/ g = f
    /\ \A g \in Grants' : grants'[g].at <= now
    /\ \A g \in Grants : grants'[g].user = grants[g].user /\ grants'[g].session = grants[g].session
    /\ f \notin Grants => /\ f > Len(grants)
                          /\ grants'[f].session # NoSession =>
                                /\ session[grants'[f].session] = "live"
                                /\ grants'[f].user = UserOf[grants'[f].session]

\* What giving a grant, or moving one, does not disturb.
LEMMA ExtendsKeeps ==
  ASSUME GrantsInv, NEW f, Extends(f), f \notin Grants \/ ~Extinct(f),
         UNCHANGED <<session, handler, ended, excuse>>,
         \A g \in Grants : g # f /\ Extinct(g) => Extinct(g)'
  PROVE  /\ Grants \subseteq Grants' /\ handler'.known <= Len(grants') /\ ended' \subseteq Grants'
         /\ EndedInv'
         /\ \A row : row.grant \in Grants /\ Names(row) => Names(row)'
         /\ \A g \in Grants' : grants'[g].session # NoSession =>
                /\ session'[grants'[g].session] # "unused"
                /\ grants'[g].user = UserOf[grants'[g].session]
  <1>1. Len(grants) \in Nat /\ Len(grants') \in Nat /\ handler.known \in Nat /\ handler.known <= Len(grants)
    BY DEF GrantsInv, TablesInv, RunningInv, HandlerSet, Extends
  <1>2. /\ Grants \subseteq Grants' /\ handler'.known <= Len(grants') /\ ended' \subseteq Grants'
        /\ f \notin Grants => f > handler.known /\ f \notin ended
    <2>1. f \in Nat
      BY DEF Extends, Grants
    <2> QED
      BY <1>1, <2>1 DEF Extends, Grants, GrantsInv, RunningInv
  <1>3. \A g \in Grants' : Judged(g)' => g \in Grants /\ Judged(g)
    <2> SUFFICES ASSUME NEW g \in Grants', Judged(g)' PROVE g \in Grants /\ Judged(g)
      OBVIOUS
    <2>1. g \in ended \/ g <= handler.known
      BY DEF Judged
    <2>2. g \in Grants
      <3>1. g \in Nat
        BY <1>1 DEF Grants
      <3> QED
        BY <1>1, <1>2, <2>1, <3>1 DEF Extends
    <2> QED
      BY <2>2 DEF Judged, Extends
  <1>4. \A g \in Grants' : Judged(g)' /\ excuse'[g] = {} => Extinct(g)'
    BY <1>2, <1>3 DEF GrantsInv, EndedInv
  <1>5. ASSUME NEW s \in handler'.doomed \ handler'.listed, session'[s] # "gone", NEW g \in Grants',
               grants'[g].session = s
        PROVE  g > handler'.known
    <2>1. CASE g \in Grants
      BY <1>5, <2>1 DEF GrantsInv, EndedInv, Extends
    <2>2. CASE g \notin Grants
      BY <1>2, <2>2 DEF Extends
    <2> QED
      BY <2>1, <2>2
  <1>6. EndedInv'
    BY <1>4, <1>5 DEF EndedInv
  <1>7. \A row : row.grant \in Grants /\ Names(row) => Names(row)'
    BY DEF Names, Extends
  <1>8. \A g \in Grants' : grants'[g].session # NoSession =>
                /\ session'[grants'[g].session] # "unused"
                /\ grants'[g].user = UserOf[grants'[g].session]
    BY DEF Extends, GrantsInv, SessionsInv
  <1> QED
    BY <1>2, <1>6, <1>7, <1>8

\* A token of f is inserted, by whoever held f or gives it.
LEMMA InsertKeeps ==
  ASSUME GrantsInv, NEW f, NEW s \in Sessions \cup {NoSession}, Extends(f), Insert(f, s),
         f \notin Grants \/ ~Extinct(f),
         \A id \in DOMAIN tokens : ~Good(id, f),
         approved' \subseteq approved, f \notin approved', \A g \in approved : g = f \/ g \in approved',
         \A q \in Requests : request'[q] = request[q] \/ request'[q] = Idle,
         \A q \in Requests : ~Inserting(q, f)',
         request' \in [Requests -> RequestSet],
         s = NoSession \/ (s = grants'[f].session /\ session[s] = "live"),
         s = NoSession /\ grants'[f].session # NoSession => session[grants'[f].session] = "gone",
         UNCHANGED <<now, standing, disabled, session, handler, budget, history>>
  PROVE  GrantsInv'
  <1>1. f \in Nat /\ f \in Grants' /\ Grants \subseteq Grants'
    BY DEF Extends, Grants
  <1>3. issued \in Nat /\ issued + 1 \in Nat /\ now \in Nat /\ DOMAIN tokens \subseteq 1..issued
    BY DEF GrantsInv, TablesInv
  <1> PICK new \in Nat : new = issued + 1
    BY <1>3
  <1>2. /\ issued' = new /\ issued' <= budget.tokens
        /\ DOMAIN tokens' = DOMAIN tokens \cup {new} /\ new \notin DOMAIN tokens
        /\ \A id \in DOMAIN tokens : tokens'[id] = tokens[id]
        /\ tokens' \in [DOMAIN tokens' -> TokenSet]
        /\ tokens'[new].grant = f /\ tokens'[new].session = s
        /\ tokens'[new].at = now /\ tokens'[new].revoked = Never
    BY <1>1, Inserted DEF GrantsInv
  <1>4. \A q \in Requests : request'[q].pc # "idle" => request'[q] = request[q]
    BY DEF Idle
  <1>5. TablesInv'
    <2>1. \A id \in DOMAIN tokens' : /\ tokens'[id].grant \in Grants' /\ tokens'[id].at <= now
                                     /\ tokens'[id].revoked # Never => tokens'[id].revoked <= now
      BY <1>1, <1>2, <1>3 DEF GrantsInv, TablesInv
    <2>2. DOMAIN tokens' \subseteq 1..issued'
      BY <1>2, <1>3
    <2>3. approved' \subseteq Grants'
      BY <1>1 DEF GrantsInv, TablesInv
    <2> QED
      BY <1>2, <1>3, <2>1, <2>2, <2>3 DEF GrantsInv, TablesInv, Extends
  <1>6. \A g \in Grants : g # f /\ Extinct(g) => Extinct(g)'
    BY <1>2, <1>4 DEF Extinct, Good, Inserting
  <1>7. /\ Grants \subseteq Grants' /\ handler'.known <= Len(grants') /\ ended' \subseteq Grants'
        /\ EndedInv'
        /\ \A row : row.grant \in Grants /\ Names(row) => Names(row)'
        /\ \A g \in Grants' : grants'[g].session # NoSession =>
               /\ session'[grants'[g].session] # "unused"
               /\ grants'[g].user = UserOf[grants'[g].session]
    BY <1>6, ExtendsKeeps DEF history
  <1>8. RunningInv'
    <2>1. \A q \in Requests :
            /\ request'[q].pc \in {"idle", "insert"} \/ request'[q].row \in Nat
            /\ request'[q].pc = "insert" => /\ request'[q].row \in TokenSet
                                            /\ request'[q].row.grant \in Grants'
      BY <1>1, <1>4 DEF GrantsInv, RunningInv
    <2> QED
      BY <1>7, <2>1 DEF GrantsInv, RunningInv, history
  <1>9. \A id, g : Good(id, g)' => (id = new /\ g = f) \/ (id # new /\ g # f /\ Good(id, g))
    BY <1>2 DEF Good
  <1>10. HeldOnce'
    <2> SUFFICES ASSUME NEW g \in Grants'
                 PROVE  /\ \A i, j \in DOMAIN tokens' : Good(i, g)' /\ Good(j, g)' => i = j
                        /\ \A x, y \in Requests : Inserting(x, g)' /\ Inserting(y, g)' => x = y
                        /\ \A x \in Requests : Inserting(x, g)' =>
                                g \notin approved' /\ \A i \in DOMAIN tokens' : ~Good(i, g)'
                        /\ g \in approved' => \A i \in DOMAIN tokens' : ~Good(i, g)'
      BY DEF HeldOnce
    <2>1. CASE g = f
      BY <1>9, <2>1
    <2>2. CASE g # f
      <3>1. g \in Grants
        BY <2>2 DEF Extends
      <3>2. /\ \A x \in Requests : Inserting(x, g)' => Inserting(x, g)
            /\ \A i : Good(i, g)' => Good(i, g) /\ i \in DOMAIN tokens
        BY <1>4, <1>9, <2>2 DEF Inserting, Good
      <3> QED
        BY <3>1, <3>2 DEF GrantsInv, HeldOnce
    <2> QED
      BY <2>1, <2>2
  <1>11. SessionsInv'
    <2>1. ASSUME NEW id \in DOMAIN tokens'
          PROVE  /\ Names(tokens[id])'
                 /\ tokens'[id].session = NoSession \/ session'[tokens'[id].session] = "live"
      <3>1. CASE id \in DOMAIN tokens
        <4>1. tokens'[id] = tokens[id] /\ tokens[id].grant \in Grants /\ Names(tokens[id])
          BY <1>2, <3>1 DEF GrantsInv, TablesInv, SessionsInv
        <4>2. PICK row : row = tokens[id]
          OBVIOUS
        <4>3. Names(row)' /\ row = tokens'[id]
          BY <1>7, <4>1, <4>2
        <4> QED
          BY <3>1, <4>1, <4>3 DEF GrantsInv, SessionsInv, Names
      <3>2. CASE id = new
        BY <1>2, <3>2 DEF Names
      <3> QED
        BY <1>2, <2>1, <3>1, <3>2
    <2>2. ASSUME NEW q \in Requests, request'[q].pc = "insert" PROVE Names(request[q].row)'
      <3>1. request'[q] = request[q] /\ request[q].row.grant \in Grants /\ Names(request[q].row)
        BY <1>4, <2>2 DEF GrantsInv, RunningInv, SessionsInv
      <3>2. PICK row : row = request[q].row
        OBVIOUS
      <3>3. Names(row)' /\ row = request'[q].row
        BY <1>7, <3>1, <3>2
      <3> QED
        BY <3>3 DEF Names
    <2>3. \A g \in approved' : grants'[g].session = NoSession
      BY DEF GrantsInv, SessionsInv, TablesInv, Extends
    <2> QED
      BY <1>7, <2>1, <2>2, <2>3 DEF SessionsInv
  <1>12. SpentInv'
    <2>1. \A q \in Requests : request'[q].pc # "idle" =>
            request'[q].since <= now /\ now - request'[q].since <= MaxStall
      BY <1>4 DEF GrantsInv, SpentInv
    <2>2. ASSUME NEW q \in Requests, request'[q].pc = "spend"
          PROVE  /\ request'[q].row <= issued'
                 /\ request'[q].row \in DOMAIN tokens' => tokens'[request'[q].row].expires >= request'[q].since
      <3>1. request'[q] = request[q] /\ request[q].row \in Nat /\ request[q].row <= issued
        BY <1>4, <2>2 DEF GrantsInv, SpentInv, RunningInv
      <3>2. request[q].row # new /\ request[q].row <= issued'
        BY <1>2, <1>3, <3>1
      <3> QED
        BY <1>2, <2>2, <3>1, <3>2 DEF GrantsInv, SpentInv
    <2>3. ASSUME NEW id \in 1..budget.tokens, spent[id] # Never
          PROVE  /\ id <= issued' /\ spent[id] <= now
                 /\ id \in DOMAIN tokens' => /\ tokens'[id].revoked # Never /\ tokens'[id].revoked >= spent[id]
                                             /\ tokens'[id].expires >= spent[id] - MaxStall
      <3>1. id \in Nat /\ id <= issued
        BY <2>3, <1>3 DEF GrantsInv, SpentInv
      <3>2. id # new /\ id <= issued'
        BY <1>2, <1>3, <3>1
      <3> QED
        BY <1>2, <2>3, <3>2 DEF GrantsInv, SpentInv
    <2>4. SpentTokensAreRemembered'
      BY <1>2 DEF GrantsInv, SpentInv, SpentTokensAreRemembered, history
    <2> QED
      BY <2>1, <2>2, <2>3, <2>4 DEF SpentInv, history
  <1> QED
    BY <1>5, <1>7, <1>8, <1>10, <1>11, <1>12 DEF GrantsInv

LEMMA SucceedStep == ASSUME GrantsInv, NEW q \in Requests, Succeed(q) PROVE GrantsInv'
  <1>1. /\ request[q].pc = "insert" /\ Step(q, Idle)
        /\ UNCHANGED <<now, standing, disabled, session, grants, approved, handler, budget, history>>
    BY DEF Succeed
  <1>2. PICK f, s : f = request[q].row.grant /\ s = request[q].row.session
    OBVIOUS
  <1>3. f \in Grants /\ s \in Sessions \cup {NoSession} /\ Names(request[q].row)
    BY <1>1, <1>2 DEF GrantsInv, RunningInv, TokenSet, SessionsInv
  <1>4. CASE UNCHANGED <<tokens, issued>>
    <2>1. Idle \in RequestSet /\ Idle.pc = "idle"
      BY RequestTypes
    <2>2. SameBounds /\ RowsStay
      BY <1>1, <1>4, SameBoundsKept, NothingChanges DEF GrantsInv
    <2> QED
      BY <1>1, <1>4, <2>1, <2>2, RefreshKeeps
  <1>5. CASE Insert(f, s) /\ (s = NoSession \/ session[s] = "live")
    <2>1. /\ request'[q] = Idle /\ request' \in [Requests -> RequestSet]
          /\ \A x \in Requests \ {q} : request'[x] = request[x]
      <3>1. Idle \in RequestSet /\ request \in [Requests -> RequestSet]
        BY RequestTypes DEF GrantsInv, RunningInv
      <3> QED
        BY <1>1, <3>1 DEF Step
    <2>2. Inserting(q, f)
      BY <1>1, <1>2 DEF Inserting
    <2>3. /\ f \notin approved /\ \A id \in DOMAIN tokens : ~Good(id, f)
          /\ \A x \in Requests : Inserting(x, f) => x = q
      BY <1>3, <2>2 DEF GrantsInv, HeldOnce
    <2>4. ~Extinct(f)
      BY <2>2 DEF Extinct
    <2>5. \A x \in Requests : ~Inserting(x, f)'
      BY <2>1, <2>3 DEF Inserting, Idle
    <2>6. Extends(f)
      BY <1>1, <1>3 DEF Extends, GrantsInv, TablesInv, Grants
    <2>7. /\ s = NoSession \/ (s = grants'[f].session /\ session[s] = "live")
          /\ s = NoSession /\ grants'[f].session # NoSession => session[grants'[f].session] = "gone"
      BY <1>1, <1>2, <1>3, <1>5 DEF Names
    <2> QED
      BY <1>1, <1>3, <1>5, <2>1, <2>3, <2>4, <2>5, <2>6, <2>7, InsertKeeps
  <1> QED
    BY <1>2, <1>4, <1>5 DEF Succeed

\* A grant to be given is nobody's yet.
LEMMA NewGrant ==
  ASSUME GrantsInv, NEW u \in Users, NEW c \in Clients, NEW s \in Sessions \cup {NoSession},
         Grant(u, c, s), s # NoSession => session[s] = "live" /\ UserOf[s] = u
  PROVE  LET f == Len(grants) + 1 IN
         /\ Extends(f) /\ f \notin Grants /\ f \in Nat /\ grants'[f].session = s
         /\ \A id \in DOMAIN tokens : ~Good(id, f)
         /\ \A q \in Requests : ~Inserting(q, f)
         /\ f \notin approved
  <1> DEFINE g == [user |-> u, client |-> c, session |-> s, at |-> now]
  <1>1. /\ now \in Nat /\ grants \in Seq(GrantSet) /\ Len(grants) \in Nat /\ budget.grants \in Nat
        /\ Len(grants) < budget.grants
    BY DEF GrantsInv, TablesInv, BudgetSet, Grant
  <1>2. g \in GrantSet /\ g.user = u /\ g.session = s /\ g.at = now
    BY <1>1 DEF GrantSet
  <1> HIDE DEF g
  <1>3. grants' = Append(grants, g)
    BY DEF Grant, g
  <1> HIDE DEF GrantSet
  <1>4. /\ grants' \in Seq(GrantSet) /\ Len(grants') = Len(grants) + 1
        /\ grants'[Len(grants) + 1] = g
        /\ \A i \in 1..Len(grants) : grants'[i] = grants[i]
    BY <1>1, <1>2, <1>3
  <1>5. Len(grants) + 1 \notin Grants /\ \A i \in Grants' : i \in Grants \/ i = Len(grants) + 1
    BY <1>1, <1>4 DEF Grants
  <1>6. Extends(Len(grants) + 1)
    BY <1>1, <1>2, <1>4, <1>5 DEF Extends, Grants, GrantsInv, TablesInv
  <1>7. /\ \A id \in DOMAIN tokens : tokens[id].grant \in Grants
        /\ \A q \in Requests : request[q].pc = "insert" => request[q].row.grant \in Grants
        /\ approved \subseteq Grants
    BY DEF GrantsInv, TablesInv, RunningInv
  <1> QED
    BY <1>1, <1>2, <1>4, <1>5, <1>6, <1>7 DEF Good, Inserting

LEMMA AuthorizeStep ==
  ASSUME GrantsInv, NEW s \in Sessions, NEW c \in Clients, Authorize(s, c)
  PROVE  GrantsInv'
  <1>1. PICK f : f = Len(grants) + 1
    OBVIOUS
  <1>2. /\ session[s] = "live" /\ UserOf[s] \in Users /\ s # NoSession
        /\ Grant(UserOf[s], c, s) /\ Insert(f, s)
        /\ UNCHANGED <<now, standing, disabled, session, approved, request, handler, budget, history>>
    BY <1>1, GrantsAssumption DEF Authorize
  <1>3. /\ Extends(f) /\ f \notin Grants /\ grants'[f].session = s
        /\ \A id \in DOMAIN tokens : ~Good(id, f)
        /\ \A q \in Requests : ~Inserting(q, f)
        /\ f \notin approved
    BY <1>1, <1>2, NewGrant
  <1>4. /\ \A q \in Requests : ~Inserting(q, f)'
        /\ request' \in [Requests -> RequestSet]
    BY <1>2, <1>3 DEF Inserting, GrantsInv, RunningInv
  <1> QED
    BY <1>2, <1>3, <1>4, InsertKeeps

LEMMA RedeemStep == ASSUME GrantsInv, NEW f \in Grants, Redeem(f) PROVE GrantsInv'
  <1>1. /\ f \in approved /\ approved' = approved \ {f} /\ grants' = [grants EXCEPT ![f].at = now]
        /\ Insert(f, NoSession)
        /\ UNCHANGED <<now, standing, disabled, session, request, handler, budget, history>>
    BY DEF Redeem
  <1>2. now \in Nat /\ grants \in Seq(GrantSet) /\ Len(grants) \in Nat /\ grants[f].session = NoSession
    BY <1>1 DEF GrantsInv, TablesInv, SessionsInv
  <1>3. PICK g \in GrantSet : /\ g = [grants[f] EXCEPT !.at = now]
                             /\ g.user = grants[f].user /\ g.session = grants[f].session /\ g.at = now
    <2>1. PICK old \in GrantSet : old = grants[f]
      BY GrantTypes DEF GrantsInv
    <2>2. /\ [old EXCEPT !.at = now] \in GrantSet
          /\ [old EXCEPT !.at = now].user = old.user
          /\ [old EXCEPT !.at = now].session = old.session
          /\ [old EXCEPT !.at = now].at = now
      BY <1>2 DEF GrantSet
    <2> QED
      BY <2>1, <2>2
  <1>4. /\ grants' \in Seq(GrantSet) /\ Len(grants') = Len(grants)
        /\ \A i \in Grants : grants'[i] = IF i = f THEN g ELSE grants[i]
    <2> HIDE DEF GrantSet
    <2>1. grants' = [grants EXCEPT ![f] = g]
      BY <1>1, <1>3
    <2> QED
      BY <1>2, <2>1 DEF Grants
  <1>5. \A i \in Grants : /\ grants'[i].user = grants[i].user /\ grants'[i].session = grants[i].session
                          /\ grants'[i].at <= now
    <2>1. \A i \in Grants : grants[i].at <= now
      BY DEF GrantsInv, TablesInv
    <2>2. g.at <= now
      BY <1>2, <1>3
    <2> QED
      BY <1>3, <1>4, <2>1, <2>2
  <1>6. Extends(f) /\ Grants' = Grants
    BY <1>2, <1>4, <1>5 DEF Extends, Grants, GrantsInv, TablesInv
  <1>7. ~Extinct(f)
    BY <1>1 DEF Extinct
  <1>8. /\ \A id \in DOMAIN tokens : ~Good(id, f)
        /\ \A q \in Requests : ~Inserting(q, f)'
        /\ request' \in [Requests -> RequestSet]
    BY <1>1 DEF GrantsInv, HeldOnce, Inserting, RunningInv
  <1>9. NoSession \in Sessions \cup {NoSession} /\ grants'[f].session = NoSession
    BY <1>2, <1>5
  <1> QED
    BY <1>1, <1>6, <1>7, <1>8, <1>9, InsertKeeps

LEMMA ApproveStep ==
  ASSUME GrantsInv, NEW s \in Sessions, NEW c \in Clients, Approve(s, c)
  PROVE  GrantsInv'
  <1>1. PICK f : f = Len(grants) + 1
    OBVIOUS
  <1>2. /\ UserOf[s] \in Users /\ Grant(UserOf[s], c, NoSession) /\ approved' = approved \cup {f}
        /\ UNCHANGED <<now, standing, disabled, session, tokens, issued, request, handler, budget, history>>
    BY <1>1, GrantsAssumption DEF Approve
  <1>3. /\ Extends(f) /\ f \notin Grants /\ grants'[f].session = NoSession
        /\ \A id \in DOMAIN tokens : ~Good(id, f)
        /\ \A q \in Requests : ~Inserting(q, f)
    BY <1>1, <1>2, NewGrant
  <1>4. /\ \A id, g : Good(id, g)' <=> Good(id, g)
        /\ \A q, g : Inserting(q, g)' <=> Inserting(q, g)
    BY <1>2 DEF Good, Inserting
  <1>5. \A g \in Grants : g # f /\ Extinct(g) => Extinct(g)'
    BY <1>2, <1>4 DEF Extinct
  <1>6. /\ Grants \subseteq Grants' /\ handler'.known <= Len(grants') /\ ended' \subseteq Grants'
        /\ EndedInv'
        /\ \A row : row.grant \in Grants /\ Names(row) => Names(row)'
        /\ \A g \in Grants' : grants'[g].session # NoSession =>
               /\ session'[grants'[g].session] # "unused"
               /\ grants'[g].user = UserOf[grants'[g].session]
    BY <1>2, <1>3, <1>5, ExtendsKeeps DEF history
  <1>7. TablesInv'
    BY <1>2, <1>3, <1>6 DEF GrantsInv, TablesInv, Extends
  <1>8. RunningInv'
    BY <1>2, <1>6 DEF GrantsInv, RunningInv, history
  <1>9. HeldOnce'
    <2> SUFFICES ASSUME NEW g \in Grants'
                 PROVE  /\ \A i, j \in DOMAIN tokens' : Good(i, g)' /\ Good(j, g)' => i = j
                        /\ \A x, y \in Requests : Inserting(x, g)' /\ Inserting(y, g)' => x = y
                        /\ \A x \in Requests : Inserting(x, g)' =>
                                g \notin approved' /\ \A i \in DOMAIN tokens' : ~Good(i, g)'
                        /\ g \in approved' => \A i \in DOMAIN tokens' : ~Good(i, g)'
      BY DEF HeldOnce
    <2>1. CASE g = f
      BY <1>2, <1>3, <1>4, <2>1
    <2>2. CASE g \in Grants /\ g # f
      BY <1>2, <1>4, <2>2 DEF GrantsInv, HeldOnce
    <2> QED
      BY <1>3, <2>1, <2>2 DEF Extends
  <1>10. SessionsInv'
    <2>1. ASSUME NEW id \in DOMAIN tokens' PROVE Names(tokens[id])'
      <3>1. tokens[id].grant \in Grants /\ Names(tokens[id]) /\ tokens' = tokens
        BY <1>2, <2>1 DEF GrantsInv, TablesInv, SessionsInv
      <3>2. PICK row : row = tokens[id]
        OBVIOUS
      <3> QED
        BY <1>6, <3>1, <3>2 DEF Names
    <2>2. ASSUME NEW q \in Requests, request'[q].pc = "insert" PROVE Names(request[q].row)'
      <3>1. /\ request' = request /\ request[q].row.grant \in Grants /\ Names(request[q].row)
        BY <1>2, <2>2 DEF GrantsInv, RunningInv, SessionsInv
      <3>2. PICK row : row = request[q].row
        OBVIOUS
      <3> QED
        BY <1>6, <3>1, <3>2 DEF Names
    <2>3. \A g \in approved' : grants'[g].session = NoSession
      BY <1>2, <1>3 DEF GrantsInv, SessionsInv, TablesInv, Extends
    <2> QED
      BY <1>2, <1>6, <2>1, <2>2, <2>3 DEF GrantsInv, SessionsInv
  <1>11. SpentInv'
    BY <1>2 DEF GrantsInv, SpentInv, SpentTokensAreRemembered, history
  <1> QED
    BY <1>6, <1>7, <1>8, <1>9, <1>10, <1>11 DEF GrantsInv

-----------------------------------------------------------------------------
(* The steps that end sessions and take tokens away. *)

RowsChange ==
    \/ /\ UNCHANGED session
       /\ tokens' = tokens \/ (\E S : tokens' = Revoked(S)) \/ (\E c : tokens' = Stamped(c))
    \/ \E S \in SUBSET Sessions : /\ Gone(S)
                                  /\ \/ tokens' = Detached(S, tokens)
                                     \/ \E R : tokens' = Detached(S, Revoked(R))

Handled ==
    /\ RowsChange /\ SameBounds
    /\ UNCHANGED <<now, grants, approved, issued, request, spent>>
    /\ standing' \in [Users -> {"active", "barred", "rejected"}]
    /\ disabled' \subseteq Clients

\* The handler begins, or rests: it has been through no session.
Turned ==
    /\ handler' \in HandlerSet /\ handler'.known <= Len(grants)
    /\ handler'.listed \subseteq handler'.left
    /\ \A s \in handler'.doomed \ handler'.listed : session'[s] \in {"unused", "gone"}

LEMMA RowsChanged ==
  ASSUME TablesInv, RowsChange
  PROVE  RowsStay /\ DOMAIN tokens' = DOMAIN tokens /\ \E S : Ends(S)
  <1>1. CASE UNCHANGED session /\ UNCHANGED tokens
    BY <1>1, NothingChanges, NoneEnds
  <1>2. CASE UNCHANGED session /\ \E S : tokens' = Revoked(S)
    BY <1>2, RevocationStays, RevokedRows, NoneEnds
  <1>3. CASE UNCHANGED session /\ \E c : tokens' = Stamped(c)
    <2>1. PICK c : tokens' = Stamped(c)
      BY <1>3
    <2>2. /\ DOMAIN tokens' = DOMAIN tokens /\ tokens' = [id \in DOMAIN tokens |-> tokens'[id]]
          /\ \A id \in DOMAIN tokens :
                tokens'[id] = tokens[id] \/ tokens'[id] = [tokens[id] EXCEPT !.revoked = now]
      BY <2>1 DEF Stamped
    <2>3. \A id \in DOMAIN tokens : tokens[id] \in TokenSet /\ now \in Nat
      BY DEF TablesInv
    <2>4. ASSUME NEW id \in DOMAIN tokens
          PROVE  LET new == tokens'[id] IN
                 /\ new \in TokenSet /\ new.grant = tokens[id].grant /\ new.at = tokens[id].at
                 /\ new.expires = tokens[id].expires /\ new.session = tokens[id].session
                 /\ new.revoked = tokens[id].revoked \/ new.revoked = now
      <3>1. PICK row \in TokenSet : row = tokens[id]
        BY <2>3
      <3>2. LET new == [row EXCEPT !.revoked = now] IN
            /\ new \in TokenSet /\ new.grant = row.grant /\ new.at = row.at
            /\ new.expires = row.expires /\ new.session = row.session /\ new.revoked = now
        BY <2>3 DEF TokenSet
      <3> QED
        BY <2>2, <3>1, <3>2
    <2>5. \A id \in DOMAIN tokens' :
            /\ tokens'[id] \in TokenSet
            /\ tokens'[id].grant = tokens[id].grant
            /\ tokens'[id].at = tokens[id].at
            /\ tokens'[id].expires = tokens[id].expires
            /\ tokens'[id].session = tokens[id].session
            /\ tokens'[id].revoked = tokens[id].revoked \/ tokens'[id].revoked = now
      BY <2>2, <2>4
    <2>6. RowsStay
      BY <2>2, <2>5 DEF RowsStay
    <2> QED
      BY <1>3, <2>2, <2>5, <2>6, NoneEnds
  <1>4. ASSUME NEW S \in SUBSET Sessions, Gone(S), tokens' = Detached(S, tokens)
        PROVE  RowsStay /\ DOMAIN tokens' = DOMAIN tokens /\ Ends(S)
    <2>1. tokens \in [DOMAIN tokens -> TokenSet]
      BY DEF TablesInv
    <2> QED
      BY <1>4, <2>1, DetachingStays, DetachedRows
  <1>5. ASSUME NEW S \in SUBSET Sessions, Gone(S), NEW R, tokens' = Detached(S, Revoked(R))
        PROVE  RowsStay /\ DOMAIN tokens' = DOMAIN tokens /\ Ends(S)
    <2>1. PICK t : t = Revoked(R)
      OBVIOUS
    <2>2. t \in [DOMAIN t -> TokenSet] /\ DOMAIN t = DOMAIN tokens
      BY <2>1, RevokedRows
    <2> QED
      BY <1>5, <2>1, <2>2, DetachingStays, DetachedRows
  <1> QED
    BY <1>1, <1>2, <1>3, <1>4, <1>5 DEF RowsChange

LEMMA HandledQuiet ==
  ASSUME GrantsInv, Handled
  PROVE  /\ Quiet /\ DOMAIN tokens' = DOMAIN tokens /\ Grants' = Grants
         /\ \A f : Extinct(f) => Extinct(f)'
  <1>1. RowsStay /\ DOMAIN tokens' = DOMAIN tokens /\ \E S : Ends(S)
    BY RowsChanged DEF Handled, GrantsInv
  <1>2. Quiet
    BY <1>1 DEF Quiet, QuietRows, Handled, GrantsInv, TablesInv
  <1>3. Grants' = Grants
    BY DEF Handled, Grants
  <1> QED
    BY <1>1, <1>2, <1>3, QuietExtinct DEF GrantsInv

LEMMA HandledKeeps ==
  ASSUME GrantsInv, Handled, handler' \in HandlerSet, handler'.known <= Len(grants), ended' \subseteq Grants,
         excuse' \in [1..budget.grants -> SUBSET {"rotating", "approved", "detached", "during"}],
         EndedInv'
  PROVE  GrantsInv'
  <1>1. Quiet /\ DOMAIN tokens' = DOMAIN tokens /\ Grants' = Grants
    BY HandledQuiet
  <1>2. RunningInv'
    BY <1>1 DEF Handled, SameBounds, GrantsInv, RunningInv
  <1>3. Timely'
    BY <1>1, StillTimely DEF Quiet, Handled, GrantsInv
  <1>4. SpentInv'
    BY <1>1, <1>3, QuietSpent DEF Quiet, GrantsInv
  <1> QED
    BY <1>1, <1>2, <1>4, QuietKeeps

\* A step that leaves the handler alone.
LEMMA PlainKeeps ==
  ASSUME GrantsInv, Handled, UNCHANGED <<handler, ended, excuse>>
  PROVE  GrantsInv'
  <1>1. EndedInv'
    BY HandledQuiet, QuietEnded DEF Quiet, GrantsInv
  <1> QED
    BY <1>1, HandledKeeps DEF GrantsInv, RunningInv

LEMMA TurnKeeps ==
  ASSUME GrantsInv, Handled, UNCHANGED <<ended, excuse>>, Turned
  PROVE  GrantsInv'
  <1>1. /\ Quiet /\ Grants' = Grants /\ grants' = grants
        /\ \A f : Extinct(f) => Extinct(f)'
    BY HandledQuiet DEF Handled
  <1>2. \A f \in Grants' : Judged(f)' => Judged(f)
    BY DEF Judged, Turned
  <1>3. SessionsInv'
    BY <1>1, QuietKeeps, QuietSessions DEF GrantsInv, Quiet, RunningInv, SessionsInv
  <1>4. \A s \in handler'.doomed \ handler'.listed : session'[s] # "gone" =>
            \A f \in Grants' : grants'[f].session # s
    <2>1. \A s \in handler'.doomed : s # NoSession
      BY GrantsAssumption DEF HandlerSet, Turned
    <2> QED
      BY <1>3, <2>1 DEF SessionsInv, Turned
  <1>5. EndedInv'
    BY <1>1, <1>2, <1>4 DEF EndedInv, GrantsInv
  <1> QED
    BY <1>5, HandledKeeps DEF GrantsInv, RunningInv, Turned

LEMMA PlainSteps ==
  ASSUME GrantsInv,
         \/ \E s \in Sessions : Logout(s) \/ SweepSession(s)
         \/ \E u \in Users : Lift(u)
         \/ \E c \in Clients : Restore(c)
  PROVE  GrantsInv'
  <1> USE DEF store, history
  <1>1. standing \in [Users -> {"active", "barred", "rejected"}] /\ disabled \subseteq Clients /\ TablesInv
    BY DEF GrantsInv, TablesInv
  <1>2. ASSUME NEW s \in Sessions, Logout(s) \/ SweepSession(s) PROVE Handled /\ UNCHANGED <<handler, ended, excuse>>
    <2>1. /\ {s} \in SUBSET Sessions /\ Gone({s}) /\ Counted("ends") /\ Bounded("ends")
          /\ tokens' = Detached({s}, tokens) \/ tokens' = Detached({s}, Revoked(OfSession(s)))
          /\ UNCHANGED <<now, standing, disabled, grants, approved, issued, request, handler, history>>
      BY <1>2 DEF Logout, SweepSession
    <2>2. RowsChange /\ SameBounds
      BY <1>1, <2>1, EventCounted DEF RowsChange
    <2> QED
      BY <1>1, <2>1, <2>2 DEF Handled
  <1>3. ASSUME NEW u \in Users, Lift(u) PROVE Handled /\ UNCHANGED <<handler, ended, excuse>>
    BY <1>1, <1>3, SameBoundsKept DEF Lift, Handled, RowsChange
  <1>4. ASSUME NEW c \in Clients, Restore(c) PROVE Handled /\ UNCHANGED <<handler, ended, excuse>>
    BY <1>1, <1>4, SameBoundsKept DEF Restore, Handled, RowsChange
  <1> QED
    BY <1>2, <1>3, <1>4, PlainKeeps

LEMMA Begins ==
  ASSUME GrantsInv, NEW stage \in {"rest", "all", "reject"}, NEW u \in Users \cup {NoSession},
         NEW known \in {0, Len(grants)},
         handler' = [stage |-> stage, user |-> u, left |-> {}, doomed |-> {}, listed |-> {}, known |-> known]
  PROVE  Turned
  <1>1. Len(grants) \in Nat
    BY DEF GrantsInv, TablesInv
  <1> QED
    BY <1>1 DEF Turned, HandlerSet

LEMMA TurnSteps ==
  ASSUME GrantsInv,
         \/ \E s \in Sessions : BeginSession(s) \/ BeginOthers(s)
         \/ \E u \in Users : BeginBar(u) \/ BeginSignOut(u) \/ BeginReject(u)
         \/ FinishReject \/ HandlerFails
  PROVE  GrantsInv'
  <1> USE DEF store, history
  <1>1. /\ standing \in [Users -> {"active", "barred", "rejected"}] /\ disabled \subseteq Clients
        /\ session \in [Sessions -> {"unused", "live", "gone"}] /\ TablesInv
    BY DEF GrantsInv, TablesInv
  <1>2. ASSUME NEW s \in Sessions, NEW left \in SUBSET Sessions, NEW doomed \in SUBSET Sessions,
               Begin("revoke", UserOf[s], left, doomed),
               \A x \in doomed \ left : session[x] \in {"unused", "gone"},
               UNCHANGED <<now, standing, disabled, session, store, request, history>>
        PROVE  Handled /\ Turned
    <2>1. /\ handler' = [stage |-> "revoke", user |-> UserOf[s], left |-> left, doomed |-> doomed,
                         listed |-> left, known |-> Len(grants)]
          /\ SameBounds
      BY <1>1, <1>2, EventCounted DEF Begin
    <2>2. UserOf[s] \in Users /\ Len(grants) \in Nat
      BY GrantsAssumption DEF GrantsInv, TablesInv
    <2>3. Turned
      BY <1>2, <2>1, <2>2 DEF HandlerSet, Turned
    <2>4. Handled
      BY <1>1, <1>2, <2>1 DEF Handled, RowsChange
    <2> QED
      BY <2>3, <2>4
  <1>3. ASSUME NEW s \in Sessions, BeginSession(s) PROVE Handled /\ Turned
    <2>1. {s} \in SUBSET Sessions /\ \A x \in {s} \ {s} : session[x] \in {"unused", "gone"}
      OBVIOUS
    <2> QED
      BY <1>2, <1>3, <2>1 DEF BeginSession
  <1>4. ASSUME NEW s \in Sessions, BeginOthers(s) PROVE Handled /\ Turned
    <2>1. PICK left, doomed : /\ doomed = OfUser(UserOf[s]) \ {s}
                              /\ left = {x \in doomed : session[x] = "live"}
      OBVIOUS
    <2>2. /\ left \in SUBSET Sessions /\ doomed \in SUBSET Sessions
          /\ \A x \in doomed \ left : session[x] \in {"unused", "gone"}
      BY <1>1, <2>1 DEF OfUser
    <2>3. /\ Begin("revoke", UserOf[s], left, doomed)
          /\ UNCHANGED <<now, standing, disabled, session, store, request, history>>
      BY <1>4, <2>1 DEF BeginOthers
    <2> QED
      BY <1>2, <2>2, <2>3
  <1>5. ASSUME NEW u \in Users, BeginBar(u) \/ BeginSignOut(u) \/ BeginReject(u) PROVE Handled /\ Turned
    <2>1. OfUser(u) \in SUBSET Sessions
      BY DEF OfUser
    <2>2. RowsChange
      BY <1>5, <2>1 DEF BeginBar, BeginSignOut, BeginReject, RowsChange
    <2>3. SameBounds
      BY <1>1, <1>5, EventCounted DEF BeginBar, BeginSignOut, BeginReject, Begin
    <2>4. Handled
      BY <1>1, <1>5, <2>2, <2>3 DEF BeginBar, BeginSignOut, BeginReject, Handled
    <2>5. PICK stage \in {"all", "reject"}, known \in {0, Len(grants)} :
              handler' = [stage |-> stage, user |-> u, left |-> {}, doomed |-> {}, listed |-> {}, known |-> known]
      BY <1>5 DEF BeginBar, BeginSignOut, BeginReject, Begin, Resting
    <2>6. Turned
      BY <2>5, Begins
    <2> QED
      BY <2>4, <2>6
  <1>6. CASE FinishReject
    <2>1. OfUser(handler.user) \in SUBSET Sessions
      BY DEF OfUser
    <2>2. RowsChange /\ SameBounds
      BY <1>1, <1>6, <2>1, SameBoundsKept DEF FinishReject, RowsChange
    <2>3. Handled
      BY <1>1, <1>6, <2>2 DEF FinishReject, Handled
    <2>4. Turned
      BY <1>6, Begins DEF FinishReject, Resting
    <2> QED
      BY <1>6, <2>3, <2>4, TurnKeeps DEF FinishReject
  <1>7. CASE HandlerFails
    <2>1. Handled
      BY <1>1, <1>7, SameBoundsKept DEF HandlerFails, Handled, RowsChange
    <2>2. Turned
      BY <1>7, Begins DEF HandlerFails, Resting
    <2> QED
      BY <1>7, <2>1, <2>2, TurnKeeps DEF HandlerFails
  <1>8. ASSUME NEW s \in Sessions, BeginSession(s) \/ BeginOthers(s) PROVE GrantsInv'
    <2>1. UNCHANGED <<ended, excuse>>
      BY <1>8 DEF BeginSession, BeginOthers
    <2> QED
      BY <1>3, <1>4, <1>8, <2>1, TurnKeeps
  <1>9. ASSUME NEW u \in Users, BeginBar(u) \/ BeginSignOut(u) \/ BeginReject(u) PROVE GrantsInv'
    <2>1. UNCHANGED <<ended, excuse>>
      BY <1>9 DEF BeginBar, BeginSignOut, BeginReject
    <2> QED
      BY <1>5, <1>9, <2>1, TurnKeeps
  <1> QED
    BY <1>6, <1>7, <1>8, <1>9

-----------------------------------------------------------------------------
(* The steps that judge a revocation. *)

\* A revocation that leaves no good token of a grant ends it, unless it has a
\* reason to miss it; the other grants keep what they had.
LEMMA JudgeEnds ==
  ASSUME GrantsInv, Handled, NEW F \in SUBSET Grants, Judge(F),
         \A f \in F : Reasons(f) = {} => \A id \in DOMAIN tokens : ~Good(id, f)',
         \A f \in Grants \ F : Judged(f)' => Judged(f),
         \A s \in handler'.doomed \ handler'.listed :
            s \in handler.doomed \ handler.listed /\ handler'.known = handler.known
  PROVE  /\ excuse' \in [1..budget.grants -> SUBSET {"rotating", "approved", "detached", "during"}]
         /\ EndedInv'
  <1>1. /\ Quiet /\ Grants' = Grants /\ grants' = grants /\ DOMAIN tokens' = DOMAIN tokens
        /\ approved' = approved
        /\ \A f : Extinct(f) => Extinct(f)'
        /\ \A q \in Requests : \A f : Inserting(q, f)' => Inserting(q, f)
    BY HandledQuiet, QuietInserting DEF Handled
  <1>2. Grants \subseteq 1..budget.grants
    BY DEF GrantsInv, TablesInv, BudgetSet, Grants
  <1>3. /\ excuse' = [f \in 1..budget.grants |-> IF f \in F THEN Reasons(f) ELSE excuse[f]]
        /\ \A f : Reasons(f) \subseteq {"rotating", "approved", "detached", "during"}
        /\ \A f \in 1..budget.grants : excuse[f] \subseteq {"rotating", "approved", "detached", "during"}
    BY DEF Judge, Reasons, GrantsInv, RunningInv
  <1>4. excuse' \in [1..budget.grants -> SUBSET {"rotating", "approved", "detached", "during"}]
    BY <1>3
  <1>5. ASSUME NEW f \in Grants, Judged(f)', excuse'[f] = {} PROVE Extinct(f)'
    <2>1. CASE f \in F
      <3>1. Reasons(f) = {}
        BY <1>2, <1>3, <1>5, <2>1
      <3>2. f \notin approved /\ \A q \in Requests : ~Inserting(q, f)
        BY <3>1 DEF Reasons, Rotating, Inserting
      <3> QED
        BY <1>1, <2>1, <3>1, <3>2 DEF Extinct
    <2>2. CASE f \notin F
      <3>1. excuse[f] = {} /\ Judged(f)
        BY <1>2, <1>3, <1>5, <2>2
      <3> QED
        BY <1>1, <3>1 DEF GrantsInv, EndedInv
    <2> QED
      BY <2>1, <2>2
  <1>6. ASSUME NEW s \in handler'.doomed \ handler'.listed, session'[s] # "gone",
               NEW f \in Grants, grants[f].session = s
        PROVE  f > handler'.known
    <2>1. PICK S : Ends(S)
      BY <1>1 DEF Quiet, QuietRows
    <2>2. s \in Sessions /\ s \in handler.doomed \ handler.listed /\ handler'.known = handler.known
      BY <1>6 DEF GrantsInv, RunningInv, HandlerSet
    <2>3. session[s] # "gone"
      BY <1>6, <2>1, <2>2 DEF Ends
    <2> QED
      BY <1>6, <2>2, <2>3 DEF GrantsInv, EndedInv
  <1>7. EndedInv'
    BY <1>1, <1>5, <1>6 DEF EndedInv
  <1> QED
    BY <1>4, <1>7

\* Where the good tokens of a grant are not: in what was revoked.
LEMMA RevokedNotGood ==
  ASSUME GrantsInv, NEW S, tokens' = Revoked(S)
  PROVE  \A id, f : Good(id, f)' => Good(id, f) /\ id \notin S
  <1>1. now # Never
    BY GrantsAssumption DEF GrantsInv, TablesInv
  <1> QED
    BY <1>1, RevokedRows DEF GrantsInv, Good

LEMMA RevokeSessionStep ==
  ASSUME GrantsInv, NEW s \in Sessions, RevokeSession(s)
  PROVE  GrantsInv'
  <1>1. /\ s \in handler.left /\ handler' = [handler EXCEPT !.left = @ \ {s}] /\ tokens' = Revoked(OfSession(s))
        /\ Judge(Through({s}))
        /\ UNCHANGED <<now, standing, disabled, session, grants, approved, issued, request, budget, ended, spent>>
    BY DEF RevokeSession
  <1>2. Handled
    BY <1>1, SameBoundsKept DEF Handled, RowsChange, GrantsInv, TablesInv
  <1>3. /\ handler' \in HandlerSet /\ handler'.known = handler.known /\ handler'.doomed = handler.doomed
        /\ handler'.listed = handler.listed /\ handler'.left = handler.left \ {s}
        /\ handler.known <= Len(grants) /\ ended \subseteq Grants
    BY <1>1 DEF GrantsInv, RunningInv, HandlerSet
  <1>4. Through({s}) \in SUBSET Grants
    BY DEF Through
  <1>5. ASSUME NEW f \in Through({s}), Reasons(f) = {}, NEW id \in DOMAIN tokens PROVE ~Good(id, f)'
    <2> SUFFICES ASSUME Good(id, f), id \notin OfSession(s) PROVE FALSE
      BY <1>1, RevokedNotGood
    <2>1. f \in Grants /\ grants[f].session = s /\ s # NoSession /\ tokens[id].grant = f
      BY GrantsAssumption DEF Through, Good
    <2>2. session[s] = "live"
      BY <1>5, <2>1 DEF Reasons
    <2>3. tokens[id].session = s
      BY <2>1, <2>2 DEF GrantsInv, SessionsInv, Names
    <2>4. grants[f].user = UserOf[s]
      BY <2>1 DEF GrantsInv, SessionsInv
    <2> QED
      BY <2>1, <2>3, <2>4 DEF OfSession
  <1>6. \A f \in Grants \ Through({s}) : Judged(f)' => Judged(f)
    BY <1>1, <1>3 DEF Judged, Through
  <1>7. /\ excuse' \in [1..budget.grants -> SUBSET {"rotating", "approved", "detached", "during"}]
        /\ EndedInv'
    BY <1>1, <1>2, <1>3, <1>4, <1>5, <1>6, JudgeEnds
  <1> QED
    BY <1>1, <1>2, <1>3, <1>7, HandledKeeps

LEMMA RevokeAllStep == ASSUME GrantsInv, RevokeAll PROVE GrantsInv'
  <1> DEFINE F == {f \in Of(handler.user) : f <= handler.known}
  <1>1. /\ handler' = Resting /\ tokens' = Revoked(OfOwner(handler.user))
        /\ Judge(F) /\ ended' = ended \cup F
        /\ UNCHANGED <<now, standing, disabled, session, grants, approved, issued, request, budget, spent>>
    BY DEF RevokeAll
  <1>2. Handled
    BY <1>1, SameBoundsKept DEF Handled, RowsChange, GrantsInv, TablesInv
  <1>3. Turned /\ handler'.listed = {} /\ handler'.doomed = {}
    BY <1>1, Begins DEF Resting
  <1>4. F \in SUBSET Grants /\ ended' \subseteq Grants
    BY <1>1 DEF Of, GrantsInv, RunningInv
  <1>5. ASSUME NEW f \in F, NEW id \in DOMAIN tokens PROVE ~Good(id, f)'
    <2>1. Good(id, f) => id \in OfOwner(handler.user)
      BY DEF OfOwner, Of, Good
    <2> QED
      BY <1>1, <2>1, RevokedNotGood
  <1>6. \A f \in Grants \ F : Judged(f)' => Judged(f)
    BY <1>1, <1>3 DEF Judged
  <1> HIDE DEF F
  <1>7. /\ excuse' \in [1..budget.grants -> SUBSET {"rotating", "approved", "detached", "during"}]
        /\ EndedInv'
    BY <1>1, <1>2, <1>3, <1>4, <1>5, <1>6, JudgeEnds
  <1> QED
    BY <1>2, <1>3, <1>4, <1>7, HandledKeeps DEF Turned

LEMMA DisconnectStep ==
  ASSUME GrantsInv, NEW u \in Users, NEW c \in Clients, Disconnect(u, c)
  PROVE  GrantsInv'
  <1> DEFINE F == {f \in Of(u) : grants[f].client = c}
  <1>1. /\ tokens' = Revoked(OfGrants(F)) /\ Judge(F) /\ ended' = ended \cup F /\ Bounded("ends") /\ Counted("ends")
        /\ UNCHANGED <<now, standing, disabled, session, grants, approved, issued, request, handler, spent>>
    BY DEF Disconnect
  <1>2. Handled
    BY <1>1, EventCounted DEF Handled, RowsChange, GrantsInv, TablesInv
  <1>3. F \in SUBSET Grants /\ ended' \subseteq Grants
    BY <1>1 DEF Of, GrantsInv, RunningInv
  <1> HIDE DEF F
  <1>4. ASSUME NEW f \in F, NEW id \in DOMAIN tokens PROVE ~Good(id, f)'
    <2>1. Good(id, f) => id \in OfGrants(F)
      BY DEF OfGrants, Good
    <2> QED
      BY <1>1, <2>1, RevokedNotGood
  <1>5. \A f \in Grants \ F : Judged(f)' => Judged(f)
    BY <1>1 DEF Judged
  <1>6. /\ excuse' \in [1..budget.grants -> SUBSET {"rotating", "approved", "detached", "during"}]
        /\ EndedInv'
    BY <1>1, <1>2, <1>3, <1>4, <1>5, JudgeEnds
  <1> QED
    BY <1>1, <1>2, <1>3, <1>6, HandledKeeps DEF GrantsInv, RunningInv

LEMMA ReconcileStep ==
  ASSUME GrantsInv, NEW c \in Clients, Reconcile(c)
  PROVE  GrantsInv'
  <1> DEFINE F == {f \in Grants : grants[f].client = c}
  <1>1. /\ tokens' = Stamped(c) /\ Judge(F) /\ ended' = ended \cup F
        /\ Bounded("restarts") /\ Counted("restarts") /\ disabled' = disabled \cup {c}
        /\ UNCHANGED <<now, standing, session, grants, approved, issued, request, handler, spent>>
    BY DEF Reconcile
  <1>2. Handled
    BY <1>1, EventCounted DEF Handled, RowsChange, GrantsInv, TablesInv
  <1>3. F \in SUBSET Grants /\ ended' \subseteq Grants
    BY <1>1 DEF GrantsInv, RunningInv
  <1>4. ASSUME NEW f \in F, NEW id \in DOMAIN tokens PROVE ~Good(id, f)'
    <2>1. CASE Good(id, f)
      <3>1. tokens'[id] = [tokens[id] EXCEPT !.revoked = now]
        BY <1>1, <2>1 DEF Stamped, Good
      <3>2. tokens[id] \in TokenSet /\ now # Never
        BY GrantsAssumption DEF GrantsInv, TablesInv
      <3>3. tokens'[id].revoked = now
        BY <3>1, <3>2 DEF TokenSet
      <3> QED
        BY <3>2, <3>3 DEF Good
    <2>2. CASE ~Good(id, f)
      BY <1>2, <2>2, HandledQuiet, QuietGood DEF Quiet, GrantsInv
    <2> QED
      BY <2>1, <2>2
  <1> HIDE DEF F
  <1>5. \A f \in Grants \ F : Judged(f)' => Judged(f)
    BY <1>1 DEF Judged
  <1>6. /\ excuse' \in [1..budget.grants -> SUBSET {"rotating", "approved", "detached", "during"}]
        /\ EndedInv'
    BY <1>1, <1>2, <1>3, <1>4, <1>5, JudgeEnds
  <1> QED
    BY <1>1, <1>2, <1>3, <1>6, HandledKeeps DEF GrantsInv, RunningInv

\* What the handler deletes it has been through, or was opened under it.
LEMMA DeleteSessionsStep == ASSUME GrantsInv, DeleteSessions PROVE GrantsInv'
  <1> DEFINE dead == {s \in handler.doomed : session[s] = "live"}
             meant == Through(handler.listed \cup dead)
  <1>1. /\ handler.left = {} /\ handler' = Resting /\ Gone(dead) /\ tokens' = Detached(dead, tokens)
        /\ ended' = ended \cup meant
        /\ excuse' = [f \in 1..budget.grants |->
                        IF f \in meant /\ f > handler.known THEN excuse[f] \cup {"during"} ELSE excuse[f]]
        /\ UNCHANGED <<now, standing, disabled, grants, approved, issued, request, budget, spent>>
    BY DEF DeleteSessions, Deletion
  <1>2. dead \in SUBSET Sessions
    BY DEF GrantsInv, RunningInv, HandlerSet
  <1>3. meant \in SUBSET Grants /\ ended' \subseteq Grants
    BY <1>1 DEF Through, GrantsInv, RunningInv
  <1>4. ASSUME NEW f \in meant, f <= handler.known PROVE Judged(f)
    <2>1. f \in Grants /\ grants[f].session \in handler.listed \cup dead
      BY DEF Through
    <2>2. CASE grants[f].session \in handler.listed
      BY <1>1, <1>4, <2>2 DEF Judged
    <2>3. CASE grants[f].session \in handler.doomed \ handler.listed /\ session[grants[f].session] = "live"
      <3>1. f > handler.known
        BY <2>1, <2>3 DEF GrantsInv, EndedInv
      <3>2. f \in Nat /\ handler.known \in Nat
        BY <2>1 DEF Grants, GrantsInv, RunningInv, HandlerSet
      <3> QED
        BY <1>4, <3>1, <3>2
    <2> QED
      BY <2>1, <2>2, <2>3
  <1>5. Handled
    BY <1>1, <1>2, SameBoundsKept DEF Handled, RowsChange, GrantsInv, TablesInv
  <1> HIDE DEF dead, meant
  <1>6. Turned /\ handler'.listed = {} /\ handler'.doomed = {}
    BY <1>1, Begins DEF Resting
  <1>7. /\ Grants' = Grants /\ \A f : Extinct(f) => Extinct(f)'
        /\ Grants \subseteq 1..budget.grants /\ Grants \subseteq Nat /\ handler.known \in Nat
    <2>1. Grants \subseteq 1..budget.grants /\ Grants \subseteq Nat
      BY DEF GrantsInv, TablesInv, BudgetSet, Grants
    <2>2. handler.known \in Nat
      BY DEF GrantsInv, RunningInv, HandlerSet
    <2> QED
      BY <1>5, <2>1, <2>2, HandledQuiet
  <1>8. ASSUME NEW f \in Grants', Judged(f)', excuse'[f] = {} PROVE Extinct(f)'
    <2>1. f \in Grants /\ f \in ended \cup meant
      BY <1>1, <1>6, <1>7, <1>8 DEF Judged
    <2>2. excuse[f] = {} /\ (f \in meant => f <= handler.known)
      BY <1>1, <1>7, <1>8, <2>1
    <2>3. Judged(f)
      BY <1>4, <2>1, <2>2 DEF Judged
    <2> QED
      BY <1>7, <2>1, <2>2, <2>3 DEF GrantsInv, EndedInv
  <1>9. EndedInv'
    BY <1>6, <1>8 DEF EndedInv
  <1>10. excuse' \in [1..budget.grants -> SUBSET {"rotating", "approved", "detached", "during"}]
    BY <1>1 DEF GrantsInv, RunningInv
  <1> QED
    BY <1>3, <1>5, <1>6, <1>9, <1>10, HandledKeeps DEF Turned

-----------------------------------------------------------------------------
(* The sign-in, the sweep of the tokens, and time. *)

LEMMA SignInStep == ASSUME GrantsInv, NEW s \in Sessions, SignIn(s) PROVE GrantsInv'
  <1>1. /\ session[s] = "unused" /\ session' = [session EXCEPT ![s] = "live"]
        /\ UNCHANGED <<now, standing, disabled, grants, approved, tokens, issued>>
        /\ UNCHANGED <<request, handler, budget, ended, excuse, spent>>
    BY DEF SignIn, store, history
  <1>2. RowsStay /\ SameBounds
    BY <1>1, NothingChanges, SameBoundsKept DEF GrantsInv
  <1>3. Ends({})
    BY <1>1 DEF Ends, GrantsInv, TablesInv
  <1>4. Quiet
    BY <1>1, <1>2, <1>3 DEF Quiet, QuietRows, GrantsInv, TablesInv
  <1>5. RunningInv'
    BY <1>1 DEF GrantsInv, RunningInv, Grants
  <1>6. EndedInv'
    BY <1>1, <1>4, QuietEnded, QuietExtinct DEF Quiet, GrantsInv
  <1>7. SpentInv'
    BY <1>1 DEF GrantsInv, SpentInv, SpentTokensAreRemembered
  <1> QED
    BY <1>4, <1>5, <1>6, <1>7, QuietKeeps

LEMMA TickStep == ASSUME GrantsInv, Tick PROVE GrantsInv'
  <1>1. /\ now < budget.time /\ now' = now + 1
        /\ \A q \in Requests : request[q].pc # "idle" => now - request[q].since < MaxStall
        /\ UNCHANGED <<standing, disabled, session, grants, approved, tokens, issued>>
        /\ UNCHANGED <<request, handler, budget, ended, excuse, spent>>
    BY DEF Tick, store, history
  <1>2. now \in Nat /\ budget.time \in Nat /\ MaxStall \in Nat
    BY GrantsAssumption DEF GrantsInv, TablesInv, BudgetSet
  <1>3. RowsStay /\ SameBounds /\ Ends({})
    BY <1>1, NothingChanges, SameBoundsKept, NoneEnds DEF GrantsInv
  <1>4. Quiet
    BY <1>1, <1>2, <1>3 DEF Quiet, QuietRows, GrantsInv, TablesInv
  <1>5. RunningInv'
    BY <1>1 DEF GrantsInv, RunningInv, Grants
  <1>6. EndedInv'
    BY <1>1, <1>4, QuietEnded, QuietExtinct DEF Quiet, GrantsInv
  <1>7. Timely'
    <2>1. \A q \in Requests : request[q].since \in Nat
      BY DEF GrantsInv, RunningInv, RequestSet
    <2>2. \A q \in Requests : request'[q].pc # "idle" =>
            request'[q].since <= now' /\ now' - request'[q].since <= MaxStall
      BY <1>1, <1>2, <2>1 DEF GrantsInv, SpentInv
    <2> QED
      BY <1>1, <2>2 DEF Timely, GrantsInv, SpentInv
  <1>8. SpentInv'
    BY <1>1, <1>4, <1>7, QuietSpent DEF Quiet, GrantsInv
  <1> QED
    BY <1>4, <1>5, <1>6, <1>8, QuietKeeps

\* What the sweep takes is older than what must be remembered.
LEMMA CleanupStep == ASSUME GrantsInv, Cleanup PROVE GrantsInv'
  <1>1. /\ tokens' = [id \in {i \in DOMAIN tokens : ~Swept(i)} |-> tokens[id]]
        /\ UNCHANGED <<now, standing, disabled, session, grants, approved, issued>>
        /\ UNCHANGED <<request, handler, budget, ended, excuse, spent>>
    BY DEF Cleanup, history
  <1>2. /\ DOMAIN tokens' = {i \in DOMAIN tokens : ~Swept(i)}
        /\ \A id \in DOMAIN tokens' : tokens'[id] = tokens[id]
        /\ tokens' \in [DOMAIN tokens' -> TokenSet]
    BY <1>1 DEF GrantsInv, TablesInv
  <1>3. RowsStay
    BY <1>2 DEF RowsStay
  <1>4. Ends({})
    BY <1>1, <1>2, <1>3, NoneEnds DEF GrantsInv
  <1>5. Quiet
    BY <1>1, <1>3, <1>4, SameBoundsKept DEF Quiet, QuietRows, GrantsInv, TablesInv
  <1>6. RunningInv'
    BY <1>1 DEF GrantsInv, RunningInv, Grants
  <1>7. EndedInv'
    BY <1>1, <1>5, QuietEnded, QuietExtinct DEF Quiet, GrantsInv
  <1>8. SpentTokensAreRemembered'
    <2> SUFFICES ASSUME NEW id \in 1..budget.tokens, spent[id] # Never, now - spent[id] <= Grace - MaxStall
                 PROVE  id \in DOMAIN tokens'
      BY <1>1 DEF SpentTokensAreRemembered
    <2>1. /\ id \in DOMAIN tokens /\ spent[id] \in Nat
          /\ tokens[id].revoked # Never /\ tokens[id].revoked >= spent[id]
          /\ tokens[id].expires >= spent[id] - MaxStall
      BY DEF GrantsInv, SpentInv, SpentTokensAreRemembered, RunningInv
    <2>2. /\ tokens[id].revoked \in Nat /\ tokens[id].expires \in Nat /\ now \in Nat
          /\ Grace \in Nat /\ MaxStall \in Nat
      BY <2>1, GrantsAssumption DEF GrantsInv, TablesInv, TokenSet
    <2>3. tokens[id].revoked >= now - Grace /\ tokens[id].expires >= now - Grace
      BY <2>1, <2>2
    <2>4. ~Swept(id)
      BY <2>2, <2>3 DEF Swept
    <2> QED
      BY <1>2, <2>1, <2>4
  <1>9. SpentInv'
    BY <1>1, <1>2, <1>8 DEF GrantsInv, SpentInv
  <1> QED
    BY <1>5, <1>6, <1>7, <1>9, QuietKeeps

-----------------------------------------------------------------------------
LEMMA InvInit == Init => GrantsInv
  <1> SUFFICES ASSUME Init PROVE GrantsInv
    OBVIOUS
  <1>1. /\ grants = <<>> /\ approved = {} /\ issued = 0 /\ now = 0 /\ ended = {}
        /\ tokens = [id \in {} |-> 0] /\ DOMAIN tokens = {}
        /\ handler = Resting /\ budget \in BudgetSet
        /\ request = [q \in Requests |-> Idle] /\ \A q \in Requests : request[q] = Idle
        /\ excuse = [f \in 1..budget.grants |-> {}] /\ spent = [id \in 1..budget.tokens |-> Never]
    BY GrantsAssumption DEF Init, BudgetSet
  <1>2. Idle.pc = "idle" /\ Idle.row = 0 /\ Idle \in RequestSet
    BY DEF Idle, RequestSet
  <1>3. /\ Resting \in HandlerSet /\ Resting.known = 0 /\ Resting.doomed = {} /\ Resting.listed = {}
    BY DEF Resting, HandlerSet
  <1>4. Len(grants) = 0 /\ Grants = {} /\ grants \in Seq(GrantSet)
    <2> HIDE DEF GrantSet
    <2> QED
      BY <1>1 DEF Grants
  <1>5. TablesInv
    <2>1. tokens \in [DOMAIN tokens -> TokenSet]
      BY <1>1
    <2>2. budget.time \in Nat /\ budget.tokens \in Nat /\ budget.grants \in Nat
      BY <1>1 DEF BudgetSet
    <2> QED
      BY <1>1, <1>4, <2>1, <2>2 DEF Init, TablesInv
  <1>6. RunningInv
    BY <1>1, <1>2, <1>3, <1>4 DEF RunningInv
  <1>7. HeldOnce /\ SessionsInv
    BY <1>1, <1>2, <1>4 DEF HeldOnce, SessionsInv
  <1>8. EndedInv
    BY <1>1, <1>3, <1>4 DEF EndedInv
  <1>9. SpentInv
    BY <1>1, <1>2 DEF SpentInv, SpentTokensAreRemembered
  <1> QED
    BY <1>5, <1>6, <1>7, <1>8, <1>9 DEF GrantsInv

LEMMA InvStep == GrantsInv /\ [Next]_vars => GrantsInv'
  <1> SUFFICES ASSUME GrantsInv, [Next]_vars PROVE GrantsInv'
    OBVIOUS
  <1>1. CASE Granting
    BY <1>1, SignInStep, AuthorizeStep, ApproveStep, RedeemStep DEF Granting
  <1>2. CASE Refreshing
    <2>1. PICK q \in Requests :
            \/ \E id \in DOMAIN tokens \cup {0} : Present(q, id)
            \/ SelectOverAge(q) \/ RevokeOverAge(q) \/ CeilingFails(q)
            \/ Lookup(q) \/ Spend(q) \/ Succeed(q) \/ Die(q)
      BY <1>2 DEF Refreshing
    <2> QED
      BY <2>1, PresentStep, CeilingStep, LookupStep, SpendRefused, SpendSucceeds, SucceedStep, DieStep
  <1>3. CASE Ending
    BY <1>3, PlainSteps, TurnSteps, RevokeSessionStep, DeleteSessionsStep, RevokeAllStep,
       DisconnectStep, ReconcileStep DEF Ending
  <1>4. CASE Cleanup \/ Tick
    BY <1>4, CleanupStep, TickStep
  <1>5. CASE UNCHANGED vars
    <2>1. /\ UNCHANGED <<now, standing, disabled, session, grants, approved, tokens, issued>>
          /\ UNCHANGED <<request, handler, budget, ended, excuse, spent>>
      BY <1>5 DEF vars, store, history
    <2>2. Handled
      BY <2>1, SameBoundsKept DEF Handled, RowsChange, GrantsInv, TablesInv
    <2> QED
      BY <2>1, <2>2, PlainKeeps
  <1> QED
    BY <1>1, <1>2, <1>3, <1>4, <1>5 DEF Next

LEMMA InvHolds == Spec => []GrantsInv
  BY InvInit, InvStep, PTL DEF Spec

-----------------------------------------------------------------------------
\* Every variable of the grants always has its type.
THEOREM TypeCorrect == Spec => []TypeOK
  <1>1. GrantsInv => TypeOK
    <2> SUFFICES ASSUME GrantsInv PROVE TypeOK
      OBVIOUS
    <2>1. now \in Nat /\ budget.time \in Nat /\ issued \in Nat /\ budget.tokens \in Nat
      BY DEF GrantsInv, TablesInv, BudgetSet
    <2>2. ASSUME NEW f \in Grants
          PROVE  grants[f] \in [user : Users, client : Clients, session : Sessions \cup {NoSession},
                                at : 0..budget.time]
      <3>1. grants[f] \in GrantSet /\ grants[f].at <= now /\ now <= budget.time
        BY GrantTypes DEF GrantsInv, TablesInv
      <3> QED
        BY <2>1, <3>1 DEF GrantSet
    <2>3. ASSUME NEW id \in DOMAIN tokens
          PROVE  /\ tokens[id] \in RowSet
                 /\ tokens[id].session = NoSession \/ session[tokens[id].session] = "live"
      <3>1. /\ tokens[id] \in TokenSet /\ tokens[id].grant \in Grants /\ tokens[id].at <= now
            /\ tokens[id].revoked # Never => tokens[id].revoked <= now
        BY DEF GrantsInv, TablesInv
      <3>2. now <= budget.time
        BY DEF GrantsInv, TablesInv
      <3> QED
        BY <2>1, <3>1, <3>2 DEF TokenSet, RowSet, Times, GrantsInv, SessionsInv
    <2>4. \A q \in Requests : request[q].pc \in {"idle", "ceiling", "over", "lookup", "spend", "insert"}
      BY DEF GrantsInv, RunningInv, RequestSet
    <2>5. /\ handler.stage \in {"rest", "revoke", "all", "reject"} /\ ended \subseteq Grants
          /\ \A f \in 1..budget.grants : excuse[f] \subseteq {"rotating", "approved", "detached", "during"}
      BY DEF GrantsInv, RunningInv, HandlerSet
    <2>6. /\ now <= budget.time /\ issued <= budget.tokens
          /\ standing \in [Users -> {"active", "barred", "rejected"}] /\ disabled \subseteq Clients
          /\ session \in [Sessions -> {"unused", "live", "gone"}]
          /\ approved \subseteq Grants /\ DOMAIN tokens \subseteq 1..issued
      BY DEF GrantsInv, TablesInv
    <2> QED
      BY <2>1, <2>2, <2>3, <2>4, <2>5, <2>6 DEF TypeOK
  <1> QED
    BY <1>1, InvHolds, PTL

\* However many requests refresh, reuse and revoke at once, a grant is held by
\* one token, one rotation or one device code (the provider's compare-and-set
\* and the tables of packages/database).
THEOREM HeldByOne == Spec => []OneTokenPerGrant
  <1>1. GrantsInv => OneTokenPerGrant
    <2> SUFFICES ASSUME GrantsInv, NEW f \in Grants
                 PROVE  Cardinality(Held(f))
                        + Cardinality({q \in Requests : request[q].pc = "insert" /\ request[q].row.grant = f})
                        + (IF f \in approved THEN 1 ELSE 0) <= 1
      BY DEF OneTokenPerGrant
    <2> DEFINE H == Held(f)
               R == {q \in Requests : request[q].pc = "insert" /\ request[q].row.grant = f}
    <2>1. /\ \A id : id \in H <=> Good(id, f)
          /\ \A q : q \in R <=> q \in Requests /\ Inserting(q, f)
      BY DEF Held, OfGrants, Unrevoked, Good, Inserting
    <2>2. /\ \A i, j : Good(i, f) /\ Good(j, f) => i = j
          /\ \A q, r \in Requests : Inserting(q, f) /\ Inserting(r, f) => q = r
          /\ \A q \in Requests : Inserting(q, f) => f \notin approved /\ \A id : ~Good(id, f)
          /\ f \in approved => \A id : ~Good(id, f)
      BY DEF GrantsInv, HeldOnce, Good
    <2> HIDE DEF H, R
    <2>3. Cardinality({}) = 0 /\ \A x : Cardinality({x}) = 1
      BY FS_EmptySet, FS_Singleton
    <2>4. H = {} \/ \E x : H = {x}
      BY <2>1, <2>2
    <2>5. R = {} \/ \E x : R = {x}
      BY <2>1, <2>2
    <2>6. /\ R # {} => f \notin approved /\ H = {}
          /\ f \in approved => H = {}
      BY <2>1, <2>2
    <2>7. /\ H # {} => Cardinality(H) = 1
          /\ R # {} => Cardinality(R) = 1
      <3>1. ASSUME NEW x, H = {x} PROVE Cardinality(H) = 1
        BY <2>3, <3>1
      <3>2. ASSUME NEW x, R = {x} PROVE Cardinality(R) = 1
        BY <2>3, <3>2
      <3> QED
        BY <2>4, <2>5, <3>1, <3>2
    <2>8. H = {} => Cardinality(H) = 0
      BY <2>3
    <2>9. Cardinality(H) + Cardinality(R) + (IF f \in approved THEN 1 ELSE 0) <= 1
      <3>1. CASE R # {}
        BY <2>6, <2>7, <2>8, <3>1
      <3>2. CASE R = {}
        <4>1. Cardinality(R) = 0
          BY <2>3, <3>2
        <4> QED
          BY <2>6, <2>7, <2>8, <4>1
      <3> QED
        BY <3>1, <3>2
    <2> QED
      BY <2>9 DEF H, R
  <1> QED
    BY <1>1, InvHolds, PTL

\* What a finished sign-out, ban, disconnection or reconciliation was meant to
\* end has no good token ever after, but for the four excuses
\* (oidc/revoke-user-tokens.ts, oidc/reconcile.ts).
THEOREM EndedForGood == Spec => []EndedStaysEnded
  <1>1. GrantsInv => EndedStaysEnded
    <2> SUFFICES ASSUME GrantsInv, NEW f \in ended, excuse[f] = {} PROVE Held(f) = {}
      BY DEF EndedStaysEnded
    <2>1. Extinct(f)
      BY DEF GrantsInv, EndedInv, RunningInv, Judged
    <2> QED
      BY <2>1 DEF Extinct, Held, OfGrants, Unrevoked, Good
  <1> QED
    BY <1>1, InvHolds, PTL

\* A spent token keeps its row for the grace, but for the time a rotation takes,
\* whatever sweeps and revokes meanwhile (cleanup.ts, TOKEN_GRACE_DAYS).
THEOREM ReuseIsRecognised == Spec => []SpentTokensAreRemembered
  <1>1. GrantsInv => SpentTokensAreRemembered
    BY DEF GrantsInv, SpentInv
  <1> QED
    BY <1>1, InvHolds, PTL

-----------------------------------------------------------------------------
(* What the ceiling selects.                                                *)

\* Every row lives as long as the configuration says, from its own clock.
ClocksInv == \A id \in DOMAIN tokens : tokens[id].expires = tokens[id].at + Ttl

\* What a step may do to the rows.
LEMMA TokenSteps ==
  ASSUME [Next]_vars
  PROVE  \/ UNCHANGED tokens
         \/ \E S : tokens' = Revoked(S)
         \/ \E c \in Clients : tokens' = Stamped(c)
         \/ \E S : tokens' = Detached(S, tokens)
         \/ \E S, R : tokens' = Detached(S, Revoked(R))
         \/ \E f, s : Insert(f, s)
         \/ Cleanup
  <1> DEFINE Same == UNCHANGED tokens
             Marked == \E S : tokens' = Revoked(S)
             Cleared == \E S : tokens' = Detached(S, tokens)
             Both == \E S, R : tokens' = Detached(S, Revoked(R))
             Added == \E f, s : Insert(f, s)
  <1>1. CASE Granting
    <2>1. ASSUME NEW s \in Sessions, SignIn(s) PROVE Same
      BY <2>1 DEF SignIn, store
    <2>2. ASSUME NEW s \in Sessions, NEW c \in Clients, Authorize(s, c) \/ Approve(s, c) PROVE Same \/ Added
      BY <2>2, Zenon DEF Authorize, Approve
    <2>3. ASSUME NEW f \in Grants, Redeem(f) PROVE Added
      BY <2>3, Zenon DEF Redeem
    <2> QED
      BY <1>1, <2>1, <2>2, <2>3, Zenon DEF Granting
  <1>2. CASE Refreshing
    <2>1. ASSUME NEW q \in Requests, NEW id, Present(q, id) PROVE Same
      BY <2>1 DEF Present, store
    <2>2. ASSUME NEW q \in Requests, SelectOverAge(q) \/ CeilingFails(q) \/ Die(q) PROVE Same
      BY <2>2 DEF SelectOverAge, CeilingFails, Die, store
    <2>3. ASSUME NEW q \in Requests, RevokeOverAge(q) PROVE Marked
      BY <2>3, Zenon DEF RevokeOverAge
    <2>4. ASSUME NEW q \in Requests, Lookup(q) PROVE Same \/ Marked
      <3>1. Same \/ tokens' = Revoked(OfGrants({tokens[request[q].row].grant}))
        BY <2>4 DEF Lookup
      <3> QED
        BY <3>1, Zenon
    <2>5. ASSUME NEW q \in Requests, Spend(q) PROVE Same \/ Marked
      <3>1. \/ Same
            \/ tokens' = Revoked({request[q].row})
            \/ tokens' = Revoked(OfGrants({tokens[request[q].row].grant}))
        BY <2>5 DEF Spend
      <3> QED
        BY <3>1, Zenon
    <2>6. ASSUME NEW q \in Requests, Succeed(q) PROVE Same \/ Added
      <3>1. Same \/ Insert(request[q].row.grant, request[q].row.session)
        BY <2>6 DEF Succeed
      <3> QED
        BY <3>1, Zenon
    <2> QED
      BY <1>2, <2>1, <2>2, <2>3, <2>4, <2>5, <2>6, Zenon DEF Refreshing
  <1>3. CASE Ending
    <2>1. ASSUME NEW s \in Sessions, Logout(s) \/ SweepSession(s) PROVE Cleared \/ Both
      <3>1. tokens' = Detached({s}, tokens) \/ tokens' = Detached({s}, Revoked(OfSession(s)))
        BY <2>1 DEF Logout, SweepSession
      <3> QED
        BY <3>1, Zenon
    <2>2. ASSUME NEW s \in Sessions, BeginSession(s) \/ BeginOthers(s) PROVE Same
      BY <2>2 DEF BeginSession, BeginOthers, store
    <2>3. ASSUME NEW s \in Sessions, RevokeSession(s) PROVE Marked
      BY <2>3, Zenon DEF RevokeSession
    <2>4. ASSUME DeleteSessions PROVE Cleared
      <3>1. PICK dead : tokens' = Detached(dead, tokens)
        BY <2>4, Zenon DEF DeleteSessions, Deletion
      <3> QED
        BY <3>1, Zenon
    <2>5. ASSUME RevokeAll PROVE Marked
      BY <2>5, Zenon DEF RevokeAll
    <2>6. ASSUME FinishReject PROVE Cleared
      BY <2>6, Zenon DEF FinishReject
    <2>7. ASSUME HandlerFails PROVE Same
      BY <2>7 DEF HandlerFails, store
    <2>8. ASSUME NEW u \in Users, BeginBar(u) \/ BeginSignOut(u) PROVE Same \/ Cleared
      <3>1. Same \/ tokens' = Detached(OfUser(u), tokens)
        BY <2>8 DEF BeginBar, BeginSignOut
      <3> QED
        BY <3>1, Zenon
    <2>9. ASSUME NEW u \in Users, BeginReject(u) \/ Lift(u) PROVE Same
      BY <2>9 DEF BeginReject, Lift, store
    <2>10. ASSUME NEW u \in Users, NEW c \in Clients, Disconnect(u, c) PROVE Marked
      BY <2>10, Zenon DEF Disconnect
    <2>11. ASSUME NEW c \in Clients, Reconcile(c) PROVE tokens' = Stamped(c)
      BY <2>11 DEF Reconcile
    <2>12. ASSUME NEW c \in Clients, Restore(c) PROVE Same
      BY <2>12 DEF Restore, store
    <2> QED
      BY <1>3, <2>1, <2>2, <2>3, <2>4, <2>5, <2>6, <2>7, <2>8, <2>9, <2>10, <2>11, <2>12, Zenon DEF Ending
  <1>4. CASE Tick \/ UNCHANGED vars
    BY <1>4 DEF Tick, vars, store
  <1> QED
    BY <1>1, <1>2, <1>3, <1>4, Zenon DEF Next

LEMMA ClocksStep ==
  ASSUME TablesInv, ClocksInv, [Next]_vars
  PROVE  ClocksInv'
  <1>0. tokens \in [DOMAIN tokens -> TokenSet] /\ now \in Nat
    BY DEF TablesInv
  <1>a. \A id \in DOMAIN tokens : tokens[id] \in TokenSet
    BY <1>0
  \* Rows that stay keep their clock.
  <1>b. ASSUME DOMAIN tokens' \subseteq DOMAIN tokens,
               \A id \in DOMAIN tokens' : tokens'[id].at = tokens[id].at /\ tokens'[id].expires = tokens[id].expires
        PROVE  ClocksInv'
    BY <1>b DEF ClocksInv
  <1>1. CASE UNCHANGED tokens
    BY <1>1 DEF ClocksInv
  <1>2. ASSUME NEW S, tokens' = Revoked(S) PROVE ClocksInv'
    BY <1>2, <1>b, RevokedRows
  <1>3. ASSUME NEW c \in Clients, tokens' = Stamped(c) PROVE ClocksInv'
    <2>1. DOMAIN tokens' = DOMAIN tokens
      BY <1>3 DEF Stamped
    <2>2. ASSUME NEW id \in DOMAIN tokens
          PROVE  tokens'[id].at = tokens[id].at /\ tokens'[id].expires = tokens[id].expires
      <3>1. PICK row \in TokenSet : row = tokens[id]
        BY <1>a
      <3>2. [row EXCEPT !.revoked = now].at = row.at /\ [row EXCEPT !.revoked = now].expires = row.expires
        BY DEF TokenSet
      <3>3. tokens'[id] = row \/ tokens'[id] = [row EXCEPT !.revoked = now]
        BY <1>3, <3>1 DEF Stamped
      <3> QED
        BY <3>1, <3>2, <3>3
    <2> QED
      BY <1>b, <2>1, <2>2
  <1>4. ASSUME NEW S, tokens' = Detached(S, tokens) PROVE ClocksInv'
    BY <1>0, <1>4, <1>b, DetachedRows
  <1>5. ASSUME NEW S, NEW R, tokens' = Detached(S, Revoked(R)) PROVE ClocksInv'
    <2>1. PICK t : t = Revoked(R)
      OBVIOUS
    <2>2. /\ t \in [DOMAIN t -> TokenSet] /\ DOMAIN t = DOMAIN tokens
          /\ \A id \in DOMAIN tokens : t[id].at = tokens[id].at /\ t[id].expires = tokens[id].expires
      BY <2>1, RevokedRows
    <2>3. tokens' = Detached(S, t)
      BY <1>5, <2>1
    <2>4. /\ DOMAIN tokens' = DOMAIN tokens
          /\ \A id \in DOMAIN tokens : tokens'[id].at = t[id].at /\ tokens'[id].expires = t[id].expires
      BY <2>2, <2>3, DetachedRows
    <2> QED
      BY <1>b, <2>2, <2>4
  <1>6. ASSUME NEW f, NEW s, Insert(f, s) PROVE ClocksInv'
    <2>1. \A id \in DOMAIN tokens' :
            \/ id \in DOMAIN tokens /\ tokens'[id] = tokens[id]
            \/ tokens'[id] = Row(f, s)
      BY <1>6 DEF Insert
    <2>2. Row(f, s).expires = Row(f, s).at + Ttl
      BY DEF Row
    <2> QED
      BY <2>1, <2>2 DEF ClocksInv
  <1>7. ASSUME Cleanup PROVE ClocksInv'
    BY <1>7, <1>b DEF Cleanup
  <1> QED
    BY <1>1, <1>2, <1>3, <1>4, <1>5, <1>6, <1>7, TokenSteps

\* Why the ceiling does not bound a grant that is refreshed in time, for any
\* lifetimes the configuration accepts: whatever families its query selects, the
\* tokens they still hold had expired, so no refresh could begin with them
\* (oidc/refresh-lifetime.ts 68-76).
CeilingFindsOnlyTheExpired ==
    \A f \in OverAge : \A id \in Held(f) : tokens[id].expires < now

THEOREM CeilingSelectsNothingLive == Spec => []CeilingFindsOnlyTheExpired
  <1>1. Init => GrantsInv /\ ClocksInv
    <2>1. Init => ClocksInv
      BY DEF Init, ClocksInv
    <2> QED
      BY <2>1, InvInit
  <1>2. (GrantsInv /\ ClocksInv) /\ [Next]_vars => (GrantsInv /\ ClocksInv)'
    BY InvStep, ClocksStep DEF GrantsInv
  <1>3. GrantsInv /\ ClocksInv => CeilingFindsOnlyTheExpired
    <2> SUFFICES ASSUME GrantsInv, ClocksInv, NEW f \in OverAge, NEW id \in Held(f)
                 PROVE  tokens[id].expires < now
      BY DEF CeilingFindsOnlyTheExpired
    <2>1. f \in Grants /\ \E old \in DOMAIN tokens : Good(old, f) /\ tokens[old].at < now - MaxLifetime
      BY DEF OverAge, Unrevoked, Good
    <2>2. Good(id, f) /\ id \in DOMAIN tokens
      BY DEF Held, OfGrants, Unrevoked, Good
    <2>3. tokens[id].at < now - MaxLifetime
      BY <2>1, <2>2 DEF GrantsInv, HeldOnce
    <2>4. tokens[id].expires = tokens[id].at + Ttl /\ tokens[id].at \in Nat /\ now \in Nat
      BY <2>2 DEF ClocksInv, GrantsInv, TablesInv, TokenSet
    <2> QED
      BY <2>3, <2>4, GrantsAssumption
  <1> QED
    BY <1>1, <1>2, <1>3, PTL DEF Spec
=============================================================================
