----------------------------- MODULE RateLimits -----------------------------
(***************************************************************************)
(* The two buckets of the token endpoint (routes/oauth2/token.ts), in fixed *)
(* windows of the table rate_limit (http/rate-limit.ts): one counts what a  *)
(* client was granted, the other what an address was refused in its name.   *)
(*                                                                         *)
(* A request looks at both, is forwarded, and is counted in one of them     *)
(* when the provider has answered; a poll of a device that is told to wait  *)
(* is in neither.  Looking and counting are statements of their own, and    *)
(* when the database fails both let the request through.                    *)
(***************************************************************************)
EXTENDS Integers, FiniteSets

CONSTANTS
    Tokens,      \* token requests that may be in flight together
    Addresses,   \* where they come from
    Client,      \* the bucket of the client that is named
    Window,      \* the length of a window
    Max,         \* Max[b]: TOKEN_RULE.max, ATTEMPT_RULE.max
    MaxClock,    \* bound on the time
    MaxAnswers,  \* bound on the answers
    MaxOutages   \* bound on failures of the database

Buckets == Addresses \cup {Client}

ASSUME LimitsAssumption ==
    /\ IsFiniteSet(Tokens)
    /\ Client \notin Addresses
    /\ Window \in Nat \ {0}
    /\ Max \in [Buckets -> Nat \ {0}]

VARIABLES
    bucket,      \* bucket[b]: the row [count, since]; a count of 0 is no row
    token,       \* token[r]: where the request is, its address and its answer
    clock,
    answers, outages,  \* how many there have been
    unseen       \* history: unseen[b]: looks at b that failed since its window began

limitVars == <<bucket, token, clock, answers, outages, unseen>>

Nothing == [pc |-> "idle", address |-> Client, answer |-> ""]

LimitsInit ==
    /\ bucket = [b \in Buckets |-> [count |-> 0, since |-> 0]]
    /\ token = [r \in Tokens |-> Nothing]
    /\ clock = 0
    /\ answers = 0 /\ outages = 0
    /\ unseen = [b \in Buckets |-> 0]

\* The window of the row has gone by: the next count begins a new one.
Over(b) == bucket[b].since + Window <= clock

\* Mutant: one more than the maximum is let through.
AllowedMutant(b) == bucket[b].count = 0 \/ Over(b) \/ bucket[b].count <= Max[b]

\* peek
Allowed(b) == bucket[b].count = 0 \/ Over(b) \/ bucket[b].count < Max[b]

Outage == outages < MaxOutages /\ outages' = outages + 1

-----------------------------------------------------------------------------
\* One look at a bucket: the request goes on, is refused with 429, or goes on
\* because the database could not be asked.
Peek(r, b, on) ==
    /\ \/ /\ token' = [token EXCEPT ![r] = IF Allowed(b) THEN on ELSE Nothing]
          /\ UNCHANGED <<outages, unseen>>
       \/ /\ Outage
          /\ token' = [token EXCEPT ![r] = on]
          /\ unseen' = [unseen EXCEPT ![b] = @ + 1]
    /\ UNCHANGED <<bucket, clock, answers>>

PeekClient(r, a) ==
    /\ token[r].pc = "idle"
    /\ Peek(r, Client, [pc |-> "peeked", address |-> a, answer |-> ""])

PeekAttempt(r) ==
    /\ token[r].pc = "peeked"
    /\ Peek(r, token[r].address, [token[r] EXCEPT !.pc = "forwarded"])

\* The provider's answer; what a poll is told is counted nowhere.
Answered(r, answer) ==
    /\ token[r].pc = "forwarded" /\ answers < MaxAnswers
    /\ answers' = answers + 1
    /\ token' = [token EXCEPT ![r] = IF answer = "wait" THEN Nothing
                                     ELSE [@ EXCEPT !.pc = "answered", !.answer = answer]]
    /\ UNCHANGED <<bucket, clock, outages, unseen>>

\* Whose request it was, the provider has decided: what nobody was granted does
\* not count against the client it names.
CountedIn(r) == IF token[r].answer = "ok" THEN Client ELSE token[r].address

\* consume: the check of the window and the increment are one statement.
Consume(r) ==
    /\ token[r].pc = "answered"
    /\ token' = [token EXCEPT ![r] = Nothing]
    /\ LET b == CountedIn(r)
           fresh == bucket[b].count = 0 \/ Over(b)
       IN \/ /\ bucket' = [bucket EXCEPT ![b] = [count |-> IF fresh THEN 1 ELSE @.count + 1,
                                                 since |-> IF fresh THEN clock ELSE @.since]]
             /\ unseen' = [unseen EXCEPT ![b] = IF fresh THEN 0 ELSE @]
             /\ UNCHANGED outages
          \/ Outage /\ UNCHANGED <<bucket, unseen>>
    /\ UNCHANGED <<clock, answers>>

Tick ==
    /\ clock < MaxClock
    /\ clock' = clock + 1
    /\ UNCHANGED <<bucket, token, answers, outages, unseen>>

LimitsNext ==
    \/ \E r \in Tokens :
        \/ \E a \in Addresses : PeekClient(r, a)
        \/ PeekAttempt(r) \/ Consume(r)
        \/ \E answer \in {"ok", "refused", "wait"} : Answered(r, answer)
    \/ Tick

LimitsSpec == LimitsInit /\ [][LimitsNext]_limitVars

-----------------------------------------------------------------------------
(* Properties.                                                             *)

TokenSet == [pc : {"idle", "peeked", "forwarded", "answered"},
             address : Buckets, answer : {"", "ok", "refused"}]

\* Every variable stays in its type, and no window began in the future.
LimitsTypeOK ==
    /\ bucket \in [Buckets -> [count : Nat, since : Nat]]
    /\ token \in [Tokens -> TokenSet]
    /\ \A r \in Tokens : token[r].pc # "idle" => token[r].address \in Addresses
    /\ clock \in Nat /\ answers \in Nat /\ outages \in Nat
    /\ unseen \in [Buckets -> Nat]
    /\ \A b \in Buckets : bucket[b].since <= clock

\* "A burst arriving inside one window can overshoot the maximum by its own
\* concurrency" and by no more: the count of a window that runs is below the
\* maximum and the number of requests in flight together, and the looks at the
\* bucket that failed in it (http/rate-limit.ts peek and consume).
OvershootIsTheConcurrency ==
    \A b \in Buckets : ~Over(b) =>
        bucket[b].count < Max[b] + Cardinality(Tokens) + unseen[b]
=============================================================================
