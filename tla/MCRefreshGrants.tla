-------------------------- MODULE MCRefreshGrants --------------------------
(* Small instances of RefreshGrants for TLC. *)
EXTENDS RefreshGrants, TLC

Symmetry == Permutations(Requests) \cup Permutations(Sessions)

OneUser == [s \in Sessions |-> CHOOSE u \in Users : TRUE]

\* Bounds of a behaviour: the clock, the rows, what may be in flight together,
\* how many sign-outs and bans, restarts, and failures of the ceiling.
Budget(ti, to, gr, se, pa, en, re, fa) ==
    [time |-> ti, tokens |-> to, grants |-> gr, sessions |-> se,
     parallel |-> pa, ends |-> en, restarts |-> re, failures |-> fa]

Device == Budget(0, 3, 2, 2, 1, 1, 0, 0)
Account == Budget(0, 3, 1, 1, 2, 2, 1, 0)
Age == Budget(5, 3, 1, 1, 1, 0, 1, 0)

Faulty == Budget(3, 3, 1, 1, 1, 1, 0, 1)

AllBudgets == {Device, Account, Age, Faulty}
CeilingBudget == {Budget(4, 4, 1, 1, 1, 0, 0, 0)}
RejectBudget == {Budget(0, 1, 1, 1, 1, 1, 0, 0)}
=============================================================================
