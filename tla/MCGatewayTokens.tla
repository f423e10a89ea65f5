-------------------------- MODULE MCGatewayTokens --------------------------
(* Small instances of GatewayTokens for TLC. *)
EXTENDS GatewayTokens, TLC

CONSTANTS Mixed, Crowd    \* the credentials of the two scenarios

Symmetry == Permutations(Requests) \cup Permutations(Crowd)

\* Bounds of a behaviour: the callers, how many exchanges at once, the changes
\* of access, the edits and deletions of gateways, the errors.
Budget(ca, pa, ac, ga, er) ==
    [callers |-> ca, parallel |-> pa, access |-> ac, gateways |-> ga, errors |-> er]

\* Two credentials whose owners change; one of them at a gateway that changes
\* as well; a crowd in a small cache.
AllBudgets == {
    Budget(Mixed, 1, 2, 0, 1),
    Budget(Mixed \cap Keys, 1, 2, 2, 0),
    Budget(Mixed \cap Sessions, 1, 2, 1, 0),
    Budget(Crowd, 2, 0, 0, 0)}
OneEnd == {Budget(Sessions, 1, 1, 0, 0)}
=============================================================================
