--------------------------- MODULE MCClientTable ---------------------------
(* Small instances of ClientTable for TLC. *)
EXTENDS ClientTable, TLC

CONSTANTS c1, c2

Entry(c, d, s) == c :> [disabled |-> d, secret |-> s]

\* No clients, a confidential one, a public one of another name.
SmallFiles == {<<>>, Entry(c1, FALSE, FileSecret), Entry(c2, FALSE, 0)}

\* Bounds of a behaviour: many calls, or start-ups among calls.
Budget(ca, bo) == [calls |-> ca, boots |-> bo]
AllBudgets == {Budget(3, 0), Budget(2, 1), Budget(1, 2)}
CallsOnly == {Budget(3, 0)}
StartsOnly == {Budget(0, 2)}
=============================================================================
