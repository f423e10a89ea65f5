----------------------------- MODULE OwnedTable -----------------------------
(***************************************************************************)
(* What a table that a start-up brings into line with a file promises about *)
(* who owns a row: one owner at a time, the file or an administrator.  The  *)
(* file may claim any name and drops only rows of its own.  A row of an     *)
(* administrator goes by a deletion or such a claim, and a row of the file  *)
(* also by a deletion that worked without the lock; no row ever passes from *)
(* one administrator to another, or from the file to an administrator,      *)
(* without having been gone.  GatewayTable and ClientTable implement it.    *)
(***************************************************************************)
CONSTANTS Names, Nobody, Admins, Config

VARIABLES
    owner,    \* owner[n]: whose row n is; Nobody's when there is none
    file,     \* the names in the file that was brought in last
    unlocked  \* the names somebody may have worked on without the lock since

Owned(o) == {n \in Names : owner[n] = o}

Init == owner = [n \in Names |-> Nobody] /\ file = {} /\ unlocked = {}

\* An administrator adds a row under a name that is free.
Register(n, u) ==
    /\ owner[n] = Nobody
    /\ owner' = [owner EXCEPT ![n] = u]
    /\ UNCHANGED <<file, unlocked>>

\* Rows go, or the lock fails to hold for some; a row of the file goes only
\* where it did.
Remove(gone) ==
    /\ gone \cap Owned(Config) \subseteq unlocked'
    /\ owner' = [n \in Names |-> IF n \in gone THEN Nobody ELSE owner[n]]
    /\ unlocked \subseteq unlocked'
    /\ UNCHANGED file

\* A start-up with the names f claims them, and drops others of the file's; it
\* may miss those of which the lock did not hold.
Reconcile(f, claimed, dropped) ==
    /\ file' = f
    /\ f \ claimed \subseteq unlocked'
    /\ owner' = [n \in Names |-> IF n \in claimed THEN Config
                                 ELSE IF n \in dropped THEN Nobody ELSE owner[n]]
    /\ unlocked' \subseteq unlocked

Next ==
    \/ \E n \in Names, u \in Admins : Register(n, u)
    \/ \E gone \in SUBSET Names : Remove(gone)
    \/ \E f \in SUBSET Names :
        \E claimed \in SUBSET f, dropped \in SUBSET (Owned(Config) \ f) : Reconcile(f, claimed, dropped)

Spec == Init /\ [][Next]_<<owner, file, unlocked>>
=============================================================================
