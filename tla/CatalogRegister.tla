--------------------------- MODULE CatalogRegister ---------------------------
(***************************************************************************)
(* What the discover catalog promises: the two tables are one register.    *)
(* A run of seed.py replaces its value once and as a whole, and a phone    *)
(* reads whole values.  Nothing here knows of statements, row locks or     *)
(* keys; module DiscoverCatalog does, and implements this one.             *)
(***************************************************************************)
CONSTANTS
    Runs,  \* runs of seed.py, each with the version it publishes
    Rows,  \* [Runs -> sets of cards]
    Phones

VARIABLES
    version,   \* {}, or the run whose rows the tables hold
    published, \* runs that have published
    shown      \* the cards a phone has in its cache

registerVars == <<version, published, shown>>

\* A table that was never seeded is empty.
Init ==
    /\ version \in {{}} \cup {{r} : r \in Runs}
    /\ published = version
    /\ shown = [p \in Phones |-> {}]

Publish(r) ==
    /\ r \notin published
    /\ version' = {r}
    /\ published' = published \cup {r}
    /\ UNCHANGED shown

Read(p) ==
    /\ \E r \in version : shown' = [shown EXCEPT ![p] = Rows[r]]
    /\ UNCHANGED <<version, published>>

Next == (\E r \in Runs : Publish(r)) \/ (\E p \in Phones : Read(p))

Spec == Init /\ [][Next]_registerVars
=============================================================================
