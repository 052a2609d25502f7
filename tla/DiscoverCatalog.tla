---------------------------- MODULE DiscoverCatalog ----------------------------
(***************************************************************************)
(* The discover catalog: seed.py replaces the rows of two tables, clients  *)
(* read them with GET /discover/catalog, keep the answer for a day, and    *)
(* name one of its cards when they submit a design on an example photo.    *)
(*                                                                         *)
(* A run of seed.py is one transaction that deletes all cards and assets   *)
(* and inserts those of its version of the seed data.  Nothing keeps two   *)
(* runs apart but what their statements meet under READ COMMITTED: row     *)
(* locks, primary keys, and the foreign key from cards to assets (ON       *)
(* DELETE RESTRICT).  Statements are whole: a run that inserts a batch of  *)
(* rows or waits for one does so for all of them.                          *)
(***************************************************************************)
EXTENDS Naturals, FiniteSets

CONSTANTS
    Runs,       \* runs of seed.py, each with the rows it inserts
    Rows,       \* [Runs -> sets of cards]: category, section, index, asset
    Assets,     \* [Runs -> sets of asset ids]
    Categories, \* required_category_keys
    Phones,
    Missing,    \* no card has this id (404)
    NoUse,      \* the phone has not submitted yet
    MaxFaults   \* bound on runs that die

\* seed.py is run by hand, after a migration or when the seed data has changed:
\* any number of times, but finitely often, and by more than one person.
ASSUME RunsAssumption == IsFiniteSet(Runs)

\* A card id is section-index; a phone submits it without its category.
Id(c) == <<c.section, c.index>>

\* _build_card_rows raises unless every card shows an asset of the seed data.
ASSUME RowsAssumption ==
    \A r \in Runs : \A c \in Rows[r] :
        c.asset \in Assets[r] /\ c.category \in Categories
\* What the code does not check and its seed data satisfies: section ids differ
\* between categories too, and all versions have an asset in common.
ASSUME IdsAssumption ==
    \A r \in Runs : \A c, d \in Rows[r] : Id(c) = Id(d) => c = d
ASSUME OverlapAssumption == \A r, s \in Runs : Assets[r] \cap Assets[s] # {}

VARIABLES
    cards,   \* runs whose cards are committed and not deleted
    assets,  \* runs whose assets are
    \* the transaction of each run
    pc,
    snap,    \* what its DELETE saw when it started
    noCards, \* runs whose cards it has deleted
    noAssets,
    died,
    \* phones
    shown,   \* the cards a phone has in its cache
    used     \* its last submission: the card, the photo, the cards in the table

runVars == <<pc, snap, noCards, noAssets, died>>
phoneVars == <<shown, used>>
vars == <<cards, assets, pc, snap, noCards, noAssets, died, shown, used>>

Over == {"none", "done", "failed"}

\* Rows of two runs cannot both be in a table.
AssetsClash(r, s) == Assets[r] \cap Assets[s] # {}
CardsClash(r, s) ==
    \E c \in Rows[r], d \in Rows[s] : c.category = d.category /\ Id(c) = Id(d)

\* The cards a query joins with their assets.
Joined(batches) ==
    {c \in UNION {Rows[r] : r \in batches} : \E r \in assets : c.asset \in Assets[r]}

\* The other transactions a statement of r waits for: those that are deleting a
\* row it deletes, a card of an asset it has deleted, or a row with one of its
\* keys, and those that have inserted such a row.
WaitsFor(r) ==
    {s \in Runs \ {r} :
        CASE pc[r] = "cards" -> noCards[s] \cap snap[r] # {}
          [] pc[r] = "assets" -> noAssets[s] \cap snap[r] # {}
          [] pc[r] = "check" -> noCards[s] \cap noAssets[r] # {}
          [] pc[r] = "insert" ->
                \/ pc[s] \in {"inserted", "commit"} /\ AssetsClash(r, s)
                \/ \E b \in noAssets[s] : AssetsClash(r, b)
          [] pc[r] = "inserted" ->
                \/ pc[s] = "commit" /\ CardsClash(r, s)
                \/ \E b \in noCards[s] : CardsClash(r, b)
          [] OTHER -> FALSE}

\* Everyone in a set of transactions waits for another one of the set.
Deadlocked(r) ==
    \E S \in SUBSET Runs : r \in S /\ \A s \in S : WaitsFor(s) \cap S # {}

Init ==
    /\ \E seeded \in {S \in SUBSET Runs : Cardinality(S) <= 1} :
          /\ cards = seeded
          /\ assets = seeded
          /\ pc = [r \in Runs |-> IF r \in seeded THEN "done" ELSE "none"]
    /\ snap = [r \in Runs |-> {}]
    /\ noCards = [r \in Runs |-> {}]
    /\ noAssets = [r \in Runs |-> {}]
    /\ died = {}
    /\ shown = [p \in Phones |-> {}]
    /\ used = [p \in Phones |-> NoUse]

-----------------------------------------------------------------------------
(***************************************************************************)
(* seed_discover_catalog.                                                  *)
(***************************************************************************)

Goto(r, place) == pc' = [pc EXCEPT ![r] = place]

\* DELETE FROM cards takes its snapshot ...
SeeCards(r) ==
    /\ pc[r] = "none"
    /\ snap' = [snap EXCEPT ![r] = cards]
    /\ Goto(r, "cards")
    /\ UNCHANGED <<cards, assets, noCards, noAssets, died, phoneVars>>

\* ... waits for whoever is deleting one of the rows it saw, and passes over
\* those that are gone by then.
DeleteCards(r) ==
    /\ pc[r] = "cards"
    /\ WaitsFor(r) = {}
    /\ noCards' = [noCards EXCEPT ![r] = snap[r] \cap cards]
    /\ Goto(r, "see")
    /\ UNCHANGED <<cards, assets, snap, noAssets, died, phoneVars>>

SeeAssets(r) ==
    /\ pc[r] = "see"
    /\ snap' = [snap EXCEPT ![r] = assets]
    /\ Goto(r, "assets")
    /\ UNCHANGED <<cards, assets, noCards, noAssets, died, phoneVars>>

DeleteAssets(r) ==
    /\ pc[r] = "assets"
    /\ WaitsFor(r) = {}
    /\ noAssets' = [noAssets EXCEPT ![r] = snap[r] \cap assets]
    /\ Goto(r, "check")
    /\ UNCHANGED <<cards, assets, snap, noCards, died, phoneVars>>

\* The transaction is over and has changed nothing.
RolledBack(r) ==
    /\ Goto(r, "failed")
    /\ snap' = [snap EXCEPT ![r] = {}]
    /\ noCards' = [noCards EXCEPT ![r] = {}]
    /\ noAssets' = [noAssets EXCEPT ![r] = {}]
    /\ UNCHANGED <<cards, assets, phoneVars>>

\* The foreign key refuses to delete an asset with a card that was not there
\* for the first DELETE; a card that is being deleted makes it wait.
CheckCards(r) ==
    /\ pc[r] = "check"
    /\ WaitsFor(r) = {}
    /\ UNCHANGED died
    /\ IF noAssets[r] \cap (cards \ noCards[r]) # {}
       THEN RolledBack(r)
       ELSE /\ Goto(r, "insert")
            /\ UNCHANGED <<cards, assets, snap, noCards, noAssets, phoneVars>>

\* The INSERTs fail if a row with one of their keys is there.
InsertAssets_Retries(r) ==
    /\ pc[r] = "insert"
    /\ WaitsFor(r) = {}
    /\ \A s \in assets \ noAssets[r] : ~AssetsClash(r, s)
    /\ Goto(r, "inserted")
    /\ UNCHANGED <<cards, assets, snap, noCards, noAssets, died, phoneVars>>

InsertAssets(r) ==
    /\ pc[r] = "insert"
    /\ WaitsFor(r) = {}
    /\ UNCHANGED died
    /\ IF \E s \in assets \ noAssets[r] : AssetsClash(r, s)
       THEN RolledBack(r)
       ELSE /\ Goto(r, "inserted")
            /\ UNCHANGED <<cards, assets, snap, noCards, noAssets, phoneVars>>

InsertCards(r) ==
    /\ pc[r] = "inserted"
    /\ WaitsFor(r) = {}
    /\ UNCHANGED died
    /\ IF \E s \in cards \ noCards[r] : CardsClash(r, s)
       THEN RolledBack(r)
       ELSE /\ Goto(r, "commit")
            /\ UNCHANGED <<cards, assets, snap, noCards, noAssets, phoneVars>>

Commit_AfterDelete(r) ==
    /\ pc[r] \in {"insert", "commit"}
    /\ cards' = (cards \ noCards[r]) \cup (IF pc[r] = "commit" THEN {r} ELSE {})
    /\ assets' = (assets \ noAssets[r]) \cup (IF pc[r] = "commit" THEN {r} ELSE {})
    /\ Goto(r, IF pc[r] = "commit" THEN "done" ELSE "insert")
    /\ snap' = [snap EXCEPT ![r] = {}]
    /\ noCards' = [noCards EXCEPT ![r] = {}]
    /\ noAssets' = [noAssets EXCEPT ![r] = {}]
    /\ UNCHANGED <<died, phoneVars>>

Commit(r) ==
    /\ pc[r] = "commit"
    /\ cards' = (cards \ noCards[r]) \cup {r}
    /\ assets' = (assets \ noAssets[r]) \cup {r}
    /\ Goto(r, "done")
    /\ snap' = [snap EXCEPT ![r] = {}]
    /\ noCards' = [noCards EXCEPT ![r] = {}]
    /\ noAssets' = [noAssets EXCEPT ![r] = {}]
    /\ UNCHANGED <<died, phoneVars>>

\* PostgreSQL aborts a transaction of a deadlock.
DeadlockAborts(r) ==
    /\ Deadlocked(r)
    /\ RolledBack(r)
    /\ UNCHANGED died

\* The process or its connection dies.
Dies(r) ==
    /\ pc[r] \notin Over
    /\ Cardinality(died) < MaxFaults
    /\ died' = died \cup {r}
    /\ RolledBack(r)

-----------------------------------------------------------------------------
(***************************************************************************)
(* get_discover_catalog and _resolve_example_input_refs.                   *)
(***************************************************************************)

\* No rows are a 503, rows without one of the categories a 500; the phone
\* keeps what it has.
GetCatalog(p) ==
    LET rows == Joined(cards) IN
    /\ rows # {}
    /\ \A k \in Categories : \E c \in rows : c.category = k
    /\ shown' = [shown EXCEPT ![p] = rows]
    /\ used' = [used EXCEPT ![p] = NoUse]
    /\ UNCHANGED <<cards, assets, runVars>>

\* LIMIT 1 without an order: any card with the id.
Photos_AnyOfSection(id) == {c.asset : c \in {d \in Joined(cards) : d.section = id[1]}}
Photos(id) == {c.asset : c \in {d \in Joined(cards) : Id(d) = id}}

SubmitExample(p) ==
    /\ used[p] = NoUse
    /\ \E c \in shown[p] :
        \E photo \in IF Photos(Id(c)) = {} THEN {Missing} ELSE Photos(Id(c)) :
            used' = [used EXCEPT ![p] =
                        [card |-> c, photo |-> photo, table |-> Joined(cards)]]
    /\ UNCHANGED <<cards, assets, runVars, shown>>

RunStep(r) ==
    \/ SeeCards(r) \/ DeleteCards(r) \/ SeeAssets(r) \/ DeleteAssets(r)
    \/ CheckCards(r) \/ InsertAssets(r) \/ InsertCards(r) \/ Commit(r)
    \/ DeadlockAborts(r)

Next ==
    \/ \E r \in Runs : RunStep(r) \/ Dies(r)
    \/ \E p \in Phones : GetCatalog(p) \/ SubmitExample(p)

Spec == Init /\ [][Next]_vars

\* A run that was started goes on; runs are finite in number, so whoever waits
\* for a lock gets it.
FairSpec == Spec /\ \A r \in Runs : WF_vars(pc[r] # "none" /\ RunStep(r))

-----------------------------------------------------------------------------

TypeOK ==
    /\ cards \subseteq Runs
    /\ assets \subseteq Runs
    /\ pc \in [Runs -> {"none", "cards", "see", "assets", "check", "insert",
                        "inserted", "commit", "done", "failed"}]
    /\ snap \in [Runs -> SUBSET Runs]
    /\ noCards \in [Runs -> SUBSET cards]
    /\ noAssets \in [Runs -> SUBSET assets]
    /\ died \subseteq Runs

\* However runs of seed.py interleave or die, the tables hold the rows of one
\* of them: never those of two, nor the cards of one with the assets of
\* another.  A catalog that was seeded once never reads as empty.
OneVersion ==
    /\ cards = assets
    /\ Cardinality(cards) <= 1
    /\ (\E r \in Runs : pc[r] = "done") => cards # {}

\* Concurrent runs and readers see a register: each run replaces the catalog
\* once and as a whole, and a phone shows one version, not parts of two.
Register == INSTANCE CatalogRegister
    WITH version <- cards, published <- {r \in Runs : pc[r] = "done"}
RegisterSpec == Register!Spec

\* A design is made on the photo its user tapped, unless the catalog has other
\* cards by then: ids are positions, and a phone keeps a catalog for a day.
UsesShownPhoto ==
    \A p \in Phones : used[p] # NoUse =>
        \/ used[p].photo = used[p].card.asset
        \/ used[p].table # shown[p]

\* No run waits for ever for another.
RunsEnd == \A r \in Runs : pc[r] # "none" ~> pc[r] \in Over
=============================================================================
