-------------------------- MODULE DiscoverCatalogProofs --------------------------
(***************************************************************************)
(* Proofs about DiscoverCatalog, for any number of runs and phones, and    *)
(* any seed data with the properties the module assumes.                   *)
(***************************************************************************)
EXTENDS DiscoverCatalog, FiniteSetTheorems, TLAPS

-----------------------------------------------------------------------------
(***************************************************************************)
(* The inductive invariant.                                                *)
(***************************************************************************)

Types ==
    /\ cards \subseteq Runs
    /\ assets \subseteq Runs
    /\ pc \in [Runs -> {"none", "cards", "see", "assets", "check", "insert",
                        "inserted", "commit", "done", "failed"}]
    /\ snap \in [Runs -> SUBSET Runs]
    /\ noCards \in [Runs -> SUBSET Runs]
    /\ noAssets \in [Runs -> SUBSET Runs]
    /\ shown = [p \in Phones |-> shown[p]]
    /\ used = [p \in Phones |-> used[p]]

\* The tables hold the batch of at most one run, one that has committed.
TableInv ==
    /\ cards = assets
    /\ \A r, s \in cards : r = s
    /\ \A r \in cards : pc[r] = "done"
    /\ (\E r \in Runs : pc[r] = "done") => cards # {}

\* Rows deleted and not committed are locked: they are still in the table, and
\* deleted by one run.
RowInv ==
    \A r \in Runs :
        /\ noCards[r] \subseteq cards
        /\ noAssets[r] \subseteq assets
        /\ noAssets[r] # {} =>
              pc[r] \in {"check", "insert", "inserted", "commit"}
        /\ noCards[r] # {} => pc[r] \notin Over \cup {"cards"}
        /\ \A s \in Runs \ {r} : /\ noCards[r] \cap noCards[s] = {}
                                 /\ noAssets[r] \cap noAssets[s] = {}

\* Behind the check of the foreign key a run has deleted the cards of all
\* assets it deleted; behind its first INSERT it has deleted everything.
DeletedInv ==
    \A r \in Runs :
        /\ pc[r] = "insert" => noAssets[r] \subseteq noCards[r]
        /\ pc[r] \in {"inserted", "commit"} =>
              /\ noAssets[r] = assets
              /\ noCards[r] = cards

\* The primary key lets one run pass its first INSERT.
KeyInv ==
    \A r, s \in Runs :
        pc[r] \in {"inserted", "commit"} /\ pc[s] \in {"inserted", "commit"} =>
            r = s

IInv == Types /\ TableInv /\ RowInv /\ DeletedInv /\ KeyInv /\ UsesShownPhoto

\* The tables that a program finds were seeded once or never.
LEMMA AtMostOne ==
    ASSUME NEW S \in SUBSET Runs, Cardinality(S) <= 1
    PROVE  S = {} \/ \E r \in Runs : S = {r}
  <1>1. IsFiniteSet(S)
    BY RunsAssumption, FS_Subset
  <1>2. Cardinality(S) = 0 \/ Cardinality(S) = 1
    BY <1>1, FS_CardinalityType
  <1>3. S = {} \/ \E r : S = {r}
    BY <1>1, <1>2, FS_EmptySet, FS_Singleton
  <1> QED
    BY <1>3

LEMMA InitIInv == Init => IInv
  <1> SUFFICES ASSUME Init PROVE IInv
    OBVIOUS
  <1>1. PICK S \in SUBSET Runs :
            /\ Cardinality(S) <= 1
            /\ cards = S /\ assets = S
            /\ pc = [r \in Runs |-> IF r \in S THEN "done" ELSE "none"]
    BY DEF Init
  <1>2. \A r, s \in S : r = s
    BY <1>1, AtMostOne
  <1>3. Types
    BY <1>1 DEF Init, Types
  <1>4. TableInv /\ RowInv /\ DeletedInv /\ KeyInv /\ UsesShownPhoto
    BY <1>1, <1>2 DEF Init, TableInv, RowInv, DeletedInv, KeyInv, UsesShownPhoto
  <1> QED
    BY <1>3, <1>4 DEF IInv

\* Any two versions have an asset in common, so their INSERTs meet.
LEMMA Clash ==
    ASSUME NEW r \in Runs, NEW s \in Runs
    PROVE  AssetsClash(r, s)
  BY OverlapAssumption DEF AssetsClash

-----------------------------------------------------------------------------
(***************************************************************************)
(* Steps of a run.                                                         *)
(***************************************************************************)

\* Every step of r but its commit leaves the tables, the phones and what
\* other runs have done.
Quiet(r) ==
    /\ UNCHANGED <<cards, assets, shown, used>>
    /\ \A s \in Runs \ {r} : /\ pc'[s] = pc[s]
                             /\ noCards'[s] = noCards[s]
                             /\ noAssets'[s] = noAssets[s]
    /\ pc[r] # "done" /\ pc'[r] # "done"

LEMMA QuietInv ==
    ASSUME IInv, NEW r \in Runs, Quiet(r), Types', RowInv', DeletedInv', KeyInv'
    PROVE  IInv'
  <1>1. \A s \in Runs : pc'[s] = "done" <=> pc[s] = "done"
    BY DEF Quiet
  <1>2. TableInv'
    BY <1>1 DEF IInv, TableInv, Quiet, Types
  <1>3. UsesShownPhoto'
    BY DEF IInv, UsesShownPhoto, Quiet
  <1> QED
    BY <1>2, <1>3 DEF IInv

LEMMA RolledBackInv ==
    ASSUME IInv, NEW r \in Runs, RolledBack(r), pc[r] # "done"
    PROVE  IInv'
  <1>1. /\ UNCHANGED <<cards, assets, shown, used>>
        /\ pc' = [pc EXCEPT ![r] = "failed"]
        /\ snap' = [snap EXCEPT ![r] = {}]
        /\ noCards' = [noCards EXCEPT ![r] = {}]
        /\ noAssets' = [noAssets EXCEPT ![r] = {}]
    BY DEF RolledBack, Goto, phoneVars
  <1>2. Types'
    BY <1>1 DEF IInv, Types
  <1>3. Quiet(r)
    BY <1>1 DEF Quiet, IInv, Types
  <1>4. RowInv' /\ DeletedInv' /\ KeyInv'
    BY <1>1 DEF IInv, Types, RowInv, DeletedInv, KeyInv
  <1> QED
    BY <1>2, <1>3, <1>4, QuietInv

\* The DELETEs take the rows nobody else is deleting.
LEMMA DeleteInv ==
    ASSUME IInv, NEW r \in Runs,
           SeeCards(r) \/ DeleteCards(r) \/ SeeAssets(r) \/ DeleteAssets(r)
    PROVE  IInv'
  <1>1. CASE SeeCards(r) \/ SeeAssets(r)
    <2>1. PICK place \in {"cards", "assets"} :
              /\ pc[r] = (IF place = "cards" THEN "none" ELSE "see")
              /\ pc' = [pc EXCEPT ![r] = place]
              /\ snap' \in [Runs -> SUBSET Runs]
              /\ UNCHANGED <<cards, assets, noCards, noAssets, shown, used>>
      <3>1. cards \subseteq Runs /\ assets \subseteq Runs
            /\ snap \in [Runs -> SUBSET Runs]
        BY DEF IInv, Types
      <3> QED
        BY <1>1, <3>1 DEF SeeCards, SeeAssets, Goto, phoneVars
    <2>2. Types'
      BY <2>1 DEF IInv, Types
    <2>3. Quiet(r) /\ RowInv' /\ DeletedInv' /\ KeyInv'
      BY <2>1 DEF Quiet, IInv, Types, RowInv, DeletedInv, KeyInv, Over
    <2> QED
      BY <2>2, <2>3, QuietInv
  <1>2. CASE DeleteCards(r)
    <2>1. /\ pc[r] = "cards" /\ pc' = [pc EXCEPT ![r] = "see"]
          /\ noCards' = [noCards EXCEPT ![r] = snap[r] \cap cards]
          /\ UNCHANGED <<cards, assets, snap, noAssets, shown, used>>
      BY <1>2 DEF DeleteCards, Goto, phoneVars
    <2>2. \A s \in Runs \ {r} : noCards[s] \cap snap[r] = {}
      BY <1>2, <2>1 DEF DeleteCards, WaitsFor
    <2>3. Types'
      BY <2>1 DEF IInv, Types
    <2>4. RowInv'
      BY <2>1, <2>2 DEF IInv, Types, RowInv, Over
    <2>5. Quiet(r) /\ DeletedInv' /\ KeyInv'
      BY <2>1 DEF Quiet, IInv, Types, DeletedInv, KeyInv
    <2> QED
      BY <2>3, <2>4, <2>5, QuietInv
  <1>3. CASE DeleteAssets(r)
    <2>1. /\ pc[r] = "assets" /\ pc' = [pc EXCEPT ![r] = "check"]
          /\ noAssets' = [noAssets EXCEPT ![r] = snap[r] \cap assets]
          /\ UNCHANGED <<cards, assets, snap, noCards, shown, used>>
      BY <1>3 DEF DeleteAssets, Goto, phoneVars
    <2>2. \A s \in Runs \ {r} : noAssets[s] \cap snap[r] = {}
      BY <1>3, <2>1 DEF DeleteAssets, WaitsFor
    <2>3. Types'
      BY <2>1 DEF IInv, Types
    <2>4. RowInv'
      BY <2>1, <2>2 DEF IInv, Types, RowInv, Over
    <2>5. Quiet(r) /\ DeletedInv' /\ KeyInv'
      BY <2>1 DEF Quiet, IInv, Types, DeletedInv, KeyInv
    <2> QED
      BY <2>3, <2>4, <2>5, QuietInv
  <1> QED
    BY <1>1, <1>2, <1>3

LEMMA CheckInv ==
    ASSUME IInv, NEW r \in Runs, CheckCards(r)
    PROVE  IInv'
  <1>1. CASE noAssets[r] \cap (cards \ noCards[r]) # {}
    BY <1>1, RolledBackInv DEF CheckCards
  <1>2. CASE noAssets[r] \cap (cards \ noCards[r]) = {}
    <2>1. /\ pc[r] = "check" /\ pc' = [pc EXCEPT ![r] = "insert"]
          /\ UNCHANGED <<cards, assets, snap, noCards, noAssets, shown, used>>
      BY <1>2 DEF CheckCards, Goto, phoneVars
    <2>2. noAssets[r] \subseteq noCards[r]
      BY <1>2 DEF IInv, RowInv, TableInv
    <2>3. Types'
      BY <2>1 DEF IInv, Types
    <2>4. Quiet(r) /\ RowInv' /\ DeletedInv' /\ KeyInv'
      BY <2>1, <2>2 DEF Quiet, IInv, Types, RowInv, DeletedInv, KeyInv, Over
    <2> QED
      BY <2>3, <2>4, QuietInv
  <1> QED
    BY <1>1, <1>2

\* Whoever passes its first INSERT has deleted the assets of every version,
\* and so their cards.
LEMMA InsertAssetsInv ==
    ASSUME IInv, NEW r \in Runs, InsertAssets(r)
    PROVE  IInv'
  <1>1. CASE \E s \in assets \ noAssets[r] : AssetsClash(r, s)
    BY <1>1, RolledBackInv DEF InsertAssets
  <1>2. CASE ~ \E s \in assets \ noAssets[r] : AssetsClash(r, s)
    <2>1. /\ pc[r] = "insert" /\ pc' = [pc EXCEPT ![r] = "inserted"]
          /\ UNCHANGED <<cards, assets, snap, noCards, noAssets, shown, used>>
      BY <1>2 DEF InsertAssets, Goto, phoneVars
    <2>2. noAssets[r] = assets /\ noCards[r] = cards
      <3>1. assets \subseteq noAssets[r]
        BY <1>2, Clash DEF IInv, Types
      <3>2. noAssets[r] \subseteq assets /\ noCards[r] \subseteq cards
        BY DEF IInv, RowInv
      <3>3. noAssets[r] \subseteq noCards[r] /\ cards = assets
        BY <2>1 DEF IInv, DeletedInv, TableInv
      <3> QED
        BY <3>1, <3>2, <3>3
    <2>3. \A s \in Runs \ {r} : pc[s] \notin {"inserted", "commit"}
      BY <1>2, <2>1, Clash DEF InsertAssets, WaitsFor
    <2>4. Types'
      BY <2>1 DEF IInv, Types
    <2>5. Quiet(r) /\ RowInv' /\ DeletedInv' /\ KeyInv'
      BY <2>1, <2>2, <2>3
      DEF Quiet, IInv, Types, RowInv, DeletedInv, KeyInv, Over
    <2> QED
      BY <2>4, <2>5, QuietInv
  <1> QED
    BY <1>1, <1>2

LEMMA InsertCardsInv ==
    ASSUME IInv, NEW r \in Runs, InsertCards(r)
    PROVE  IInv'
  <1>1. CASE \E s \in cards \ noCards[r] : CardsClash(r, s)
    BY <1>1, RolledBackInv DEF InsertCards
  <1>2. CASE ~ \E s \in cards \ noCards[r] : CardsClash(r, s)
    <2>1. /\ pc[r] = "inserted" /\ pc' = [pc EXCEPT ![r] = "commit"]
          /\ UNCHANGED <<cards, assets, snap, noCards, noAssets, shown, used>>
      BY <1>2 DEF InsertCards, Goto, phoneVars
    <2>2. Types'
      BY <2>1 DEF IInv, Types
    <2>3. Quiet(r) /\ RowInv' /\ DeletedInv' /\ KeyInv'
      BY <2>1 DEF Quiet, IInv, Types, RowInv, DeletedInv, KeyInv, Over
    <2> QED
      BY <2>2, <2>3, QuietInv
  <1> QED
    BY <1>1, <1>2

\* A commit replaces whatever the tables hold; no other run is past its first
\* INSERT, and the rows others have deleted are gone: there are none.
LEMMA CommitInv ==
    ASSUME IInv, NEW r \in Runs, Commit(r)
    PROVE  IInv'
  <1>1. /\ pc[r] = "commit" /\ pc' = [pc EXCEPT ![r] = "done"]
        /\ cards' = (cards \ noCards[r]) \cup {r}
        /\ assets' = (assets \ noAssets[r]) \cup {r}
        /\ snap' = [snap EXCEPT ![r] = {}]
        /\ noCards' = [noCards EXCEPT ![r] = {}]
        /\ noAssets' = [noAssets EXCEPT ![r] = {}]
        /\ UNCHANGED <<shown, used>>
    BY DEF Commit, Goto, phoneVars
  <1>2. cards' = {r} /\ assets' = {r}
    BY <1>1 DEF IInv, DeletedInv
  <1>3. \A s \in Runs \ {r} : noCards[s] = {} /\ noAssets[s] = {}
    BY <1>1 DEF IInv, DeletedInv, RowInv
  <1>4. \A s \in Runs \ {r} : pc[s] \notin {"inserted", "commit"}
    BY <1>1 DEF IInv, KeyInv
  <1>5. Types'
    BY <1>1, <1>2 DEF IInv, Types
  <1>6. TableInv'
    BY <1>1, <1>2 DEF IInv, Types, TableInv
  <1>7. RowInv' /\ DeletedInv' /\ KeyInv'
    BY <1>1, <1>3, <1>4 DEF IInv, Types, RowInv, DeletedInv, KeyInv
  <1>8. UsesShownPhoto'
    BY <1>1 DEF IInv, UsesShownPhoto
  <1> QED
    BY <1>5, <1>6, <1>7, <1>8 DEF IInv

-----------------------------------------------------------------------------
(***************************************************************************)
(* Phones.                                                                 *)
(***************************************************************************)

\* With one version in the table, an id names one card of it.
LEMMA OneCard ==
    ASSUME IInv, NEW c \in Joined(cards), NEW d \in Joined(cards), Id(c) = Id(d)
    PROVE  c = d
  <1>1. PICK r \in cards, s \in cards : c \in Rows[r] /\ d \in Rows[s]
    BY DEF Joined
  <1>2. r = s /\ r \in Runs
    BY DEF IInv, TableInv, Types
  <1> QED
    BY <1>1, <1>2, IdsAssumption

LEMMA PhoneInv ==
    ASSUME IInv, NEW p \in Phones, GetCatalog(p) \/ SubmitExample(p)
    PROVE  IInv'
  <1>1. UNCHANGED <<cards, assets, pc, snap, noCards, noAssets>>
    BY DEF GetCatalog, SubmitExample, runVars
  <1>2. TableInv' /\ RowInv' /\ DeletedInv' /\ KeyInv'
    BY <1>1 DEF IInv, TableInv, RowInv, DeletedInv, KeyInv
  <1>3. CASE GetCatalog(p)
    <2>1. /\ shown' = [shown EXCEPT ![p] = Joined(cards)]
          /\ used' = [used EXCEPT ![p] = NoUse]
      BY <1>3 DEF GetCatalog
    <2>2. Types'
      BY <1>1, <2>1 DEF IInv, Types
    <2>3. UsesShownPhoto'
      BY <2>1 DEF IInv, Types, UsesShownPhoto
    <2> QED
      BY <1>2, <2>2, <2>3 DEF IInv
  <1>4. CASE SubmitExample(p)
    <2> DEFINE Use(c, photo) ==
                  [card |-> c, photo |-> photo, table |-> Joined(cards)]
    <2>1. PICK c \in shown[p] :
              \E photo \in IF Photos(Id(c)) = {} THEN {Missing} ELSE Photos(Id(c)) :
                  used' = [used EXCEPT ![p] = Use(c, photo)]
      BY <1>4 DEF SubmitExample
    <2>2. PICK photo \in IF Photos(Id(c)) = {} THEN {Missing} ELSE Photos(Id(c)) :
              used' = [used EXCEPT ![p] = Use(c, photo)]
      BY <2>1
    <2>3. shown' = shown
      BY <1>4 DEF SubmitExample
    <2>4. Types'
      BY <1>1, <2>2, <2>3 DEF IInv, Types
    <2>5. Joined(cards) = shown[p] => photo = c.asset
      <3> SUFFICES ASSUME Joined(cards) = shown[p] PROVE photo = c.asset
        OBVIOUS
      <3>1. c.asset \in Photos(Id(c))
        BY DEF Photos
      <3>2. PICK d \in Joined(cards) : Id(d) = Id(c) /\ photo = d.asset
        BY <3>1 DEF Photos
      <3> QED
        BY <3>2, OneCard
    <2>6. UsesShownPhoto'
      BY <2>2, <2>3, <2>5 DEF IInv, Types, UsesShownPhoto
    <2> QED
      BY <1>2, <2>4, <2>6 DEF IInv
  <1> QED
    BY <1>3, <1>4

LEMMA NextIInv == IInv /\ [Next]_vars => IInv'
  <1> SUFFICES ASSUME IInv, [Next]_vars PROVE IInv'
    OBVIOUS
  <1>1. ASSUME NEW r \in Runs, RunStep(r) PROVE IInv'
    <2>1. DeadlockAborts(r) => pc[r] # "done"
      BY DEF DeadlockAborts, Deadlocked, WaitsFor
    <2> QED
      BY <1>1, <2>1, DeleteInv, CheckInv, InsertAssetsInv, InsertCardsInv,
         CommitInv, RolledBackInv
      DEF RunStep, DeadlockAborts
  <1>2. ASSUME NEW r \in Runs, Dies(r) PROVE IInv'
    BY <1>2, RolledBackInv DEF Dies, Over
  <1>3. ASSUME NEW p \in Phones, GetCatalog(p) \/ SubmitExample(p) PROVE IInv'
    BY <1>3, PhoneInv
  <1>4. CASE UNCHANGED vars
    BY <1>4
    DEF vars, phoneVars, IInv, Types, TableInv, RowInv, DeletedInv, KeyInv,
        UsesShownPhoto
  <1> QED
    BY <1>1, <1>2, <1>3, <1>4 DEF Next

THEOREM Invariance == Spec => []IInv
  BY InitIInv, NextIInv, PTL DEF Spec

-----------------------------------------------------------------------------
(***************************************************************************)
(* The results.                                                            *)
(***************************************************************************)

LEMMA DiedAreRuns == Spec => [](died \subseteq Runs)
  <1>1. Init => died \subseteq Runs
    BY DEF Init
  <1>2. died \subseteq Runs /\ [Next]_vars => (died \subseteq Runs)'
    BY DEF Next, vars, RunStep, SeeCards, DeleteCards, SeeAssets, DeleteAssets,
           CheckCards, InsertAssets, InsertCards, Commit, DeadlockAborts, Dies,
           GetCatalog, SubmitExample, runVars
  <1> QED
    BY <1>1, <1>2, PTL DEF Spec

\* Types; a run deletes only rows that are in the tables.
THEOREM TypeCorrect == Spec => []TypeOK
  <1>1. IInv /\ died \subseteq Runs => TypeOK
    BY DEF IInv, Types, RowInv, TypeOK
  <1> QED
    BY <1>1, Invariance, DiedAreRuns, PTL

\* Any number of concurrent runs of seed.py leaves one whole version in the
\* tables, and never none where there was one.
THEOREM OneVersionAtATime == Spec => []OneVersion
  <1>1. IInv => OneVersion
    <2> SUFFICES ASSUME IInv PROVE Cardinality(cards) <= 1
      BY DEF IInv, TableInv, OneVersion
    <2>1. cards = {} \/ \E r : cards = {r}
      BY DEF IInv, TableInv
    <2>2. CASE cards = {}
      BY <2>2, FS_EmptySet
    <2>3. ASSUME NEW r, cards = {r} PROVE Cardinality(cards) <= 1
      <3>1. Cardinality({r}) = 1
        BY FS_Singleton
      <3> QED
        BY <2>3, <3>1
    <2> QED
      BY <2>1, <2>2, <2>3
  <1> QED
    BY <1>1, Invariance, PTL

\* A phone gets the photo that it showed, or the catalog has changed since.
THEOREM ShownPhotoUsed == Spec => []UsesShownPhoto
  BY Invariance, PTL DEF IInv

\* The cards of the one version in the tables are those its run inserted.
LEMMA WholeVersion ==
    ASSUME IInv, NEW r \in cards
    PROVE  Joined(cards) = Rows[r]
  <1>1. cards = {r} /\ assets = {r} /\ r \in Runs
    BY DEF IInv, TableInv, Types
  <1> QED
    BY <1>1, RowsAssumption DEF Joined

\* A commit publishes a version, and the catalog query reads one; no other
\* step of a run or a phone is seen in the register.
LEMMA StepSimulation ==
    IInv /\ [Next]_vars => [Register!Next]_(Register!registerVars)
  <1> DEFINE Done == {r \in Runs : pc[r] = "done"}
  <1> SUFFICES ASSUME IInv, [Next]_vars
               PROVE  Register!Next \/ UNCHANGED <<cards, Done, shown>>
    BY DEF Register!registerVars
  <1>1. ASSUME NEW r \in Runs, Commit(r) PROVE Register!Publish(r)
    <2>1. cards' = {r} /\ UNCHANGED shown
      BY <1>1 DEF Commit, IInv, DeletedInv, phoneVars
    <2>2. r \notin Done /\ Done' = Done \cup {r}
      BY <1>1 DEF Commit, Goto, IInv, Types
    <2> QED
      BY <2>1, <2>2 DEF Register!Publish
  <1>2. ASSUME NEW r \in Runs, RunStep(r) \/ Dies(r), ~Commit(r)
        PROVE  UNCHANGED <<cards, Done, shown>>
    <2>1. DeadlockAborts(r) => pc[r] # "done"
      BY DEF DeadlockAborts, Deadlocked, WaitsFor
    <2>2. /\ UNCHANGED <<cards, shown>>
          /\ pc[r] # "done"
          /\ \E place : place # "done" /\ pc' = [pc EXCEPT ![r] = place]
      BY <1>2, <2>1
      DEF RunStep, SeeCards, DeleteCards, SeeAssets, DeleteAssets, CheckCards,
          InsertAssets, InsertCards, DeadlockAborts, Dies, RolledBack, Goto,
          Over, phoneVars
    <2> QED
      BY <2>2 DEF IInv, Types
  <1>3. ASSUME NEW p \in Phones, GetCatalog(p) PROVE Register!Read(p)
    <2>1. PICK r \in cards : TRUE
      BY <1>3 DEF GetCatalog, Joined
    <2>2. shown' = [shown EXCEPT ![p] = Rows[r]]
      BY <1>3, WholeVersion DEF GetCatalog
    <2>3. UNCHANGED <<cards, Done>>
      BY <1>3 DEF GetCatalog, runVars
    <2> QED
      BY <2>2, <2>3 DEF Register!Read
  <1>4. ASSUME NEW p \in Phones, SubmitExample(p)
        PROVE  UNCHANGED <<cards, Done, shown>>
    BY <1>4 DEF SubmitExample, runVars
  <1>5. CASE UNCHANGED vars
    BY <1>5 DEF vars, phoneVars
  <1> QED
    BY <1>1, <1>2, <1>3, <1>4, <1>5 DEF Next, Register!Next

\* The catalog is a register: whatever runs and phones do at the same time,
\* each run replaces it once and as a whole, and phones read whole versions.
THEOREM Implements == Spec => RegisterSpec
  <1>1. Init => Register!Init
    <2> SUFFICES ASSUME Init PROVE Register!Init
      OBVIOUS
    <2>1. PICK S \in SUBSET Runs :
              /\ Cardinality(S) <= 1
              /\ cards = S
              /\ pc = [r \in Runs |-> IF r \in S THEN "done" ELSE "none"]
      BY DEF Init
    <2>2. S = {} \/ \E r \in Runs : S = {r}
      BY <2>1, AtMostOne
    <2>3. {r \in Runs : pc[r] = "done"} = cards
      BY <2>1
    <2> QED
      BY <2>1, <2>2, <2>3 DEF Init, Register!Init
  <1> QED
    BY <1>1, StepSimulation, Invariance, PTL
    DEF Spec, RegisterSpec, Register!Spec
=============================================================================
