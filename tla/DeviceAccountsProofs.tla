------------------------- MODULE DeviceAccountsProofs -------------------------
(***************************************************************************)
(* Proofs about DeviceAccounts, for any number of logins and deletions.    *)
(***************************************************************************)
EXTENDS DeviceAccounts, TLAPS

-----------------------------------------------------------------------------
(***************************************************************************)
(* The inductive invariant.                                                *)
(***************************************************************************)

\* Users that are named are real, and no login signs a soft-deleted one in.
UserInv ==
    /\ \A l \in Logins :
          /\ pc[l] = "touch" => user[l] # NoUser
          /\ pc[l] = "purge" => user[l] = Legacy /\ soft
          /\ pc[l] \in {"touch", "claim", "commit", "refresh", "done"}
                => ~(user[l] = Legacy /\ soft)
    /\ \A r \in Removals :
          rpc[r] \in {"forfeit", "delete", "commit"} => target[r] # NoUser

\* There is a row to lock; a login that has locked it has come from a purge or
\* a touch, and a deletion has deleted its target.
HolderInv ==
    /\ row = NoUser => holder = NoOne
    /\ \A l \in Logins : holder = l => pc[l] \in {"insert", "claim", "commit"}
    /\ \A l \in Logins : pc[l] = "insert" /\ holder = l => SoftDeleted
    /\ \A r \in Removals : holder = r => rpc[r] = "commit" /\ row = target[r]

\* A row is inserted where there is none, or where the login's own transaction
\* has deleted the soft-deleted one.
InserterInv ==
    \A l \in Logins :
        /\ pc[l] = "claim" => inserter = l
        /\ inserter = l => /\ pc[l] \in {"claim", "commit"}
                           /\ row = NoUser \/ (holder = l /\ SoftDeleted)

\* Only the login that inserts the row can hold the device's first grant, and
\* credits were posted exactly with a grant.
GrantInv ==
    /\ \A l \in Logins :
          claimed[l] => inserter = l /\ pc[l] = "commit" /\ ~granted
    /\ ~granted => credited = {}
    /\ GrantIsCredited
    /\ GrantedOnce

\* An account a login answered with is there until it is closed.
AnswerInv ==
    \A l \in Logins : pc[l] = "done" => row = user[l] \/ user[l] \in closed

IInv == TypeOK /\ UserInv /\ HolderInv /\ InserterInv /\ GrantInv /\ AnswerInv

LEMMA InitIInv == Init => IInv
  <1> SUFFICES ASSUME Init PROVE IInv
    OBVIOUS
  <1>1. TypeOK
    BY IdsAssumption DEF Init, TypeOK, Ids, LoginSteps, RemovalSteps
  <1>2. UserInv
    BY DEF Init, UserInv
  <1>3. HolderInv
    BY RequestsAssumption DEF Init, HolderInv
  <1>4. InserterInv
    BY RequestsAssumption DEF Init, InserterInv
  <1>5. GrantInv
    BY DEF Init, GrantInv, GrantIsCredited, GrantedOnce
  <1>6. AnswerInv
    BY DEF Init, AnswerInv
  <1> QED
    BY <1>1, <1>2, <1>3, <1>4, <1>5, <1>6 DEF IInv

-----------------------------------------------------------------------------
(***************************************************************************)
(* Steps of a login.                                                       *)
(***************************************************************************)

\* Reading the row sends a login on with a user that fits its next step.
LEMMA FoundSteps ==
    ASSUME IInv, NEW l \in Logins, NEW missing \in {"insert", "failed"},
           Found(l, missing)
    PROVE  \E step \in {"purge", "touch", "insert", "failed"} :
               /\ pc' = [pc EXCEPT ![l] = step]
               /\ step = "purge" => row = Legacy /\ soft
               /\ step = "touch" => row # NoUser /\ ~(row = Legacy /\ soft)
               /\ step \in {"insert", "failed"} => row = NoUser
  BY DEF Found, Goto, SoftDeleted

\* The load, and the second read after a conflict, keep the invariant.
LEMMA ReadInv ==
    ASSUME IInv, NEW l \in Logins, Load(l) \/ Recover(l)
    PROVE  IInv'
  <1>1. PICK step \in {"purge", "touch", "insert", "failed"} :
            /\ pc' = [pc EXCEPT ![l] = step]
            /\ step = "purge" => row = Legacy /\ soft
            /\ step = "touch" => row # NoUser /\ ~(row = Legacy /\ soft)
            /\ step \in {"insert", "failed"} => row = NoUser
    BY FoundSteps DEF Load, Recover
  <1>2. /\ pc[l] \in {"load", "recover"}
        /\ user' = [user EXCEPT ![l] = row]
        /\ second' \in {second, [second EXCEPT ![l] = TRUE]}
        /\ UNCHANGED <<dbVars, faults, lockVars, claimed, removalVars>>
    BY DEF Load, Recover, IInv, TypeOK
  <1> USE DEF IInv, dbVars, lockVars, removalVars
  <1>3. TypeOK'
    BY <1>1, <1>2 DEF TypeOK, LoginSteps
  <1>4. UserInv'
    BY <1>1, <1>2 DEF UserInv, TypeOK
  <1>5. HolderInv'
    BY <1>1, <1>2, RequestsAssumption DEF HolderInv, TypeOK, SoftDeleted
  <1>6. InserterInv'
    BY <1>1, <1>2 DEF InserterInv, TypeOK, SoftDeleted
  <1>7. GrantInv'
    BY <1>1, <1>2 DEF GrantInv, GrantIsCredited, GrantedOnce, InserterInv, TypeOK
  <1>8. AnswerInv'
    BY <1>1, <1>2 DEF AnswerInv, TypeOK
  <1> QED
    BY <1>3, <1>4, <1>5, <1>6, <1>7, <1>8

\* Deleting the old row keeps the invariant.
LEMMA PurgeInv ==
    ASSUME IInv, NEW l \in Logins, Purge(l)
    PROVE  IInv'
  <1> USE DEF IInv, dbVars, lockVars, removalVars
  <1>1. /\ pc[l] = "purge"
        /\ user[l] = Legacy /\ soft
        /\ row = user[l] => holder = NoOne
        /\ holder' = IF row = user[l] THEN l ELSE holder
        /\ pc' = [pc EXCEPT ![l] = "insert"]
        /\ UNCHANGED <<dbVars, faults, inserter, user, second, claimed,
                       removalVars>>
    BY DEF Purge, Matches, Goto, UserInv
  <1>2. TypeOK'
    BY <1>1 DEF TypeOK, LoginSteps
  <1>3. UserInv'
    BY <1>1 DEF UserInv, TypeOK
  <1>4. HolderInv'
    BY <1>1, RequestsAssumption, IdsAssumption DEF HolderInv, TypeOK, SoftDeleted, Ids
  <1>5. InserterInv'
    BY <1>1, RequestsAssumption, IdsAssumption DEF InserterInv, TypeOK, SoftDeleted, Ids
  <1>6. GrantInv'
    BY <1>1 DEF GrantInv, GrantIsCredited, GrantedOnce, TypeOK
  <1>7. AnswerInv'
    BY <1>1 DEF AnswerInv, TypeOK
  <1> QED
    BY <1>2, <1>3, <1>4, <1>5, <1>6, <1>7

\* The insert, successful or refused by the index, keeps the invariant.
LEMMA InsertInv ==
    ASSUME IInv, NEW l \in Logins, Insert(l)
    PROVE  IInv'
  <1> USE DEF IInv, dbVars, lockVars, removalVars
  <1>1. /\ pc[l] = "insert"
        /\ inserter = NoOne
        /\ UNCHANGED <<dbVars, faults, second, claimed, removalVars>>
    BY DEF Insert
  <1>2. CASE Taken(l)
    <2>1. PICK step \in {"failed", "recover"} : pc' = [pc EXCEPT ![l] = step]
      BY <1>2 DEF Insert, Goto, AfterConflict
    <2>2. UNCHANGED <<holder, inserter, user>>
      BY <1>1, <1>2, RequestsAssumption DEF Insert, Release, Taken
    <2>3. holder # l
      BY <1>2 DEF Taken
    <2>4. TypeOK'
      BY <1>1, <2>1, <2>2 DEF TypeOK, LoginSteps
    <2>5. UserInv'
      BY <1>1, <2>1, <2>2 DEF UserInv, TypeOK
    <2>6. HolderInv'
      BY <1>1, <2>1, <2>2, <2>3 DEF HolderInv, TypeOK, SoftDeleted
    <2>7. InserterInv'
      BY <1>1, <2>1, <2>2 DEF InserterInv, TypeOK, SoftDeleted
    <2>8. GrantInv'
      BY <1>1, <2>1, <2>2 DEF GrantInv, GrantIsCredited, GrantedOnce, TypeOK
    <2>9. AnswerInv'
      BY <1>1, <2>1, <2>2 DEF AnswerInv, TypeOK
    <2> QED
      BY <2>4, <2>5, <2>6, <2>7, <2>8, <2>9
  <1>3. CASE ~Taken(l)
    <2> DEFINE u == NewUser(l, second[l])
    <2>1. /\ pc' = [pc EXCEPT ![l] = "claim"]
          /\ inserter' = l
          /\ user' = [user EXCEPT ![l] = u]
          /\ UNCHANGED holder
      BY <1>3 DEF Insert, Goto
    <2>2. row = NoUser \/ (holder = l /\ SoftDeleted)
      BY <1>1, <1>3 DEF Taken, HolderInv
    <2>3. u \in Ids /\ u # Legacy /\ u # NoUser
      BY IdsAssumption DEF NewUser, Ids, TypeOK
    <2>4. \A k \in Logins : ~claimed[k] /\ pc[k] # "claim"
      BY <1>1, RequestsAssumption DEF GrantInv, InserterInv
    <2> HIDE DEF u
    <2>5. TypeOK'
      BY <1>1, <2>1, <2>3 DEF TypeOK, LoginSteps
    <2>6. UserInv'
      BY <1>1, <2>1, <2>3 DEF UserInv, TypeOK
    <2>7. HolderInv'
      BY <1>1, <2>1 DEF HolderInv, TypeOK, SoftDeleted
    <2>8. InserterInv'
      BY <1>1, <2>1, <2>2, <2>4 DEF InserterInv, TypeOK, SoftDeleted
    <2>9. GrantInv'
      BY <1>1, <2>1, <2>4 DEF GrantInv, GrantIsCredited, GrantedOnce, TypeOK
    <2>10. AnswerInv'
      BY <1>1, <2>1 DEF AnswerInv, TypeOK
    <2> QED
      BY <2>5, <2>6, <2>7, <2>8, <2>9, <2>10
  <1> QED
    BY <1>2, <1>3

\* The claim keeps the invariant.
LEMMA ClaimInv ==
    ASSUME IInv, NEW l \in Logins, Claim(l)
    PROVE  IInv'
  <1> USE DEF IInv, dbVars, lockVars, removalVars
  <1>1. /\ pc[l] = "claim"
        /\ inserter = l
        /\ claimed' = [claimed EXCEPT ![l] = ~granted]
        /\ pc' = [pc EXCEPT ![l] = "commit"]
        /\ UNCHANGED <<dbVars, faults, lockVars, user, second, removalVars>>
    BY DEF Claim, FirstGrant, Goto, InserterInv
  <1>2. TypeOK'
    BY <1>1 DEF TypeOK, LoginSteps
  <1>3. UserInv'
    BY <1>1 DEF UserInv, TypeOK
  <1>4. HolderInv'
    BY <1>1 DEF HolderInv, TypeOK, SoftDeleted
  <1>5. InserterInv'
    BY <1>1 DEF InserterInv, TypeOK, SoftDeleted
  <1>6. GrantInv'
    BY <1>1 DEF GrantInv, GrantIsCredited, GrantedOnce, TypeOK
  <1>7. AnswerInv'
    BY <1>1 DEF AnswerInv, TypeOK
  <1> QED
    BY <1>2, <1>3, <1>4, <1>5, <1>6, <1>7

\* Touching a live row keeps the invariant.
LEMMA TouchInv ==
    ASSUME IInv, NEW l \in Logins, Touch(l)
    PROVE  IInv'
  <1> USE DEF IInv, dbVars, lockVars, removalVars
  <1>1. /\ pc[l] = "touch"
        /\ user[l] # NoUser
        /\ ~(user[l] = Legacy /\ soft)
        /\ row = user[l] => holder = NoOne
        /\ holder' = IF row = user[l] THEN l ELSE holder
        /\ UNCHANGED <<dbVars, faults, inserter, user, second, claimed,
                       removalVars>>
    BY DEF Touch, UserInv
  <1>2. PICK step \in {"commit", "failed"} :
            /\ pc' = [pc EXCEPT ![l] = step]
            /\ step = "commit" <=> row = user[l]
    BY DEF Touch, Goto
  <1>3. TypeOK'
    BY <1>1, <1>2 DEF TypeOK, LoginSteps
  <1>4. UserInv'
    BY <1>1, <1>2 DEF UserInv, TypeOK
  <1>5. HolderInv'
    BY <1>1, <1>2, RequestsAssumption DEF HolderInv, TypeOK, SoftDeleted
  <1>6. InserterInv'
    BY <1>1, <1>2, RequestsAssumption DEF InserterInv, TypeOK, SoftDeleted
  <1>7. GrantInv'
    BY <1>1, <1>2 DEF GrantInv, GrantIsCredited, GrantedOnce, TypeOK
  <1>8. AnswerInv'
    BY <1>1, <1>2 DEF AnswerInv, TypeOK
  <1> QED
    BY <1>3, <1>4, <1>5, <1>6, <1>7, <1>8

\* Only the transaction that releases gives up its lock and its row.
LEMMA Released ==
    ASSUME NEW t, Release(t)
    PROVE  /\ holder' = IF holder = t THEN NoOne ELSE holder
           /\ inserter' = IF inserter = t THEN NoOne ELSE inserter
  BY DEF Release

\* The row that a login's commit replaces is no live account.
LEMMA CommitReplaces ==
    ASSUME IInv, NEW l \in Logins, Commit(l), row' # row
    PROVE  /\ inserter = l
           /\ row' = user[l]
           /\ row = NoUser \/ SoftDeleted
  BY DEF Commit, IInv, InserterInv

\* A login's commit keeps the invariant: the grant and its credits come
\* together, and only from the login that holds the insert.
LEMMA CommitInv ==
    ASSUME IInv, NEW l \in Logins, Commit(l)
    PROVE  IInv'
  <1> USE DEF IInv, dbVars, lockVars, removalVars
  <1>1. /\ pc[l] = "commit"
        /\ row' = IF inserter = l THEN user[l] ELSE row
        /\ granted' = (granted \/ claimed[l])
        /\ credited' = IF claimed[l] /\ InitialCredits > 0
                       THEN credited \cup {user[l]} ELSE credited
        /\ claimed' = [claimed EXCEPT ![l] = FALSE]
        /\ holder' = IF holder = l THEN NoOne ELSE holder
        /\ inserter' = IF inserter = l THEN NoOne ELSE inserter
        /\ pc' = [pc EXCEPT ![l] = "refresh"]
        /\ UNCHANGED <<soft, closed, faults, user, second, removalVars>>
    BY Released DEF Commit, Goto
  <1>2. user[l] \in Ids /\ user[l] # NoUser /\ ~(user[l] = Legacy /\ soft)
    BY <1>1 DEF TypeOK, UserInv
  <1>3. inserter = l => \A k \in Logins \ {l} : inserter # k /\ ~claimed[k]
    BY DEF GrantInv
  <1>4. inserter = l => holder \in {NoOne, l} /\ (row = NoUser \/ SoftDeleted)
    BY <1>1 DEF InserterInv, HolderInv
  <1>5. TypeOK'
    BY <1>1, <1>2 DEF TypeOK, LoginSteps
  <1>6. UserInv'
    BY <1>1 DEF UserInv, TypeOK
  <1>7. HolderInv'
    BY <1>1, <1>2, <1>4, RequestsAssumption DEF HolderInv, TypeOK, SoftDeleted
  <1>8. InserterInv'
    BY <1>1, <1>3, RequestsAssumption DEF InserterInv, TypeOK, SoftDeleted
  <1>9. GrantInv'
    <2>1. CASE claimed[l]
      <3>1. inserter = l /\ ~granted /\ credited = {}
        BY <2>1 DEF GrantInv
      <3>2. granted' /\ credited' = IF InitialCredits > 0 THEN {user[l]} ELSE {}
        BY <1>1, <2>1, <3>1
      <3>3. \A k \in Logins : ~claimed'[k]
        BY <1>1, <1>3, <3>1 DEF TypeOK
      <3> QED
        BY <3>2, <3>3 DEF GrantInv, GrantIsCredited, GrantedOnce
    <2>2. CASE ~claimed[l]
      <3>1. UNCHANGED <<granted, credited>>
        BY <1>1, <2>2 DEF TypeOK
      <3>2. \A k \in Logins : claimed'[k] => claimed[k] /\ k # l
        BY <1>1 DEF TypeOK
      <3>3. \A k \in Logins : claimed'[k] =>
                inserter' = k /\ pc'[k] = "commit" /\ ~granted'
        BY <1>1, <3>1, <3>2 DEF GrantInv, TypeOK
      <3> QED
        BY <3>1, <3>3 DEF GrantInv, GrantIsCredited, GrantedOnce
    <2> QED
      BY <2>1, <2>2
  <1>10. AnswerInv'
    <2> SUFFICES ASSUME NEW k \in Logins, pc'[k] = "done"
                 PROVE  row' = user[k] \/ user[k] \in closed
      BY <1>1 DEF AnswerInv
    <2>1. pc[k] = "done"
      BY <1>1 DEF TypeOK
    <2>2. user[k] # NoUser /\ ~(user[k] = Legacy /\ soft)
      BY <2>1 DEF UserInv, TypeOK
    <2>3. row = user[k] \/ user[k] \in closed
      BY <2>1 DEF AnswerInv
    <2> QED
      BY <1>1, <1>4, <2>2, <2>3 DEF SoftDeleted
  <1> QED
    BY <1>5, <1>6, <1>7, <1>8, <1>9, <1>10

\* The read before the token keeps the invariant.
LEMMA RefreshInv ==
    ASSUME IInv, NEW l \in Logins, Refresh(l)
    PROVE  IInv'
  <1> USE DEF IInv, dbVars, lockVars, removalVars
  <1>1. /\ pc[l] = "refresh"
        /\ UNCHANGED <<dbVars, faults, lockVars, user, second, claimed,
                       removalVars>>
    BY DEF Refresh
  <1>2. PICK step \in {"done", "failed"} :
            /\ pc' = [pc EXCEPT ![l] = step]
            /\ step = "done" => row = user[l]
    BY DEF Refresh, Goto
  <1>3. user[l] # NoUser
    BY <1>1 DEF TypeOK
  <1>4. TypeOK'
    BY <1>1, <1>2, <1>3 DEF TypeOK, LoginSteps
  <1>5. UserInv'
    BY <1>1, <1>2 DEF UserInv, TypeOK
  <1>6. HolderInv'
    BY <1>1, <1>2 DEF HolderInv, TypeOK, SoftDeleted
  <1>7. InserterInv'
    BY <1>1, <1>2 DEF InserterInv, TypeOK, SoftDeleted
  <1>8. GrantInv'
    BY <1>1, <1>2 DEF GrantInv, GrantIsCredited, GrantedOnce, TypeOK
  <1>9. AnswerInv'
    BY <1>1, <1>2 DEF AnswerInv, TypeOK
  <1> QED
    BY <1>4, <1>5, <1>6, <1>7, <1>8, <1>9

\* A login that dies gives up its claim with its row and keeps the invariant.
LEMMA DiesInv ==
    ASSUME IInv, NEW l \in Logins, Dies(l)
    PROVE  IInv'
  <1> USE DEF IInv, dbVars, lockVars, removalVars
  <1>1. /\ pc[l] \in LoginSteps \ {"load", "refresh"}
        /\ faults' = faults + 1
        /\ claimed' = [claimed EXCEPT ![l] = FALSE]
        /\ holder' = IF holder = l THEN NoOne ELSE holder
        /\ inserter' = IF inserter = l THEN NoOne ELSE inserter
        /\ pc' = [pc EXCEPT ![l] = "failed"]
        /\ UNCHANGED <<dbVars, user, second, removalVars>>
    BY Released DEF Dies, Goto
  <1>2. TypeOK'
    BY <1>1 DEF TypeOK, LoginSteps
  <1>3. UserInv'
    BY <1>1 DEF UserInv, TypeOK
  <1>4. HolderInv'
    BY <1>1, RequestsAssumption DEF HolderInv, TypeOK, SoftDeleted
  <1>5. InserterInv'
    BY <1>1, RequestsAssumption DEF InserterInv, TypeOK, SoftDeleted
  <1>6. GrantInv'
    BY <1>1 DEF GrantInv, GrantIsCredited, GrantedOnce, TypeOK
  <1>7. AnswerInv'
    BY <1>1 DEF AnswerInv, TypeOK
  <1> QED
    BY <1>2, <1>3, <1>4, <1>5, <1>6, <1>7

-----------------------------------------------------------------------------
(***************************************************************************)
(* Steps of a deletion.                                                    *)
(***************************************************************************)

\* Reading the account keeps the invariant.
LEMMA LookupInv ==
    ASSUME IInv, NEW r \in Removals, Lookup(r)
    PROVE  IInv'
  <1> USE DEF IInv, dbVars, lockVars, loginVars
  <1>1. /\ rpc[r] = "lookup"
        /\ UNCHANGED <<dbVars, faults, lockVars, loginVars>>
    BY DEF Lookup
  <1>2. PICK u \in Tokens :
            IF u = row /\ ~SoftDeleted
            THEN /\ target' = [target EXCEPT ![r] = u]
                 /\ \E positive \in BOOLEAN :
                        forfeits' = [forfeits EXCEPT ![r] = positive]
                 /\ rpc' = [rpc EXCEPT ![r] = "forfeit"]
            ELSE /\ rpc' = [rpc EXCEPT ![r] = "failed"]
                 /\ UNCHANGED <<target, forfeits>>
    BY DEF Lookup, RGoto
  <1>3. u \in Ids /\ u # NoUser
    BY IdsAssumption DEF Tokens, Ids, TypeOK
  <1>4. TypeOK'
    BY <1>1, <1>2, <1>3 DEF TypeOK, RemovalSteps
  <1>5. UserInv'
    BY <1>1, <1>2, <1>3 DEF UserInv, TypeOK
  <1>6. HolderInv'
    BY <1>1, <1>2 DEF HolderInv, TypeOK, SoftDeleted
  <1>7. InserterInv'
    BY <1>1 DEF InserterInv, SoftDeleted
  <1>8. GrantInv'
    BY <1>1 DEF GrantInv, GrantIsCredited, GrantedOnce
  <1>9. AnswerInv'
    BY <1>1 DEF AnswerInv
  <1> QED
    BY <1>4, <1>5, <1>6, <1>7, <1>8, <1>9

\* The forfeit event, and being chosen as the victim of a deadlock, keep the
\* invariant: neither touches the row.
LEMMA ForfeitInv ==
    ASSUME IInv, NEW r \in Removals, Forfeit(r) \/ DeadlockAborts(r)
    PROVE  IInv'
  <1> USE DEF IInv, dbVars, lockVars, loginVars
  <1>1. /\ rpc[r] \in {"forfeit", "delete"}
        /\ UNCHANGED <<dbVars, faults, lockVars, loginVars, target, forfeits>>
    BY DEF Forfeit, DeadlockAborts, Sharing
  <1>2. PICK step \in {"delete", "failed"} :
            /\ rpc' = [rpc EXCEPT ![r] = step]
            /\ step = "delete" => rpc[r] = "forfeit"
    BY DEF Forfeit, DeadlockAborts, RGoto
  <1>3. TypeOK'
    BY <1>1, <1>2 DEF TypeOK, RemovalSteps
  <1>4. UserInv'
    BY <1>1, <1>2 DEF UserInv, TypeOK
  <1>5. HolderInv'
    BY <1>1, <1>2 DEF HolderInv, TypeOK, SoftDeleted
  <1>6. InserterInv'
    BY <1>1 DEF InserterInv, SoftDeleted
  <1>7. GrantInv'
    BY <1>1 DEF GrantInv, GrantIsCredited, GrantedOnce
  <1>8. AnswerInv'
    BY <1>1 DEF AnswerInv
  <1> QED
    BY <1>3, <1>4, <1>5, <1>6, <1>7, <1>8

\* Deleting the row keeps the invariant.
LEMMA DeleteInv ==
    ASSUME IInv, NEW r \in Removals, Delete(r)
    PROVE  IInv'
  <1> USE DEF IInv, dbVars, lockVars, loginVars
  <1>1. /\ rpc[r] = "delete"
        /\ target[r] # NoUser
        /\ row = target[r] => holder = NoOne
        /\ holder' = IF row = target[r] THEN r ELSE holder
        /\ rpc' = [rpc EXCEPT ![r] = "commit"]
        /\ UNCHANGED <<dbVars, faults, inserter, loginVars, target, forfeits>>
    BY DEF Delete, RGoto, UserInv
  <1>2. TypeOK'
    BY <1>1 DEF TypeOK, RemovalSteps
  <1>3. UserInv'
    BY <1>1 DEF UserInv, TypeOK
  <1>4. HolderInv'
    BY <1>1, RequestsAssumption DEF HolderInv, TypeOK, SoftDeleted
  <1>5. InserterInv'
    BY <1>1, RequestsAssumption DEF InserterInv, TypeOK, SoftDeleted
  <1>6. GrantInv'
    BY <1>1 DEF GrantInv, GrantIsCredited, GrantedOnce
  <1>7. AnswerInv'
    BY <1>1 DEF AnswerInv
  <1> QED
    BY <1>2, <1>3, <1>4, <1>5, <1>6, <1>7

\* The commit of a deletion keeps the invariant: it takes its own target only.
LEMMA RemovalCommitInv ==
    ASSUME IInv, NEW r \in Removals, RemovalCommit(r)
    PROVE  IInv'
  <1> USE DEF IInv, dbVars, lockVars, loginVars
  <1>1. /\ rpc[r] = "commit"
        /\ row' = IF holder = r THEN NoUser ELSE row
        /\ closed' = closed \cup {target[r]}
        /\ holder' = IF holder = r THEN NoOne ELSE holder
        /\ inserter' = IF inserter = r THEN NoOne ELSE inserter
        /\ rpc' = [rpc EXCEPT ![r] = "done"]
        /\ UNCHANGED <<soft, granted, credited, faults, loginVars, target,
                       forfeits>>
    BY Released DEF RemovalCommit, RGoto
  <1>2. inserter # r /\ inserter' = inserter
    BY <1>1, RequestsAssumption DEF TypeOK
  <1>3. target[r] \in Ids /\ target[r] # NoUser
    BY <1>1 DEF TypeOK, UserInv
  <1>4. holder = r => row = target[r] /\ \A l \in Logins : holder # l
    BY RequestsAssumption DEF HolderInv
  <1>5. TypeOK'
    BY <1>1, <1>3 DEF TypeOK, RemovalSteps
  <1>6. UserInv'
    BY <1>1 DEF UserInv, TypeOK
  <1>7. HolderInv'
    BY <1>1, <1>4, RequestsAssumption DEF HolderInv, TypeOK, SoftDeleted
  <1>8. InserterInv'
    BY <1>1, <1>2, <1>4 DEF InserterInv, SoftDeleted
  <1>9. GrantInv'
    BY <1>1, <1>2 DEF GrantInv, GrantIsCredited, GrantedOnce
  <1>10. AnswerInv'
    BY <1>1, <1>4 DEF AnswerInv
  <1> QED
    BY <1>5, <1>6, <1>7, <1>8, <1>9, <1>10

\* A deletion that dies leaves the row and keeps the invariant.
LEMMA RemovalDiesInv ==
    ASSUME IInv, NEW r \in Removals, RemovalDies(r)
    PROVE  IInv'
  <1> USE DEF IInv, dbVars, lockVars, loginVars
  <1>1. /\ faults' = faults + 1
        /\ holder' = IF holder = r THEN NoOne ELSE holder
        /\ inserter' = IF inserter = r THEN NoOne ELSE inserter
        /\ rpc' = [rpc EXCEPT ![r] = "failed"]
        /\ UNCHANGED <<dbVars, loginVars, target, forfeits>>
    BY Released DEF RemovalDies, RGoto
  <1>2. inserter' = inserter
    BY <1>1, RequestsAssumption DEF TypeOK
  <1>3. TypeOK'
    BY <1>1 DEF TypeOK, RemovalSteps
  <1>4. UserInv'
    BY <1>1 DEF UserInv, TypeOK
  <1>5. HolderInv'
    BY <1>1, RequestsAssumption DEF HolderInv, TypeOK, SoftDeleted
  <1>6. InserterInv'
    BY <1>1, <1>2, RequestsAssumption DEF InserterInv, SoftDeleted
  <1>7. GrantInv'
    BY <1>1, <1>2 DEF GrantInv, GrantIsCredited, GrantedOnce
  <1>8. AnswerInv'
    BY <1>1 DEF AnswerInv
  <1> QED
    BY <1>3, <1>4, <1>5, <1>6, <1>7, <1>8

-----------------------------------------------------------------------------
(***************************************************************************)
(* The theorems.                                                           *)
(***************************************************************************)

\* Every step keeps the invariant.
LEMMA NextInv == IInv /\ [Next]_vars => IInv'
  <1> SUFFICES ASSUME IInv, [Next]_vars PROVE IInv'
    OBVIOUS
  <1>1. ASSUME NEW l \in Logins, LoginStep(l) \/ Dies(l)
        PROVE  IInv'
    BY <1>1, ReadInv, PurgeInv, InsertInv, ClaimInv, TouchInv, CommitInv,
       RefreshInv, DiesInv DEF LoginStep
  <1>2. ASSUME NEW r \in Removals, RemovalStep(r) \/ RemovalDies(r)
        PROVE  IInv'
    BY <1>2, LookupInv, ForfeitInv, DeleteInv, RemovalCommitInv,
       RemovalDiesInv DEF RemovalStep
  <1>3. CASE UNCHANGED vars
    BY <1>3 DEF vars, IInv, TypeOK, UserInv, HolderInv, InserterInv, GrantInv,
       AnswerInv, SoftDeleted, GrantIsCredited, GrantedOnce
  <1> QED
    BY <1>1, <1>2, <1>3 DEF Next

\* The inductive invariant holds of every reachable state.
THEOREM Invariance == Spec => []IInv
  BY InitIInv, NextInv, PTL DEF Spec

\* Rows, locks and requests keep their types for any number of requests.
THEOREM TypeCorrect == Spec => []TypeOK
  <1>1. IInv => TypeOK
    BY DEF IInv
  <1> QED
    BY <1>1, Invariance, PTL

\* However many logins and deletions of a device there are and however they
\* interleave, the signup credits are posted once.
THEOREM LifetimeGrant == Spec => []GrantedOnce
  <1>1. IInv => GrantedOnce
    BY DEF IInv, GrantInv
  <1> QED
    BY <1>1, Invariance, PTL

\* The grant row and the posted credits stand or fall together.
THEOREM GrantWithCredits == Spec => []GrantIsCredited
  <1>1. IInv => GrantIsCredited
    BY DEF IInv, GrantInv
  <1> QED
    BY <1>1, Invariance, PTL

\* Two logins of a device answer with one account unless one was closed.
THEOREM OneAccount == Spec => []LoginsAgree
  <1>1. IInv => LoginsAgree
    BY DEF IInv, AnswerInv, LoginsAgree
  <1> QED
    BY <1>1, Invariance, PTL

\* A live account ends only by a deletion of that user: neither the purge of an
\* old row nor another login's insert takes it away.
THEOREM OwnerCloses == Spec => ClosedByOwner
  <1> DEFINE Kept == row # NoUser /\ ~SoftDeleted /\ row' # row => row \in closed'
  <1>1. IInv /\ [Next]_vars => [Kept]_vars
    <2> SUFFICES ASSUME IInv, Next, row # NoUser, ~SoftDeleted, row' # row
                 PROVE  row \in closed'
      OBVIOUS
    <2>1. ASSUME NEW l \in Logins, LoginStep(l) \/ Dies(l)
          PROVE  FALSE
      <3>1. Commit(l)
        BY <2>1 DEF LoginStep, Load, Purge, Insert, Recover, Claim, Touch,
           Refresh, Dies, dbVars
      <3> QED
        BY <3>1, CommitReplaces
    <2>2. ASSUME NEW r \in Removals, RemovalStep(r) \/ RemovalDies(r)
          PROVE  row \in closed'
      <3>1. RemovalCommit(r)
        BY <2>2 DEF RemovalStep, Lookup, Forfeit, Delete, DeadlockAborts,
           RemovalDies, dbVars
      <3> QED
        BY <3>1 DEF RemovalCommit, IInv, HolderInv
    <2> QED
      BY <2>1, <2>2 DEF Next
  <1> QED
    BY <1>1, Invariance, PTL DEF Spec, ClosedByOwner

-----------------------------------------------------------------------------
(***************************************************************************)
(* Failed logins, while no account was closed.                             *)
(***************************************************************************)

Live == row # NoUser /\ ~SoftDeleted

\* A login that inserts without having locked the old row finds it gone, so
\* what its insert meets, and it reads then, is a live account.  While nobody
\* closes that one there is no second conflict and no row that has gone.
FailInv ==
    closed = {} =>
        \A l \in Logins :
            /\ pc[l] \in {"load", "purge", "insert"} => ~second[l]
            /\ pc[l] = "insert" /\ holder # l => ~SoftDeleted
            /\ pc[l] = "recover" => Live
            /\ pc[l] \in {"touch", "refresh"} => Live /\ row = user[l]
            /\ pc[l] = "commit" /\ inserter # l => Live /\ row = user[l]
            /\ pc[l] = "failed" => faults > 0

\* Steps that leave row, history and locks to others, and one login's place.
LEMMA FailLogin ==
    ASSUME IInv, FailInv, NEW l \in Logins, LoginStep(l) \/ Dies(l),
           closed = {}
    PROVE  FailInv'
  <1> USE DEF IInv, TypeOK, Goto
  <1>1. CASE Load(l)
    BY <1>1 DEF Load, Found, FailInv, Live, SoftDeleted, dbVars, lockVars
  <1>2. CASE Purge(l)
    <2>1. /\ user[l] = Legacy /\ soft
          /\ pc' = [pc EXCEPT ![l] = "insert"]
          /\ UNCHANGED <<row, soft, closed, faults, inserter, user, second>>
      BY <1>2 DEF Purge, UserInv, dbVars
    <2>2. CASE row = Legacy
      <3>1. holder = NoOne /\ holder' = l /\ SoftDeleted
        BY <1>2, <2>1, <2>2 DEF Purge, Matches, SoftDeleted
      <3> QED
        BY <1>2, <2>1, <3>1, RequestsAssumption
        DEF Purge, FailInv, Live, SoftDeleted
    <2>3. CASE row # Legacy
      <3>1. holder' = holder /\ ~SoftDeleted
        BY <1>2, <2>1, <2>3 DEF Purge, Matches, SoftDeleted
      <3> QED
        BY <1>2, <2>1, <3>1 DEF Purge, FailInv, Live, SoftDeleted
    <2> QED
      BY <2>2, <2>3
  <1>3. CASE Insert(l)
    <2>1. CASE Taken(l)
      <3>1. Live /\ ~second[l] /\ UNCHANGED <<holder, inserter>>
        BY <1>3, <2>1, RequestsAssumption
        DEF Insert, Taken, Release, FailInv, Live
      <3> QED
        BY <1>3, <2>1, <3>1
        DEF Insert, AfterConflict, FailInv, Live, SoftDeleted, dbVars
    <2>2. CASE ~Taken(l)
      BY <1>3, <2>2, RequestsAssumption
      DEF Insert, InserterInv, FailInv, Live, SoftDeleted, dbVars
    <2> QED
      BY <2>1, <2>2
  <1>4. CASE Recover(l)
    BY <1>4 DEF Recover, Found, FailInv, Live, SoftDeleted, dbVars, lockVars
  <1>5. CASE Claim(l)
    BY <1>5 DEF Claim, InserterInv, FailInv, Live, SoftDeleted, dbVars, lockVars
  <1>6. CASE Touch(l)
    BY <1>6 DEF Touch, FailInv, Live, SoftDeleted, dbVars
  <1>7. CASE Commit(l)
    <2>1. CASE inserter = l
      <3>1. ~Live /\ row' = user[l] /\ Live'
        BY <1>7, <2>1 DEF Commit, InserterInv, UserInv, Live, SoftDeleted
      <3>2. /\ pc' = [pc EXCEPT ![l] = "refresh"]
            /\ \A k \in Logins : holder' # k => holder = l \/ holder # k
            /\ \A k \in Logins : inserter' # k => k = l \/ inserter # k
            /\ UNCHANGED <<soft, closed, faults, user, second>>
        BY <1>7, <2>1, RequestsAssumption DEF Commit, Release
      <3> QED
        BY <3>1, <3>2 DEF FailInv, Live, SoftDeleted
    <2>2. CASE inserter # l
      BY <1>7, <2>2, RequestsAssumption
      DEF Commit, Release, FailInv, Live, SoftDeleted
    <2> QED
      BY <2>1, <2>2
  <1>8. CASE Refresh(l)
    BY <1>8 DEF Refresh, FailInv, Live, SoftDeleted, dbVars, lockVars
  <1>9. CASE Dies(l)
    BY <1>9, RequestsAssumption
    DEF Dies, Release, FailInv, Live, SoftDeleted, dbVars
  <1> QED
    BY <1>1, <1>2, <1>3, <1>4, <1>5, <1>6, <1>7, <1>8, <1>9 DEF LoginStep

\* A deletion changes no account before its commit, which closes one.
LEMMA FailRemoval ==
    ASSUME IInv, FailInv, NEW r \in Removals, RemovalStep(r) \/ RemovalDies(r)
    PROVE  FailInv'
  <1> USE DEF IInv, TypeOK
  <1>1. CASE RemovalCommit(r)
    BY <1>1 DEF RemovalCommit, FailInv
  <1>2. CASE ~RemovalCommit(r)
    <2>1. /\ UNCHANGED <<row, soft, closed, loginVars>>
          /\ faults' \in {faults, faults + 1}
          /\ \A l \in Logins : /\ holder' = l <=> holder = l
                               /\ inserter' = l <=> inserter = l
      BY <1>2, RequestsAssumption
      DEF RemovalStep, Lookup, Forfeit, Delete, DeadlockAborts, RemovalDies,
          Release, dbVars, lockVars
    <2> QED
      BY <2>1 DEF FailInv, Live, SoftDeleted, loginVars
  <1> QED
    BY <1>1, <1>2

\* A login fails only beside a fault or a deletion: a race for the device's
\* row alone never makes one fail, however many logins take part.
THEOREM RacesFailNobody == Spec => []OnlyDeletionFailsLogins
  <1>1. Init => FailInv
    BY DEF Init, FailInv
  <1>2. IInv /\ FailInv /\ [Next]_vars => FailInv'
    <2> SUFFICES ASSUME IInv, FailInv, [Next]_vars PROVE FailInv'
      OBVIOUS
    <2>1. ASSUME NEW l \in Logins, LoginStep(l) \/ Dies(l) PROVE FailInv'
      <3>1. CASE closed = {}
        BY <2>1, <3>1, FailLogin
      <3>2. CASE closed # {}
        BY <2>1, <3>2
        DEF FailInv, LoginStep, Load, Purge, Insert, Recover, Claim, Touch,
            Commit, Refresh, Dies, dbVars
      <3> QED
        BY <3>1, <3>2
    <2>2. ASSUME NEW r \in Removals, RemovalStep(r) \/ RemovalDies(r)
          PROVE  FailInv'
      BY <2>2, FailRemoval
    <2>3. CASE UNCHANGED vars
      BY <2>3 DEF vars, FailInv, Live, SoftDeleted
    <2> QED
      BY <2>1, <2>2, <2>3 DEF Next
  <1>3. FailInv => OnlyDeletionFailsLogins
    BY DEF FailInv, OnlyDeletionFailsLogins
  <1> QED
    BY <1>1, <1>2, <1>3, Invariance, PTL DEF Spec
=============================================================================
