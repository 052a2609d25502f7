---------------------------- MODULE DeviceAccounts ----------------------------
(***************************************************************************)
(* The account of one device: POST /auth/device/login and DELETE /auth/me. *)
(*                                                                         *)
(* A login finds the row of its device_id or creates one, and the first    *)
(* account a device ever has gets the free credits, recorded in a grant    *)
(* row that outlives the account.  Nothing but the database orders two     *)
(* logins of a device: the unique index makes the second insert wait for   *)
(* the first and then fail, and the loser reads the winner's row.          *)
(*                                                                         *)
(* Rows of devices are independent, so one device is modelled.  Soft       *)
(* deletion is gone from the code; rows of that time may still be there.   *)
(***************************************************************************)
EXTENDS Naturals, FiniteSets

CONSTANTS
    Logins,         \* login requests
    Removals,       \* account deletion requests
    Legacy,         \* the user of a row older than the modelled requests
    InitialCredits, \* settings.free_lifetime_credits
    NoUser,
    NoOne,          \* no transaction
    MaxFaults       \* bound: requests that die before their commit

\* A request makes a fresh uuid for each row it inserts, at most two.
NewUser(l, second) == <<l, second>>
Ids == {Legacy} \cup (Logins \X BOOLEAN)

ASSUME CreditsAssumption == InitialCredits \in Nat
ASSUME RequestsAssumption ==
    Logins \cap Removals = {} /\ NoOne \notin Logins \cup Removals
ASSUME IdsAssumption == NoUser \notin Ids /\ Legacy \notin Logins \X BOOLEAN

VARIABLES
    row,      \* user of the device's committed row, or NoUser
    soft,     \* the legacy row has deleted_at
    granted,  \* the device has its committed grant row
    credited, \* history: users whose signup credits were committed
    closed,   \* history: users whose DELETE /auth/me was committed
    faults,   \* requests that died so far
    holder,   \* transaction that has updated or deleted the row, uncommitted
    inserter, \* login whose row for the device is uncommitted
    \* logins
    pc,
    user,     \* the user read, or inserted
    second,   \* it is past its one IntegrityError
    claimed,  \* its uncommitted grant row
    \* deletions
    rpc,
    target,   \* the user to delete
    forfeits  \* the balance it read was positive

dbVars == <<row, soft, granted, credited, closed>>
lockVars == <<holder, inserter>>
loginVars == <<pc, user, second, claimed>>
removalVars == <<rpc, target, forfeits>>
vars == <<row, soft, granted, credited, closed, faults, holder, inserter,
          pc, user, second, claimed, rpc, target, forfeits>>

LoginSteps == {"load", "purge", "insert", "recover", "claim", "touch",
               "commit", "refresh"}
RemovalSteps == {"lookup", "forfeit", "delete", "commit"}

SoftDeleted == row = Legacy /\ soft

\* Deletions whose forfeit event shares the row through its foreign key.
Sharing == {r \in Removals : rpc[r] = "delete" /\ forfeits[r]}

\* The unique index of device_id meets a row this transaction did not delete.
Taken_NoIndex(l) == FALSE
Taken(l) == row # NoUser /\ holder # l

\* A device row that is not there to be deleted any more is no error.
Matches_AnyRow(l) == row # NoUser
Matches(l) == row = user[l]

\* INSERT ... ON CONFLICT DO NOTHING inserts only the device's first grant.
FirstGrant_Always == TRUE
FirstGrant == ~granted

-----------------------------------------------------------------------------

Init ==
    /\ row \in {NoUser, Legacy}
    /\ soft \in {FALSE, row = Legacy}
    /\ granted \in BOOLEAN
    /\ row = Legacy => granted  \* the migration gave every row its grant
    /\ credited = IF granted THEN {Legacy} ELSE {}
    /\ closed = {}
    /\ faults = 0
    /\ holder = NoOne
    /\ inserter = NoOne
    /\ pc = [l \in Logins |-> "load"]
    /\ user = [l \in Logins |-> NoUser]
    /\ second = [l \in Logins |-> FALSE]
    /\ claimed = [l \in Logins |-> FALSE]
    /\ rpc = [r \in Removals |-> "lookup"]
    /\ target = [r \in Removals |-> NoUser]
    /\ forfeits = [r \in Removals |-> FALSE]

Goto(l, step) == pc' = [pc EXCEPT ![l] = step]
RGoto(r, step) == rpc' = [rpc EXCEPT ![r] = step]

Release(t) ==
    /\ holder' = IF holder = t THEN NoOne ELSE holder
    /\ inserter' = IF inserter = t THEN NoOne ELSE inserter

\* Where a login goes with the row it has just read.
Found(l, missing) ==
    CASE row = NoUser -> Goto(l, missing)
      [] SoftDeleted -> Goto(l, "purge")
      [] OTHER -> Goto(l, "touch")

Load(l) ==
    /\ pc[l] = "load"
    /\ Found(l, "insert")
    /\ user' = [user EXCEPT ![l] = row]
    /\ UNCHANGED <<dbVars, faults, lockVars, second, claimed, removalVars>>

\* DELETE by primary key: waits for the row's lock if the row is still there.
Purge(l) ==
    /\ pc[l] = "purge"
    /\ Matches(l) => holder = NoOne
    /\ holder' = IF Matches(l) THEN l ELSE holder
    /\ Goto(l, "insert")
    /\ UNCHANGED <<dbVars, faults, inserter, user, second, claimed,
                   removalVars>>

AfterConflict_Raises(l) == "failed"
AfterConflict(l) == IF second[l] THEN "failed" ELSE "recover"

\* The index makes the INSERT wait for a writer of the device's row.
Insert(l) ==
    /\ pc[l] = "insert"
    /\ inserter = NoOne
    /\ row # NoUser => holder \in {NoOne, l}
    /\ IF Taken(l)
       THEN /\ Goto(l, AfterConflict(l))
            /\ Release(l)
            /\ UNCHANGED user
       ELSE /\ Goto(l, "claim")
            /\ inserter' = l
            /\ user' = [user EXCEPT ![l] = NewUser(l, second[l])]
            /\ UNCHANGED holder
    /\ UNCHANGED <<dbVars, faults, second, claimed, removalVars>>

\* The handler of the IntegrityError reads the row that was in the way.
Recover(l) ==
    /\ pc[l] = "recover"
    /\ Found(l, "failed")
    /\ user' = [user EXCEPT ![l] = row]
    /\ second' = [second EXCEPT ![l] = TRUE]
    /\ UNCHANGED <<dbVars, faults, lockVars, claimed, removalVars>>

Claim_Commits(l) ==
    /\ pc[l] = "claim"
    /\ claimed' = [claimed EXCEPT ![l] = FirstGrant]
    /\ granted' = TRUE
    /\ Goto(l, "commit")
    /\ UNCHANGED <<row, soft, credited, closed, faults, lockVars, user,
                   second, removalVars>>
Claim(l) ==
    /\ pc[l] = "claim"
    /\ claimed' = [claimed EXCEPT ![l] = FirstGrant]
    /\ Goto(l, "commit")
    /\ UNCHANGED <<dbVars, faults, lockVars, user, second, removalVars>>

\* UPDATE of last_seen_at: a row that is gone is a StaleDataError.
Touch(l) ==
    /\ pc[l] = "touch"
    /\ row = user[l] => holder = NoOne
    /\ holder' = IF row = user[l] THEN l ELSE holder
    /\ Goto(l, IF row = user[l] THEN "commit" ELSE "failed")
    /\ UNCHANGED <<dbVars, faults, inserter, user, second, claimed,
                   removalVars>>

Commit(l) ==
    /\ pc[l] = "commit"
    /\ row' = IF inserter = l THEN user[l] ELSE row
    /\ granted' = (granted \/ claimed[l])
    /\ credited' = IF claimed[l] /\ InitialCredits > 0
                   THEN credited \cup {user[l]} ELSE credited
    /\ claimed' = [claimed EXCEPT ![l] = FALSE]
    /\ Release(l)
    /\ Goto(l, "refresh")
    /\ UNCHANGED <<soft, closed, faults, user, second, removalVars>>

\* The committed row is read again before the token is made.
Refresh(l) ==
    /\ pc[l] = "refresh"
    /\ Goto(l, IF row = user[l] THEN "done" ELSE "failed")
    /\ UNCHANGED <<dbVars, faults, lockVars, user, second, claimed,
                   removalVars>>

\* The process dies or the database fails, and the transaction is rolled back.
Dies(l) ==
    /\ pc[l] \in LoginSteps \ {"load", "refresh"}
    /\ faults < MaxFaults
    /\ faults' = faults + 1
    /\ claimed' = [claimed EXCEPT ![l] = FALSE]
    /\ Release(l)
    /\ Goto(l, "failed")
    /\ UNCHANGED <<dbVars, user, second, removalVars>>

LoginStep(l) ==
    \/ Load(l) \/ Purge(l) \/ Insert(l) \/ Recover(l) \/ Claim(l)
    \/ Touch(l) \/ Commit(l) \/ Refresh(l)

-----------------------------------------------------------------------------

\* Tokens name users of finished logins, or of the time before.
Tokens == {Legacy} \cup {user[l] : l \in {k \in Logins : pc[k] = "done"}}

\* The wait for RevenueCat to cancel the subscription follows this read.
\* Other requests move the balance, so any it may have read is possible.
Lookup(r) ==
    /\ rpc[r] = "lookup"
    /\ \E u \in Tokens :
        IF u = row /\ ~SoftDeleted
        THEN /\ target' = [target EXCEPT ![r] = u]
             /\ \E positive \in BOOLEAN :
                    forfeits' = [forfeits EXCEPT ![r] = positive]
             /\ RGoto(r, "forfeit")
        ELSE RGoto(r, "failed") /\ UNCHANGED <<target, forfeits>>
    /\ UNCHANGED <<dbVars, faults, lockVars, loginVars>>

\* The forfeit event's foreign key needs the row and shares its lock, which
\* only an uncommitted deletion keeps from it.
Forfeit(r) ==
    /\ rpc[r] = "forfeit"
    /\ forfeits[r] /\ row = target[r] => holder \notin Removals
    /\ RGoto(r, IF forfeits[r] /\ row # target[r] THEN "failed" ELSE "delete")
    /\ UNCHANGED <<dbVars, faults, lockVars, loginVars, target, forfeits>>

Delete(r) ==
    /\ rpc[r] = "delete"
    /\ row = target[r] => holder = NoOne /\ Sharing \ {r} = {}
    /\ holder' = IF row = target[r] THEN r ELSE holder
    /\ RGoto(r, "commit")
    /\ UNCHANGED <<dbVars, faults, inserter, loginVars, target, forfeits>>

DeadlockAborts_RetriesInPlace(r) ==
    /\ r \in Sharing
    /\ row = target[r]
    /\ Sharing \ {r} # {}
    /\ RGoto(r, "delete")
    /\ UNCHANGED <<dbVars, faults, lockVars, loginVars, target, forfeits>>

\* Two deletions that share the row both wait for it; one is aborted.
DeadlockAborts(r) ==
    /\ r \in Sharing
    /\ row = target[r]
    /\ Sharing \ {r} # {}
    /\ RGoto(r, "failed")
    /\ UNCHANGED <<dbVars, faults, lockVars, loginVars, target, forfeits>>

RemovalCommit(r) ==
    /\ rpc[r] = "commit"
    /\ row' = IF holder = r THEN NoUser ELSE row
    /\ closed' = closed \cup {target[r]}
    /\ Release(r)
    /\ RGoto(r, "done")
    /\ UNCHANGED <<soft, granted, credited, faults, loginVars, target,
                   forfeits>>

RemovalDies(r) ==
    /\ rpc[r] \in RemovalSteps \ {"lookup"}
    /\ faults < MaxFaults
    /\ faults' = faults + 1
    /\ Release(r)
    /\ RGoto(r, "failed")
    /\ UNCHANGED <<dbVars, loginVars, target, forfeits>>

RemovalStep(r) ==
    Lookup(r) \/ Forfeit(r) \/ Delete(r) \/ DeadlockAborts(r)
    \/ RemovalCommit(r)

Next ==
    \/ \E l \in Logins : LoginStep(l) \/ Dies(l)
    \/ \E r \in Removals : RemovalStep(r) \/ RemovalDies(r)

Spec == Init /\ [][Next]_vars

\* Requests that have begun run on; PostgreSQL grants a free lock to a waiter.
FairSpec ==
    /\ Spec
    /\ \A l \in Logins : WF_vars(LoginStep(l))
    /\ \A r \in Removals : WF_vars(RemovalStep(r))

-----------------------------------------------------------------------------

\* Types of the rows, locks and requests of the device; past its reads a login
\* has a user.
TypeOK ==
    /\ row \in Ids \cup {NoUser}
    /\ soft \in BOOLEAN
    /\ granted \in BOOLEAN
    /\ credited \subseteq Ids
    /\ closed \subseteq Ids
    /\ faults \in Nat
    /\ holder \in Logins \cup Removals \cup {NoOne}
    /\ inserter \in Logins \cup {NoOne}
    /\ pc \in [Logins -> LoginSteps \cup {"done", "failed"}]
    /\ user \in [Logins -> Ids \cup {NoUser}]
    /\ second \in [Logins -> BOOLEAN]
    /\ claimed \in [Logins -> BOOLEAN]
    /\ rpc \in [Removals -> RemovalSteps \cup {"done", "failed"}]
    /\ target \in [Removals -> Ids \cup {NoUser}]
    /\ forfeits \in [Removals -> BOOLEAN]
    /\ \A l \in Logins : pc[l] \in {"claim", "commit", "refresh", "done"}
                            => user[l] # NoUser

\* A device gets its free credits once, whatever is deleted and created again
\* and however its logins interleave.
GrantedOnce == \A a, b \in credited : a = b

\* The device's one grant is never used up without the credits being posted,
\* and no credits are posted without it: a login that dies after the claim
\* leaves both to the next one.
GrantIsCredited == InitialCredits > 0 => (granted <=> credited # {})

\* Two logins are told of two accounts only if one was deleted on request in
\* between: concurrent first logins of a device end on one account.
LoginsAgree ==
    \A a, b \in {l \in Logins : pc[l] = "done"} :
        user[a] # user[b] => closed \cap {user[a], user[b]} # {}

\* Losing the race for the device's row is no error for the client: a login
\* fails only beside a dead process or a deletion of the account.
OnlyDeletionFailsLogins ==
    (\E l \in Logins : pc[l] = "failed") => faults > 0 \/ closed # {}

\* A live account goes away only by a committed DELETE /auth/me of that very
\* user: the purge of an old row never takes a new account with it.
ClosedByOwner ==
    [][row # NoUser /\ ~SoftDeleted /\ row' # row => row \in closed']_vars

\* No login and no deletion waits for ever: not for the index, not for the
\* row's lock, not for each other.
AccountRequestsEnd ==
    /\ \A l \in Logins : <>(pc[l] \in {"done", "failed"})
    /\ \A r \in Removals : <>(rpc[r] \in {"done", "failed"})
=============================================================================
