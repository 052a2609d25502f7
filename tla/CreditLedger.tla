----------------------------- MODULE CreditLedger -----------------------------
(***************************************************************************)
(* app/services/platform/credit_service.py at the grain of its awaits.     *)
(*                                                                         *)
(* A call is an HTTP request or a worker step that moves credits: it opens *)
(* a database transaction, locks the user's row, looks the idempotency key *)
(* up, flushes the new balance together with a ledger event, and leaves    *)
(* commit or rollback to its caller.  Any number of calls interleave, in   *)
(* several server processes, so PostgreSQL's row lock is all that orders   *)
(* them.  The database runs READ COMMITTED: a statement sees what was      *)
(* committed before it, and what a call flushed is invisible to the others *)
(* until the caller commits.                                               *)
(***************************************************************************)
EXTENDS Integers, Sequences, FiniteSets

CONSTANTS
    Users,       \* user ids, of accounts past, present and to come
    Calls,       \* concurrent calls, each with a database session of its own
    Nobody,      \* no call holds the row lock
    Keys, NoKey, \* idempotency keys, and NULL
    Requests,    \* what callers ask for: a set of records [op, credits, key]
    NoEvent,     \* the call has flushed nothing
    FreeCredits, \* settings.free_lifetime_credits
    MaxEvents    \* bound: ledger events per account, those in flight included

\* consume_credit refuses less (credits < 25), add_credits refuses zero or less.
MinConsume == 25

ASSUME NobodyAssumption == Nobody \notin Calls
ASSUME NoKeyAssumption == NoKey \notin Keys
ASSUME FreeCreditsAssumption == FreeCredits \in Nat
\* consume_credit takes no idempotency key.
ASSUME RequestsAssumption ==
    /\ Requests \subseteq [op : {"consume", "add"}, credits : Int,
                           key : Keys \cup {NoKey}]
    /\ \A r \in Requests : r.op = "consume" => r.key = NoKey

Delta(r) == IF r.op = "consume" THEN -r.credits ELSE r.credits

\* The checks before the first await.
Admissible(r) ==
    IF r.op = "consume" THEN r.credits >= MinConsume ELSE r.credits > 0

VARIABLES
    \* committed rows of the database
    status, balance, ledger,
    \* the row lock of each user: Nobody, or the call whose transaction has it
    holder,
    \* the calls
    pc,     \* where the call stands
    asked,  \* [user, req], the arguments of the call
    read,   \* user.credit_balance as _lock_user loaded it
    draft,  \* the event flushed and not committed, or NoEvent
    answer  \* how the call last ended: "none", "applied", "replayed", "refused"

dbVars == <<status, balance, ledger>>
vars == <<status, balance, ledger, holder, pc, asked, read, draft, answer>>

Account ==
    INSTANCE CreditAccount
        WITH Deltas <- {Delta(r) : r \in {q \in Requests : Admissible(q)}}

\* A flushed event can be told from no event.
ASSUME NoEventAssumption == NoEvent \notin Account!Event

Locations == {"idle", "lock", "find", "apply", "flushed", "refused"}

\* Where a call has the row of its user locked.
Locked == {"find", "apply", "flushed"}

\* SELECT ... FOR UPDATE of the row of u gets through.
Lockable_PlainSelect(u) == TRUE
Lockable(u) == holder[u] = Nobody

\* The index lookup of _find_event_by_idempotency_key.
KeyKnown_Never(c) == FALSE
KeyKnown(c) == Account!Posted(ledger[asked[c].user], asked[c].req.key)

\* user.credit_balance + delta, and the guard on it.
NextBalance(c) == read[c] + Delta(asked[c].req)
Overdraws(c) == NextBalance(c) < 0

\* The transaction of c ends: what it locked is free again.
Released_NoRollback(c) == holder
Released(c) == [u \in Users |-> IF holder[u] = c THEN Nobody ELSE holder[u]]

\* Calls of u in flight, each of which may add an event.
Pending(u) == {c \in Calls : pc[c] # "idle" /\ asked[c].user = u}

-----------------------------------------------------------------------------

Init ==
    /\ status = [u \in Users |-> "absent"]
    /\ balance = [u \in Users |-> 0]
    /\ ledger = [u \in Users |-> <<>>]
    /\ holder = [u \in Users |-> Nobody]
    /\ pc = [c \in Calls |-> "idle"]
    /\ asked \in [Calls -> [user : Users, req : Requests]]
    /\ read = [c \in Calls |-> 0]
    /\ draft = [c \in Calls |-> NoEvent]
    /\ answer = [c \in Calls |-> "none"]

\* First login of a device: the row, and the signup grant if the device never
\* had one, are committed together.
CreateUser(u) ==
    /\ Account!Open(u)
    /\ UNCHANGED <<holder, pc, asked, read, draft, answer>>

\* DELETE /auth/me commits: the row goes and ON DELETE CASCADE takes the
\* ledger.  DELETE needs the row lock, so no call is past _lock_user.
DeleteUser(u) ==
    /\ Lockable(u)
    /\ Account!Close(u)
    /\ UNCHANGED <<holder, pc, asked, read, draft, answer>>

\* A caller enters consume_credit or add_credits.  The user id comes from a
\* JWT, a webhook or a job, so the row may be gone or not exist yet.
Begin(c, u, r) ==
    /\ pc[c] = "idle"
    /\ Len(ledger[u]) + Cardinality(Pending(u)) < MaxEvents
    /\ pc' = [pc EXCEPT ![c] = IF Admissible(r) THEN "lock" ELSE "refused"]
    /\ asked' = [asked EXCEPT ![c] = [user |-> u, req |-> r]]
    /\ answer' = [answer EXCEPT ![c] = "none"]
    /\ UNCHANGED <<status, balance, ledger, holder, read, draft>>

\* _lock_user: SELECT ... FOR UPDATE waits for the holder and then reads the
\* row as last committed; a row that is not there is a ValueError.
LockUser(c) ==
    LET u == asked[c].user IN
    /\ pc[c] = "lock"
    /\ Lockable(u)
    /\ IF status[u] = "live"
       THEN /\ holder' = [holder EXCEPT ![u] = c]
            /\ read' = [read EXCEPT ![c] = balance[u]]
            /\ pc' = [pc EXCEPT ![c] =
                        IF asked[c].req.key # NoKey THEN "find" ELSE "apply"]
       ELSE /\ pc' = [pc EXCEPT ![c] = "refused"]
            /\ UNCHANGED <<holder, read>>
    /\ UNCHANGED <<status, balance, ledger, asked, draft, answer>>

\* _find_event_by_idempotency_key: a hit returns the event of the first call,
\* and nothing is flushed.
FindKey(c) ==
    /\ pc[c] = "find"
    /\ pc' = [pc EXCEPT ![c] =
                IF KeyKnown(c) THEN "flushed" ELSE "apply"]
    /\ UNCHANGED <<status, balance, ledger, holder, asked, read, draft, answer>>

\* next_balance is computed from the row as loaded; below zero is
\* InsufficientCreditsError, otherwise balance and event are flushed.
Apply(c) ==
    /\ pc[c] = "apply"
    /\ IF Overdraws(c)
       THEN /\ pc' = [pc EXCEPT ![c] = "refused"]
            /\ UNCHANGED draft
       ELSE /\ pc' = [pc EXCEPT ![c] = "flushed"]
            /\ draft' = [draft EXCEPT ![c] =
                           [delta |-> Delta(asked[c].req),
                            after |-> NextBalance(c),
                            key |-> asked[c].req.key]]
    /\ UNCHANGED <<status, balance, ledger, holder, asked, read, answer>>

\* The caller commits and answers.
Commit(c) ==
    LET u == asked[c].user IN
    /\ pc[c] = "flushed"
    /\ IF draft[c] = NoEvent
       THEN /\ answer' = [answer EXCEPT ![c] = "replayed"]
            /\ UNCHANGED <<balance, ledger>>
       ELSE /\ answer' = [answer EXCEPT ![c] = "applied"]
            /\ balance' = [balance EXCEPT ![u] = draft[c].after]
            /\ ledger' = [ledger EXCEPT ![u] = Append(@, draft[c])]
    /\ holder' = Released(c)
    /\ pc' = [pc EXCEPT ![c] = "idle"]
    /\ draft' = [draft EXCEPT ![c] = NoEvent]
    /\ UNCHANGED <<status, asked, read>>

\* The transaction rolls back: what it flushed is gone, its locks are free.
RolledBack(c) ==
    /\ holder' = Released(c)
    /\ pc' = [pc EXCEPT ![c] = "idle"]
    /\ draft' = [draft EXCEPT ![c] = NoEvent]
    /\ UNCHANGED <<status, balance, ledger, asked, read>>

\* The caller catches ValueError or InsufficientCreditsError and rolls back.
Refuse(c) ==
    /\ pc[c] = "refused"
    /\ answer' = [answer EXCEPT ![c] = "refused"]
    /\ RolledBack(c)

\* A later step of the caller fails (the job queue is down), the client goes
\* away or the process dies: get_db or the server rolls back, nobody answers.
Abandon_AfterAnswer(c) ==
    /\ pc[c] = "flushed"
    /\ answer' = [answer EXCEPT ![c] = "applied"]
    /\ RolledBack(c)

Abandon(c) ==
    /\ pc[c] \in Locations \ {"idle", "refused"}
    /\ UNCHANGED answer
    /\ RolledBack(c)

Step(c) == LockUser(c) \/ FindKey(c) \/ Apply(c) \/ Commit(c) \/ Refuse(c)

Next ==
    \/ \E u \in Users : CreateUser(u) \/ DeleteUser(u)
    \/ \E c \in Calls, u \in Users, r \in Requests : Begin(c, u, r)
    \/ \E c \in Calls : Step(c) \/ Abandon(c)

\* A server process runs its handlers, and PostgreSQL serves the waiters of a
\* row lock in the order they queued: a call that can have the lock again and
\* again gets it.
Fairness ==
    \A c \in Calls :
        /\ SF_vars(LockUser(c))
        /\ WF_vars(FindKey(c) \/ Apply(c) \/ Commit(c) \/ Refuse(c))

Spec == Init /\ [][Next]_vars
FairSpec == Spec /\ Fairness

-----------------------------------------------------------------------------
(***************************************************************************)
(* Properties.                                                             *)
(***************************************************************************)

\* Types of the database rows and of the calls; no balance is negative.
TypeOK ==
    /\ Account!TypeOK
    /\ holder \in [Users -> Calls \cup {Nobody}]
    /\ pc \in [Calls -> Locations]
    /\ asked \in [Calls -> [user : Users, req : Requests]]
    /\ read \in [Calls -> Nat]
    /\ draft \in [Calls -> Account!Event \cup {NoEvent}]
    /\ answer \in [Calls -> {"none", "applied", "replayed", "refused"}]

\* However calls interleave, roll back or die, replaying an account's ledger
\* from zero gives every recorded balance_after and, at the end, the balance
\* on the user's row (apply_credit_delta writes the two in one flush).
Reconciled == Account!Reconciled

\* However often a grant is retried or delivered concurrently, its key is on
\* at most one event: the lookup and the insert are under one row lock, so the
\* unique index is never what stops the second call.
KeysUnique == Account!KeysUnique

\* A caller that was told its keyed grant was applied, or had been applied
\* before, finds the event in the ledger for as long as the account lives.
AcknowledgedGrantsStay ==
    \A c \in Calls :
        LET u == asked[c].user
            r == asked[c].req
        IN  /\ answer[c] \in {"applied", "replayed"}
            /\ r.key # NoKey
            /\ status[u] = "live"
            => Account!Posted(ledger[u], r.key)

\* What a flushed draft says is still true when its caller gets to commit it:
\* it starts from the committed balance and its key is still unused.
DraftsAreCurrent ==
    \A c \in Calls :
        LET u == asked[c].user IN
        pc[c] = "flushed" /\ draft[c] # NoEvent =>
            /\ status[u] = "live"
            /\ draft[c].after = balance[u] + draft[c].delta
            /\ draft[c].key # NoKey => ~Account!Posted(ledger[u], draft[c].key)

\* The interleaved calls implement the atomic account.
AccountSpec == Account!Spec

\* Every call is answered or rolled back: nobody waits for the lock for ever.
EveryCallEnds == \A c \in Calls : pc[c] # "idle" ~> pc[c] = "idle"
=============================================================================
