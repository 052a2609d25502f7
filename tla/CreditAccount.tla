---------------------------- MODULE CreditAccount ----------------------------
(***************************************************************************)
(* What the credit service promises to the rest of the backend: every      *)
(* account is a balance together with the ledger that explains it, and a   *)
(* posting changes both in one step.  Nothing here knows of transactions,  *)
(* row locks or the order in which the code reads and writes; module       *)
(* CreditLedger does, and implements this one.                             *)
(***************************************************************************)
EXTENDS Integers, Sequences

CONSTANTS
    Users,      \* ids of platform_users rows, one for every account ever made
    Keys,       \* idempotency keys
    NoKey,      \* the NULL idempotency key
    Deltas,     \* signed amounts that callers post
    FreeCredits \* settings.free_lifetime_credits, the signup grant

VARIABLES
    status,  \* [Users -> {"absent", "live", "deleted"}]
    balance, \* platform_users.credit_balance of each live row
    ledger   \* platform_credit_ledger, oldest event first

accountVars == <<status, balance, ledger>>

\* A row of platform_credit_ledger: the columns that decide anything.
Event == [delta : Int \ {0}, after : Nat, key : Keys \cup {NoKey}]

\* The two ledgers an account can be born with: empty, or the signup grant
\* of a device that had none (a deployment that grants 0 records nothing).
Openings ==
    {<<>>} \cup
    (IF FreeCredits > 0
     THEN {<<[delta |-> FreeCredits, after |-> FreeCredits, key |-> NoKey]>>}
     ELSE {})

\* The balance a ledger accounts for.
Closing(events) == IF events = <<>> THEN 0 ELSE events[Len(events)].after

\* Some event of the ledger carries this key.
Posted(events, key) == \E i \in 1..Len(events) : events[i].key = key

-----------------------------------------------------------------------------

Init ==
    /\ status = [u \in Users |-> "absent"]
    /\ balance = [u \in Users |-> 0]
    /\ ledger = [u \in Users |-> <<>>]

Open(u) ==
    /\ status[u] = "absent"
    /\ status' = [status EXCEPT ![u] = "live"]
    /\ \E opening \in Openings :
          /\ ledger' = [ledger EXCEPT ![u] = opening]
          /\ balance' = [balance EXCEPT ![u] = Closing(opening)]

\* A posting never overdraws, and a key is posted at most once.
Post(u, delta, key) ==
    /\ status[u] = "live"
    /\ balance[u] + delta >= 0
    /\ key # NoKey => ~Posted(ledger[u], key)
    /\ balance' = [balance EXCEPT ![u] = @ + delta]
    /\ ledger' = [ledger EXCEPT ![u] =
                    Append(@, [delta |-> delta,
                               after |-> balance[u] + delta,
                               key |-> key])]
    /\ UNCHANGED status

\* The row goes, and its ledger with it.
Close(u) ==
    /\ status[u] = "live"
    /\ status' = [status EXCEPT ![u] = "deleted"]
    /\ balance' = [balance EXCEPT ![u] = 0]
    /\ ledger' = [ledger EXCEPT ![u] = <<>>]

Next ==
    \E u \in Users :
        \/ Open(u)
        \/ Close(u)
        \/ \E delta \in Deltas, key \in Keys \cup {NoKey} : Post(u, delta, key)

Spec == Init /\ [][Next]_accountVars

-----------------------------------------------------------------------------

TypeOK ==
    /\ status \in [Users -> {"absent", "live", "deleted"}]
    /\ balance \in [Users -> Nat]
    /\ ledger \in [Users -> Seq(Event)]

\* Every event starts from the balance the event before it left.
Chained(events) ==
    \A i \in 1..Len(events) :
        events[i].after =
            events[i].delta + (IF i = 1 THEN 0 ELSE events[i - 1].after)

\* The ledger explains the balance: replaying it from zero gives, event by
\* event, the balance each event recorded, and the last one is the balance of
\* the account.
Reconciled ==
    \A u \in Users :
        /\ Chained(ledger[u])
        /\ balance[u] = Closing(ledger[u])

\* An idempotency key never stands on two events of one account.
KeysUnique ==
    \A u \in Users : \A i, j \in 1..Len(ledger[u]) :
        /\ ledger[u][i].key # NoKey
        /\ ledger[u][i].key = ledger[u][j].key
        => i = j
=============================================================================
