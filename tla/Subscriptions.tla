----------------------------- MODULE Subscriptions -----------------------------
(***************************************************************************)
(* Purchases: the RevenueCat webhook and POST /subscriptions/restore.      *)
(*                                                                         *)
(* Both run the same transaction: look the event id up, post the credits   *)
(* of the product, clear the user's active purchase records, insert a new  *)
(* record and commit.  RevenueCat delivers an event until it is answered   *)
(* with 200, in any order and several at a time, and a restore may run     *)
(* beside them.  PostgreSQL runs READ COMMITTED, so what orders the        *)
(* transactions is the locks their statements take: posting credits locks  *)
(* the user's row FOR UPDATE, clearing locks the records it updates, and   *)
(* the insert waits on the unique index of the event ids and locks the     *)
(* user's row FOR KEY SHARE for its foreign key.                           *)
(*                                                                         *)
(* Posting is one step: CreditLedger shows that under the user's lock the  *)
(* key lookup and the posting are not interfered with.                     *)
(***************************************************************************)
EXTENDS Integers

CONSTANTS
    Users,
    Products,  \* product ids of the store
    Price,     \* [Products -> Nat], credits of a product, 0 if not configured
    Events,    \* ids of the events RevenueCat ever sends
    Owner,     \* [Events -> Users]
    Kind,      \* [Events -> {"purchase", "end"}]
    Product,   \* [Events -> Products]
    Hooks,     \* webhook deliveries that can be in progress at a time
    Restorers, \* restores that can be in progress at a time
    NoTask,    \* the handler is idle
    MaxFaults  \* bound: transactions or answers lost for no reason modelled here

Handlers == Hooks \cup Restorers

ASSUME HandlersAssumption == Hooks \cap Restorers = {}
ASSUME FaultsAssumption == MaxFaults \in Nat
ASSUME PriceAssumption == Price \in [Products -> Nat]
ASSUME EventsAssumption ==
    /\ Owner \in [Events -> Users]
    /\ Kind \in [Events -> {"purchase", "end"}]
    /\ Product \in [Events -> Products]

\* What one transaction records.  A webhook records under the id of its event;
\* a restore makes its id from user and product, so there is one for both.
WebhookTask(e) ==
    [id |-> <<"rc", e>>, user |-> Owner[e], product |-> Product[e],
     activates |-> Kind[e] = "purchase"]
RestoreTask(u, p) ==
    [id |-> <<"restore", u, p>>, user |-> u, product |-> p, activates |-> TRUE]

Tasks == {WebhookTask(e) : e \in Events}
         \cup {RestoreTask(u, p) : u \in Users, p \in Products}
ASSUME NoTaskAssumption == NoTask \notin Tasks
ASSUME HandlersAreNoTasks == Handlers \cap Tasks = {}

\* Purchases of a configured product are worth credits.
Priced(t) == t.activates /\ Price[t.product] > 0

VARIABLES
    live,     \* users whose row exists
    records,  \* committed purchase records, as the tasks they came from
    active,   \* those with is_active_subscription
    granted,  \* tasks whose credits were posted, under their id as key
    older,    \* pairs of committed records and open transactions by created_at,
              \* the start of the transaction: the first is the older one
    happened, \* events the store has produced
    acked,    \* events answered with 200
    faults,   \* transactions that died and answers that were lost so far
    \* the request of each handler
    pc,
    task,     \* what it is about to record
    who,      \* the user of a restore that has no task yet
    posted,   \* it has posted credits that are not committed
    snap,     \* active records its UPDATE statement saw when it started
    cleared   \* records it has cleared and locked

dbVars == <<live, records, active, granted>>
storeVars == <<happened, acked>>
vars == <<live, records, active, granted, older, happened, acked, faults,
          pc, task, who, posted, snap, cleared>>

\* What has a created_at.
Stamped == records \cup {h \in Handlers : pc[h] # "idle"}

Locations == {"idle", "fetch", "grant", "clear", "clearing", "insert",
              "reference", "commit"}

-----------------------------------------------------------------------------
(***************************************************************************)
(* Locks.                                                                  *)
(***************************************************************************)

\* Handlers whose transaction has the row of u FOR UPDATE, or FOR KEY SHARE.
Updating_PlainSelect(u) == {}
Updating(u) ==
    {h \in Handlers : /\ pc[h] \in {"clear", "clearing", "insert",
                                    "reference", "commit"}
                      /\ Priced(task[h])
                      /\ task[h].user = u}
Sharing(u) == {h \in Handlers : pc[h] = "commit" /\ task[h].user = u}

\* Handlers whose uncommitted record has this event id.
Inserting(t) ==
    {h \in Handlers : pc[h] \in {"reference", "commit"} /\ task[h] = t}

\* The transactions h waits for.
Blockers(h) ==
    CASE pc[h] = "grant" ->
            (Updating(task[h].user) \cup Sharing(task[h].user)) \ {h}
      [] pc[h] = "clearing" ->
            {g \in Handlers \ {h} : cleared[g] \cap snap[h] # {}}
      [] pc[h] = "insert" -> Inserting(task[h]) \ {h}
      [] pc[h] = "reference" -> Updating(task[h].user) \ {h}
      [] OTHER -> {}

\* Everyone in a set of transactions waits for another one of the set.
Deadlocked(h) ==
    \E S \in SUBSET Handlers :
        h \in S /\ \A g \in S : Blockers(g) \cap S # {}

\* DELETE of the row of u, and of its records by cascade, gets through.
CanDelete(u) ==
    /\ Updating(u) \cup Sharing(u) = {}
    /\ \A h \in Handlers : \A t \in cleared[h] : t.user # u

-----------------------------------------------------------------------------

Init ==
    /\ live = Users
    /\ records = {}
    /\ active = {}
    /\ granted = {}
    /\ older = {}
    /\ happened = {}
    /\ acked = {}
    /\ faults = 0
    /\ pc = [h \in Handlers |-> "idle"]
    /\ task = [h \in Handlers |-> NoTask]
    /\ who = [h \in Handlers |-> NoTask]
    /\ posted = [h \in Handlers |-> FALSE]
    /\ snap = [h \in Handlers |-> {}]
    /\ cleared = [h \in Handlers |-> {}]

Goto(h, location) == pc' = [pc EXCEPT ![h] = location]

Begins(h) == older' = older \cup (Stamped \X {h})
Forgotten(S) == older' = {p \in older : p[1] \notin S /\ p[2] \notin S}

\* The transaction of h is over, whatever it flushed is gone or committed.
Reset(h) ==
    /\ Goto(h, "idle")
    /\ task' = [task EXCEPT ![h] = NoTask]
    /\ who' = [who EXCEPT ![h] = NoTask]
    /\ posted' = [posted EXCEPT ![h] = FALSE]
    /\ snap' = [snap EXCEPT ![h] = {}]
    /\ cleared' = [cleared EXCEPT ![h] = {}]

RolledBack(h) ==
    /\ Reset(h)
    /\ Forgotten({h})
    /\ UNCHANGED <<dbVars, storeVars>>

\* Where a task starts once its id was not found among the records.
FirstStep(t) == IF Priced(t) THEN "grant" ELSE "clear"

\* The store produces an event; RevenueCat has it from now on.
Happen(e) ==
    /\ e \notin happened
    /\ happened' = happened \cup {e}
    /\ UNCHANGED <<dbVars, older, acked, faults, pc, task, who, posted, snap,
                   cleared>>

Deliver_AcksInProgress(h, e) ==
    /\ pc[h] = "idle"
    /\ e \in happened \ acked
    /\ IF \/ WebhookTask(e) \in records
          \/ \E g \in Hooks : task[g] = WebhookTask(e)
       THEN /\ acked' = acked \cup {e}
            /\ UNCHANGED <<older, pc, task>>
       ELSE /\ Begins(h)
            /\ task' = [task EXCEPT ![h] = WebhookTask(e)]
            /\ Goto(h, FirstStep(WebhookTask(e)))
            /\ UNCHANGED acked
    /\ UNCHANGED <<dbVars, happened, faults, who, posted, snap, cleared>>

\* A delivery of an event that was not answered with 200 yet, perhaps while
\* another one is in progress: is_duplicate_event begins the transaction.
Deliver(h, e) ==
    /\ pc[h] = "idle"
    /\ e \in happened \ acked
    /\ IF WebhookTask(e) \in records
       THEN /\ acked' = acked \cup {e}
            /\ UNCHANGED <<older, pc, task>>
       ELSE /\ Begins(h)
            /\ task' = [task EXCEPT ![h] = WebhookTask(e)]
            /\ Goto(h, FirstStep(WebhookTask(e)))
            /\ UNCHANGED acked
    /\ UNCHANGED <<dbVars, happened, faults, who, posted, snap, cleared>>

\* POST /subscriptions/restore: reading the balance begins the transaction,
\* then RevenueCat is asked.  Without a user's row it answers 404.
BeginRestore(h, u) ==
    /\ pc[h] = "idle"
    /\ u \in live
    /\ who' = [who EXCEPT ![h] = u]
    /\ Begins(h)
    /\ Goto(h, "fetch")
    /\ UNCHANGED <<dbVars, storeVars, faults, task, posted, snap, cleared>>

\* RevenueCat names the product of an active entitlement, one that was bought.
\* A restore that is on record already changes nothing.
Fetched(h) ==
    /\ pc[h] = "fetch"
    /\ UNCHANGED <<dbVars, storeVars, faults>>
    /\ \E e \in happened :
          LET t == RestoreTask(who[h], Product[e]) IN
          /\ Owner[e] = who[h]
          /\ Kind[e] = "purchase"
          /\ IF t \in records
             THEN Reset(h) /\ Forgotten({h})
             ELSE /\ task' = [task EXCEPT ![h] = t]
                  /\ Goto(h, FirstStep(t))
                  /\ UNCHANGED <<older, who, posted, snap, cleared>>

\* Nothing is entitled, or RevenueCat cannot be reached (502).
FetchedNothing(h) ==
    /\ pc[h] = "fetch"
    /\ RolledBack(h)
    /\ UNCHANGED faults

Grant_Commits(h) ==
    /\ pc[h] = "grant"
    /\ Blockers(h) = {}
    /\ task[h].user \in live
    /\ granted' = granted \cup {task[h]}
    /\ Goto(h, "clear")
    /\ UNCHANGED <<live, records, active, storeVars, faults, older, task, who,
                   posted, snap, cleared>>

\* add_credits under the id as idempotency key, once the user's row is ours.
\* Without a user the webhook fails (500); the restore goes on and fails at
\* the foreign key.
Grant(h) ==
    /\ pc[h] = "grant"
    /\ Blockers(h) = {}
    /\ UNCHANGED faults
    /\ IF task[h].user \notin live /\ h \in Hooks
       THEN RolledBack(h)
       ELSE /\ posted' = [posted EXCEPT ![h] = /\ task[h].user \in live
                                              /\ task[h] \notin granted]
            /\ Goto(h, "clear")
            /\ UNCHANGED <<dbVars, storeVars, older, task, who, snap, cleared>>

\* The UPDATE of clear_active_subscription_records takes its snapshot ...
Clear(h) ==
    /\ pc[h] = "clear"
    /\ snap' = [snap EXCEPT ![h] = {t \in active : t.user = task[h].user}]
    /\ Goto(h, "clearing")
    /\ UNCHANGED <<dbVars, storeVars, older, faults, task, who, posted, cleared>>

\* ... and waits for the transactions that have locked one of the records it
\* saw; those still active are cleared, what came after the snapshot is not.
Cleared(h) ==
    /\ pc[h] = "clearing"
    /\ Blockers(h) = {}
    /\ cleared' = [cleared EXCEPT ![h] = snap[h] \cap active]
    /\ snap' = [snap EXCEPT ![h] = {}]
    /\ Goto(h, "insert")
    /\ UNCHANGED <<dbVars, storeVars, older, faults, task, who, posted>>

Insert_RetriesConflict(h) ==
    /\ pc[h] = "insert"
    /\ Blockers(h) = {}
    /\ task[h] \notin records
    /\ Goto(h, "reference")
    /\ UNCHANGED <<dbVars, storeVars, older, faults, task, who, posted, snap,
                   cleared>>

\* The INSERT of the record waits for an uncommitted one with the same id; a
\* committed one is an IntegrityError (500).
Insert(h) ==
    /\ pc[h] = "insert"
    /\ Blockers(h) = {}
    /\ UNCHANGED faults
    /\ IF task[h] \in records
       THEN RolledBack(h)
       ELSE /\ Goto(h, "reference")
            /\ UNCHANGED <<dbVars, storeVars, older, task, who, posted, snap,
                           cleared>>

\* Its foreign key locks the user's row FOR KEY SHARE; without a row it is an
\* IntegrityError (500).
Reference(h) ==
    /\ pc[h] = "reference"
    /\ Blockers(h) = {}
    /\ UNCHANGED faults
    /\ IF task[h].user \notin live
       THEN RolledBack(h)
       ELSE /\ Goto(h, "commit")
            /\ UNCHANGED <<dbVars, storeVars, older, task, who, posted, snap,
                           cleared>>

Acknowledges_Product(t) ==
    {e \in Events : Owner[e] = t.user /\ Product[e] = t.product}
Acknowledges(t) == {e \in Events : WebhookTask(e) = t}

\* The answer after the commit: 200, or none if the process or the connection
\* is lost in between.  RevenueCat delivers that event again.
Answer(t) ==
    \/ acked' = acked \cup Acknowledges(t) /\ UNCHANGED faults
    \/ /\ Acknowledges(t) # {}
       /\ faults < MaxFaults
       /\ faults' = faults + 1
       /\ UNCHANGED acked

\* Credits, cleared records and the new one become visible together.
Commit(h) ==
    LET t == task[h]
        Dated(x) == IF x = h THEN t ELSE x IN
    /\ pc[h] = "commit"
    /\ records' = records \cup {t}
    /\ active' = (active \ cleared[h]) \cup (IF t.activates THEN {t} ELSE {})
    /\ granted' = IF posted[h] THEN granted \cup {t} ELSE granted
    /\ older' = {<<Dated(p[1]), Dated(p[2])>> : p \in older}
    /\ Answer(t)
    /\ Reset(h)
    /\ UNCHANGED <<live, happened>>

\* PostgreSQL aborts a transaction of a deadlock (500).
DeadlockAborts(h) ==
    /\ Deadlocked(h)
    /\ RolledBack(h)
    /\ UNCHANGED faults

\* The process or the connection dies before the commit.
Dies(h) ==
    /\ pc[h] # "idle"
    /\ faults < MaxFaults
    /\ faults' = faults + 1
    /\ RolledBack(h)

\* DELETE /auth/me: records and ledger go with the user's row.
DeleteUser(u) ==
    /\ u \in live
    /\ CanDelete(u)
    /\ live' = live \ {u}
    /\ records' = {t \in records : t.user # u}
    /\ active' = {t \in active : t.user # u}
    /\ granted' = {t \in granted : t.user # u}
    /\ Forgotten({t \in records : t.user = u})
    /\ UNCHANGED <<storeVars, faults, pc, task, who, posted, snap, cleared>>

\* The steps that wait for a lock; h stands before at most one of them.
LockStep(h) == Grant(h) \/ Cleared(h) \/ Insert(h) \/ Reference(h)

HandlerStep(h) ==
    \/ Fetched(h) \/ FetchedNothing(h)
    \/ LockStep(h) \/ Clear(h) \/ Commit(h)
    \/ DeadlockAborts(h)

Next ==
    \/ \E e \in Events : Happen(e)
    \/ \E h \in Hooks, e \in Events : Deliver(h, e)
    \/ \E h \in Restorers, u \in Users : BeginRestore(h, u)
    \/ \E h \in Handlers : HandlerStep(h) \/ Dies(h)
    \/ \E u \in Users : DeleteUser(u)

\* Handlers run on; a lock that is released goes to the transaction that waits
\* for it; RevenueCat delivers again what was not answered with 200.  No
\* two transactions meet in a deadlock again and again for ever: deliveries are
\* repeated minutes apart.
Fairness ==
    /\ \A h \in Handlers :
          /\ SF_vars(LockStep(h))
          /\ WF_vars(HandlerStep(h))
    /\ \A e \in Events : SF_vars(\E h \in Hooks : Deliver(h, e))
    /\ <>[][~\E h \in Handlers : DeadlockAborts(h)]_vars

Spec == Init /\ [][Next]_vars
FairSpec == Spec /\ Fairness

-----------------------------------------------------------------------------
(***************************************************************************)
(* Properties.                                                             *)
(***************************************************************************)

TypeOK ==
    /\ live \subseteq Users
    /\ records \subseteq Tasks
    /\ active \subseteq records
    /\ granted \subseteq Tasks
    /\ older \subseteq Stamped \X Stamped
    /\ happened \subseteq Events
    /\ acked \subseteq happened
    /\ faults \in 0..MaxFaults
    /\ pc \in [Handlers -> Locations]
    /\ task \in [Handlers -> Tasks \cup {NoTask}]
    /\ who \in [Handlers -> Users \cup {NoTask}]
    /\ posted \in [Handlers -> BOOLEAN]
    /\ snap \in [Handlers -> SUBSET Tasks]
    /\ cleared \in [Handlers -> SUBSET Tasks]

\* Credits and record of a purchase come together: a purchase that is on
\* record was credited, and credits were posted for nothing else.
GrantsMatchRecords == granted = {t \in records : Priced(t)}

\* An event RevenueCat will not deliver again is on record, or its user is
\* gone and took the record along.
AcknowledgedIsRecorded ==
    \A e \in acked : Owner[e] \in live => WebhookTask(e) \in records

\* With only configured products, a user has at most one active record: the
\* user's lock makes each purchase clear the one before it.
AtMostOneActive ==
    (\A p \in Products : Price[p] > 0) =>
        \A s, t \in active : s.user = t.user => s = t

\* All the statements of a transaction, and all that runs beside them, are one
\* atomic step: record, credits and ended purchases, or nothing.
Book == INSTANCE PurchaseBook
    WITH Purchases <- Tasks, Buyer <- [t \in Tasks |-> t.user],
         Worth <- {t \in Tasks : Priced(t)},
         Activating <- {t \in Tasks : t.activates},
         Delivered <- {WebhookTask(e) : e \in Events},
         Exclusive <- \A p \in Products : Price[p] > 0,
         acked <- {WebhookTask(e) : e \in acked}
PurchaseSpec == Book!Spec

\* Every event of a live user ends up on record, in spite of deadlocks,
\* duplicates and dead processes.
EventsRecorded ==
    \A e \in Events :
        e \in happened ~> WebhookTask(e) \in records \/ Owner[e] \notin live

\* Every request ends: no two transactions wait for each other for ever.
RequestsEnd == \A h \in Handlers : pc[h] # "idle" ~> pc[h] = "idle"

-----------------------------------------------------------------------------
(***************************************************************************)
(* What documentation and names say, and the code does not do.             *)
(***************************************************************************)

\* get_current_subscription_record: the newest record by created_at, if it is
\* active.
HasSubscription(u) ==
    \E t \in active :
        /\ t.user = u
        /\ \A s \in records \ {t} : s.user = u => <<s, t>> \in older

\* "Get current user's subscription status": while the user has an active
\* record, GET /subscriptions/me says so.
ActiveIsReported ==
    \A u \in live : (\E t \in active : t.user = u) => HasSubscription(u)
=============================================================================
