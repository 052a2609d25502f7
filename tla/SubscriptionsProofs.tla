-------------------------- MODULE SubscriptionsProofs --------------------------
(***************************************************************************)
(* Proofs about Subscriptions, for any users, products, prices, events and *)
(* handlers, and any number of dead transactions.                          *)
(***************************************************************************)
EXTENDS Subscriptions, TLAPS

-----------------------------------------------------------------------------
(***************************************************************************)
(* The inductive invariant.                                                *)
(***************************************************************************)

\* The types that the safety properties need; AgeInv below has the rest.
Types ==
    /\ live \subseteq Users
    /\ records \subseteq Tasks
    /\ active \subseteq records
    /\ granted \subseteq Tasks
    /\ happened \subseteq Events
    /\ acked \subseteq Events
    /\ pc \in [Handlers -> Locations]
    /\ task \in [Handlers -> Tasks \cup {NoTask}]
    /\ who \in [Handlers -> Users \cup {NoTask}]
    /\ posted \in [Handlers -> BOOLEAN]
    /\ snap \in [Handlers -> SUBSET Tasks]
    /\ cleared \in [Handlers -> SUBSET Tasks]

\* Where a transaction knows what it records, and where it has its row of
\* records flushed.
Recording == {"grant", "clear", "clearing", "insert", "reference", "commit"}
Flushed == {"reference", "commit"}

\* What a handler knows about its task by itself.
TaskInv(h) ==
    /\ pc[h] = "fetch" => who[h] \in Users
    /\ pc[h] \in Recording => task[h] \in Tasks
    /\ posted[h] => pc[h] \in Recording \ {"grant"} /\ Priced(task[h])
    /\ pc[h] = "grant" => Priced(task[h])
    /\ pc[h] = "commit" => task[h].user \in live

\* The row of a user is locked for one posting transaction at a time.
LockInv ==
    \A g, h \in Handlers :
        \A u \in Users : {g, h} \subseteq Updating(u) => g = h

\* The unique index: a record is flushed once, and was not there before.
IndexInv ==
    \A h \in Handlers : pc[h] \in Flushed =>
        /\ task[h] \notin records
        /\ \A g \in Handlers : pc[g] \in Flushed /\ task[g] = task[h] => g = h

\* It has its user's row, to post credits: h \in Updating(task[h].user).
Posting(h) ==
    /\ pc[h] \in {"clear", "clearing", "insert", "reference", "commit"}
    /\ Priced(task[h])

\* Past its posting, a transaction has new credits, or its user is gone, or
\* the credits were posted with a record that is still there.
PostInv(h) ==
    Posting(h) =>
        IF posted[h] THEN task[h] \notin granted
                     ELSE task[h].user \notin live \/ task[h] \in records

\* What a posting transaction has not cleared yet, it will.
ClearInv(h) ==
    LET mine == {t \in active : t.user = task[h].user} IN
    (\A p \in Products : Price[p] > 0) /\ Posting(h) =>
        /\ pc[h] = "clearing" => mine \subseteq snap[h]
        /\ pc[h] \in {"insert", "reference", "commit"} => mine \subseteq cleared[h]

IInv ==
    /\ Types
    /\ \A h \in Handlers : TaskInv(h) /\ PostInv(h) /\ ClearInv(h)
    /\ LockInv
    /\ IndexInv
    /\ GrantsMatchRecords
    /\ AcknowledgedIsRecorded
    /\ AtMostOneActive

-----------------------------------------------------------------------------
(***************************************************************************)
(* Tasks.                                                                  *)
(***************************************************************************)

LEMMA TaskFields ==
    ASSUME NEW t \in Tasks
    PROVE  t.user \in Users /\ t.product \in Products
  BY EventsAssumption DEF Tasks, WebhookTask, RestoreTask

LEMMA WebhookTasks ==
    ASSUME NEW e \in Events
    PROVE  WebhookTask(e) \in Tasks /\ WebhookTask(e).user = Owner[e]
  BY DEF Tasks, WebhookTask

LEMMA RestoreTasks ==
    ASSUME NEW u \in Users, NEW p \in Products
    PROVE  RestoreTask(u, p) \in Tasks
  BY DEF Tasks

\* With configured products only, whatever activates a record posts credits.
LEMMA ActivatesIsPriced ==
    ASSUME NEW t \in Tasks, \A p \in Products : Price[p] > 0, t.activates
    PROVE  Priced(t)
  BY TaskFields DEF Priced

LEMMA InitIInv == Init => IInv
  BY DEF Init, IInv, Types, Locations, TaskInv, PostInv, ClearInv, Posting,
         LockInv, IndexInv, GrantsMatchRecords, AcknowledgedIsRecorded,
         AtMostOneActive, Updating, Recording, Flushed

-----------------------------------------------------------------------------
(***************************************************************************)
(* Steps of one transaction that commit nothing.                           *)
(***************************************************************************)

Quiet(h) ==
    /\ UNCHANGED dbVars
    /\ \A g \in Handlers \ {h} :
        /\ pc'[g] = pc[g] /\ task'[g] = task[g] /\ who'[g] = who[g]
        /\ posted'[g] = posted[g] /\ snap'[g] = snap[g]
        /\ cleared'[g] = cleared[g]

LEMMA QuietInv ==
    ASSUME IInv, NEW h \in Handlers, Quiet(h), Types',
           AcknowledgedIsRecorded', TaskInv(h)', PostInv(h)', ClearInv(h)',
           \A u \in Users : h \in Updating(u)' =>
               h \in Updating(u) \/ Updating(u) \subseteq {h},
           pc'[h] \in Flushed =>
               /\ task'[h] = task[h]
               /\ \/ pc[h] \in Flushed
                  \/ task[h] \notin records /\ Inserting(task[h]) \subseteq {h}
    PROVE  IInv'
  <1>1. ASSUME NEW g \in Handlers
        PROVE  TaskInv(g)' /\ PostInv(g)' /\ ClearInv(g)'
    <2>1. CASE g = h
      BY <2>1
    <2>2. CASE g # h
      BY <2>2 DEF IInv, Quiet, dbVars, TaskInv, PostInv, ClearInv, Posting,
             Updating
    <2> QED
      BY <2>1, <2>2
  <1>2. LockInv'
    <2> SUFFICES ASSUME NEW f \in Handlers, NEW g \in Handlers, NEW u \in Users,
                        f \in Updating(u)', g \in Updating(u)', f # g
                 PROVE  FALSE
      BY DEF LockInv
    <2>1. \A k \in Handlers \ {h} : k \in Updating(u)' => k \in Updating(u)
      BY DEF Quiet, Updating
    <2> QED
      BY <2>1 DEF IInv, LockInv
  <1>3. IndexInv'
    BY DEF IInv, IndexInv, Quiet, dbVars, Inserting, Flushed
  <1> QED
    BY <1>1, <1>2, <1>3
    DEF IInv, Quiet, dbVars, GrantsMatchRecords, AtMostOneActive, Priced

LEMMA RolledBackInv ==
    ASSUME IInv, NEW h \in Handlers, RolledBack(h)
    PROVE  IInv'
  <1> USE DEF RolledBack, Reset, Goto, dbVars, storeVars
  <1>1. Quiet(h)
    BY DEF Quiet, IInv, Types
  <1>2. Types'
    BY DEF IInv, Types, Locations
  <1>3. pc'[h] = "idle" /\ ~posted'[h]
    BY DEF IInv, Types
  <1>4. AcknowledgedIsRecorded'
    BY DEF IInv, AcknowledgedIsRecorded
  <1> QED
    BY <1>1, <1>2, <1>3, <1>4, QuietInv
    DEF TaskInv, PostInv, ClearInv, Posting, Updating, Recording, Flushed

LEMMA DeliverInv ==
    ASSUME IInv, NEW h \in Hooks, NEW e \in Events, Deliver(h, e)
    PROVE  IInv'
  <1> USE DEF Deliver, Goto, dbVars
  <1>1. h \in Handlers
    BY DEF Handlers
  <1>2. CASE WebhookTask(e) \in records
    <2>1. Quiet(h) /\ UNCHANGED <<pc, task, who, posted, snap, cleared>>
      BY <1>2 DEF Quiet
    <2>2. Types'
      BY <1>2 DEF IInv, Types
    <2>3. AcknowledgedIsRecorded'
      BY <1>2 DEF IInv, AcknowledgedIsRecorded
    <2> QED
      BY <1>1, <2>1, <2>2, <2>3, QuietInv
      DEF IInv, TaskInv, PostInv, ClearInv, Posting,
             Updating
  <1>3. CASE WebhookTask(e) \notin records
    <2> DEFINE t == WebhookTask(e)
    <2>1. t \in Tasks
      BY WebhookTasks
    <2>2. pc[h] = "idle" /\ pc' = [pc EXCEPT ![h] = FirstStep(t)]
          /\ task' = [task EXCEPT ![h] = t]
          /\ UNCHANGED <<live, records, active, granted, happened, acked, who,
                         posted, snap, cleared>>
      BY <1>3
    <2> HIDE DEF t
    <2>3. FirstStep(t) \in {"grant", "clear"}
          /\ (FirstStep(t) = "grant" <=> Priced(t))
      BY DEF FirstStep
    <2>4. Types'
      BY <1>1, <2>1, <2>2, <2>3 DEF IInv, Types, Locations
    <2>5. pc'[h] = FirstStep(t) /\ task'[h] = t /\ posted'[h] = FALSE
      BY <1>1, <2>2 DEF IInv, Types, TaskInv, Recording
    <2>6. \A u : h \notin Updating(u)'
      BY <2>3, <2>5 DEF Updating, Priced
    <2>7. Quiet(h)
      BY <1>1, <2>2 DEF Quiet, IInv, Types
    <2>8. AcknowledgedIsRecorded'
      BY <2>2 DEF IInv, AcknowledgedIsRecorded
    <2>9. TaskInv(h)' /\ PostInv(h)' /\ ClearInv(h)'
      BY <2>1, <2>3, <2>5, <2>6
      DEF TaskInv, PostInv, ClearInv, Posting, Recording, Priced
    <2> QED
      BY <1>1, <2>3, <2>4, <2>5, <2>6, <2>7, <2>8, <2>9, QuietInv DEF Flushed
  <1> QED
    BY <1>2, <1>3

LEMMA BeginRestoreInv ==
    ASSUME IInv, NEW h \in Restorers, NEW u \in Users, BeginRestore(h, u)
    PROVE  IInv'
  <1> USE DEF BeginRestore, Goto, dbVars, storeVars
  <1>1. h \in Handlers
    BY DEF Handlers
  <1>2. Quiet(h)
    BY <1>1 DEF Quiet, IInv, Types
  <1>3. Types'
    BY <1>1 DEF IInv, Types, Locations
  <1>4. pc'[h] = "fetch" /\ who'[h] = u /\ ~posted'[h]
    BY <1>1 DEF IInv, Types, TaskInv, Recording
  <1>5. AcknowledgedIsRecorded'
    BY DEF IInv, AcknowledgedIsRecorded
  <1> QED
    BY <1>1, <1>2, <1>3, <1>4, <1>5, QuietInv
    DEF TaskInv, PostInv, ClearInv, Posting, Updating, Recording, Flushed

LEMMA FetchedInv ==
    ASSUME IInv, NEW h \in Handlers, Fetched(h)
    PROVE  IInv'
  <1> USE DEF Fetched, Goto, dbVars, storeVars
  <1>1. PICK e \in happened :
            LET t == RestoreTask(who[h], Product[e]) IN
            /\ Owner[e] = who[h]
            /\ Kind[e] = "purchase"
            /\ IF t \in records
               THEN Reset(h) /\ Forgotten({h})
               ELSE /\ task' = [task EXCEPT ![h] = t]
                    /\ pc' = [pc EXCEPT ![h] = FirstStep(t)]
                    /\ UNCHANGED <<older, who, posted, snap, cleared>>
    OBVIOUS
  <1> DEFINE t == RestoreTask(who[h], Product[e])
  <1>2. CASE t \in records
    BY <1>1, <1>2, RolledBackInv DEF RolledBack
  <1>3. CASE t \notin records
    <2>1. /\ pc[h] = "fetch" /\ pc' = [pc EXCEPT ![h] = FirstStep(t)]
          /\ task' = [task EXCEPT ![h] = t]
          /\ UNCHANGED <<live, records, active, granted, happened, acked, who,
                         posted, snap, cleared>>
      BY <1>1, <1>3
    <2>2. who[h] \in Users
      BY <2>1 DEF IInv, TaskInv
    <2>3. e \in Events /\ t \in Tasks
      <3>1. e \in Events
        BY DEF IInv, Types
      <3> QED
        BY <3>1, <2>2, RestoreTasks, EventsAssumption
    <2> HIDE DEF t
    <2>4. FirstStep(t) \in {"grant", "clear"}
          /\ (FirstStep(t) = "grant" <=> Priced(t))
      BY DEF FirstStep
    <2>5. Types'
      BY <2>1, <2>3, <2>4 DEF IInv, Types, Locations
    <2>6. pc'[h] = FirstStep(t) /\ task'[h] = t /\ posted'[h] = FALSE
      BY <2>1 DEF IInv, Types, TaskInv, Recording
    <2>7. \A u : h \notin Updating(u)'
      BY <2>4, <2>6 DEF Updating, Priced
    <2>8. Quiet(h)
      BY <2>1 DEF Quiet, IInv, Types
    <2>9. AcknowledgedIsRecorded'
      BY <2>1 DEF IInv, AcknowledgedIsRecorded
    <2>10. TaskInv(h)' /\ PostInv(h)' /\ ClearInv(h)'
      BY <2>3, <2>4, <2>6, <2>7
      DEF TaskInv, PostInv, ClearInv, Posting, Recording, Priced
    <2> QED
      BY <2>4, <2>5, <2>6, <2>7, <2>8, <2>9, <2>10, QuietInv DEF Flushed
  <1> QED
    BY <1>2, <1>3

\* The grant takes the user's row, which nobody else has then.
LEMMA GrantInv ==
    ASSUME IInv, NEW h \in Handlers, Grant(h)
    PROVE  IInv'
  <1> DEFINE t == task[h]
  <1> USE DEF Grant, Goto
  <1>1. CASE t.user \notin live /\ h \in Hooks
    BY <1>1, RolledBackInv
  <1>2. CASE ~(t.user \notin live /\ h \in Hooks)
    <2>1. /\ pc[h] = "grant"
          /\ posted' = [posted EXCEPT ![h] = t.user \in live /\ t \notin granted]
          /\ pc' = [pc EXCEPT ![h] = "clear"]
          /\ UNCHANGED <<live, records, active, granted, happened, acked, task,
                         who, snap, cleared>>
      BY <1>2 DEF dbVars, storeVars
    <2>2. t \in Tasks /\ Priced(t) /\ t.user \in Users
      BY <2>1, TaskFields DEF IInv, TaskInv, Recording
    <2>3. Updating(t.user) \subseteq {h}
      BY <2>1 DEF Blockers
    <2>4. Types'
      BY <2>1 DEF IInv, Types, Locations
    <2>5. pc'[h] = "clear" /\ task'[h] = t
          /\ posted'[h] = (t.user \in live /\ t \notin granted)
      BY <2>1 DEF IInv, Types
    <2>6. Quiet(h)
      BY <2>1 DEF Quiet, IInv, Types, dbVars
    <2>7. TaskInv(h)' /\ ClearInv(h)'
      BY <2>1, <2>2, <2>5 DEF TaskInv, ClearInv, Posting, Recording, Priced
    <2>8. PostInv(h)'
      BY <2>1, <2>2, <2>5 DEF PostInv, Posting, IInv, GrantsMatchRecords
    <2>9. \A u : h \in Updating(u)' => u = t.user
      BY <2>5 DEF Updating
    <2>10. AcknowledgedIsRecorded'
      BY <2>1 DEF IInv, AcknowledgedIsRecorded
    <2> QED
      BY <2>3, <2>4, <2>5, <2>6, <2>7, <2>8, <2>9, <2>10, QuietInv DEF Flushed
  <1> QED
    BY <1>1, <1>2

\* From its clearing on, a transaction moves along with the locks it has.
LEMMA MoveInv ==
    ASSUME IInv, NEW h \in Handlers,
           \/ Clear(h) \/ Cleared(h)
           \/ Insert(h) \/ Reference(h)
    PROVE  IInv'
  <1>1. CASE Clear(h)
    <2>1. /\ pc[h] = "clear" /\ pc' = [pc EXCEPT ![h] = "clearing"]
          /\ snap' = [snap EXCEPT ![h] = {t \in active : t.user = task[h].user}]
          /\ UNCHANGED <<live, records, active, granted, happened, acked, task,
                         who, posted, cleared>>
      BY <1>1 DEF Clear, Goto, dbVars, storeVars
    <2>2. pc'[h] = "clearing"
          /\ snap'[h] = {t \in active : t.user = task[h].user}
      BY <2>1 DEF IInv, Types
    <2>3. Types'
      BY <2>1 DEF IInv, Types, Locations
    <2>4. Quiet(h)
      BY <2>1 DEF Quiet, IInv, Types, dbVars
    <2>5. TaskInv(h)' /\ PostInv(h)' /\ ClearInv(h)'
      BY <2>1, <2>2
      DEF IInv, TaskInv, PostInv, ClearInv, Posting, Recording, Updating,
            Priced
    <2>6. \A u : h \in Updating(u)' => h \in Updating(u)
      BY <2>1, <2>2 DEF Updating, Priced
    <2>7. AcknowledgedIsRecorded'
      BY <2>1 DEF IInv, AcknowledgedIsRecorded
    <2> QED
      BY <2>2, <2>3, <2>4, <2>5, <2>6, <2>7, QuietInv DEF Flushed
  <1>2. CASE Cleared(h)
    <2>1. /\ pc[h] = "clearing" /\ pc' = [pc EXCEPT ![h] = "insert"]
          /\ cleared' = [cleared EXCEPT ![h] = snap[h] \cap active]
          /\ snap' = [snap EXCEPT ![h] = {}]
          /\ UNCHANGED <<live, records, active, granted, happened, acked, task,
                         who, posted>>
      BY <1>2 DEF Cleared, Goto, dbVars, storeVars
    <2>2. pc'[h] = "insert" /\ cleared'[h] = snap[h] \cap active
      BY <2>1 DEF IInv, Types
    <2>3. Types'
      BY <2>1 DEF IInv, Types, Locations
    <2>4. Quiet(h)
      BY <2>1 DEF Quiet, IInv, Types, dbVars
    <2>5. TaskInv(h)' /\ PostInv(h)' /\ ClearInv(h)'
      BY <2>1, <2>2
      DEF IInv, TaskInv, PostInv, ClearInv, Posting, Recording, Updating,
            Priced
    <2>6. \A u : h \in Updating(u)' => h \in Updating(u)
      BY <2>1, <2>2 DEF Updating, Priced
    <2>7. AcknowledgedIsRecorded'
      BY <2>1 DEF IInv, AcknowledgedIsRecorded
    <2> QED
      BY <2>2, <2>3, <2>4, <2>5, <2>6, <2>7, QuietInv DEF Flushed
  <1>3. CASE Insert(h)
    <2>1. CASE task[h] \in records
      BY <1>3, <2>1, RolledBackInv DEF Insert
    <2>2. CASE task[h] \notin records
      <3>1. /\ pc[h] = "insert" /\ pc' = [pc EXCEPT ![h] = "reference"]
            /\ Inserting(task[h]) \subseteq {h}
            /\ UNCHANGED <<live, records, active, granted, happened, acked, task,
                           who, posted, snap, cleared>>
        BY <1>3, <2>2 DEF Insert, Goto, dbVars, storeVars, Blockers
      <3>2. pc'[h] = "reference"
        BY <3>1 DEF IInv, Types
      <3>3. Types'
        BY <3>1 DEF IInv, Types, Locations
      <3>4. Quiet(h)
        BY <3>1 DEF Quiet, IInv, Types, dbVars
      <3>5. TaskInv(h)' /\ PostInv(h)' /\ ClearInv(h)'
        BY <3>1, <3>2
        DEF IInv, TaskInv, PostInv, ClearInv, Posting, Recording, Updating,
            Priced
      <3>6. \A u : h \in Updating(u)' => h \in Updating(u)
        BY <3>1, <3>2 DEF Updating, Priced
      <3>7. AcknowledgedIsRecorded'
        BY <3>1 DEF IInv, AcknowledgedIsRecorded
      <3> QED
        BY <2>2, <3>1, <3>2, <3>3, <3>4, <3>5, <3>6, <3>7, QuietInv
    <2> QED
      BY <2>1, <2>2
  <1>4. CASE Reference(h)
    <2>1. CASE task[h].user \notin live
      BY <1>4, <2>1, RolledBackInv DEF Reference
    <2>2. CASE task[h].user \in live
      <3>1. /\ pc[h] = "reference" /\ pc' = [pc EXCEPT ![h] = "commit"]
            /\ UNCHANGED <<live, records, active, granted, happened, acked, task,
                           who, posted, snap, cleared>>
        BY <1>4, <2>2 DEF Reference, Goto, dbVars, storeVars
      <3>2. pc'[h] = "commit"
        BY <3>1 DEF IInv, Types
      <3>3. Types'
        BY <3>1 DEF IInv, Types, Locations
      <3>4. Quiet(h)
        BY <3>1 DEF Quiet, IInv, Types, dbVars
      <3>5. TaskInv(h)' /\ PostInv(h)' /\ ClearInv(h)'
        BY <2>2, <3>1, <3>2
        DEF IInv, TaskInv, PostInv, ClearInv, Posting, Recording, Updating,
            Priced
      <3>6. \A u : h \in Updating(u)' => h \in Updating(u)
        BY <3>1, <3>2 DEF Updating, Priced
      <3>7. AcknowledgedIsRecorded'
        BY <3>1 DEF IInv, AcknowledgedIsRecorded
      <3> QED
        BY <3>1, <3>2, <3>3, <3>4, <3>5, <3>6, <3>7, QuietInv DEF Flushed
    <2> QED
      BY <2>1, <2>2
  <1> QED
    BY <1>1, <1>2, <1>3, <1>4

-----------------------------------------------------------------------------
(***************************************************************************)
(* Steps that change the tables.                                           *)
(***************************************************************************)

LEMMA CommitInv ==
    ASSUME IInv, NEW h \in Handlers, Commit(h)
    PROVE  IInv'
  <1> DEFINE t == task[h]
  <1>1. /\ pc[h] = "commit"
        /\ records' = records \cup {t}
        /\ active' = (active \ cleared[h]) \cup (IF t.activates THEN {t} ELSE {})
        /\ granted' = IF posted[h] THEN granted \cup {t} ELSE granted
        /\ acked' \in {acked, acked \cup Acknowledges(t)}
        /\ Reset(h)
        /\ UNCHANGED <<live, happened>>
    BY DEF Commit, Answer
  <1>2. t \in Tasks /\ t.user \in Users /\ t.user \in live /\ t \notin records
    BY <1>1, TaskFields
    DEF IInv, TaskInv, IndexInv, Recording, Flushed
  <1>3. posted[h] <=> Priced(t)
    <2>1. posted[h] => Priced(t)
      BY DEF IInv, TaskInv
    <2> QED
      BY <1>1, <1>2, <2>1 DEF IInv, PostInv, Posting, Types
  <1>4. /\ pc'[h] = "idle" /\ ~posted'[h]
        /\ \A g \in Handlers \ {h} :
              /\ pc'[g] = pc[g] /\ task'[g] = task[g] /\ who'[g] = who[g]
              /\ posted'[g] = posted[g] /\ snap'[g] = snap[g]
              /\ cleared'[g] = cleared[g]
    BY <1>1 DEF Reset, Goto, IInv, Types
  \* Whoever else posts, does so for another user.
  <1>5. \A g \in Handlers \ {h} :
            Priced(t) => g \notin Updating(t.user)
    BY <1>1, <1>2 DEF IInv, LockInv, Updating
  <1>6. \A u : \A g \in Handlers :
            g \in Updating(u)' => g # h /\ g \in Updating(u)
    BY <1>4 DEF Updating, Priced
  <1> HIDE DEF t
  <1>7. Types'
    <2>1. acked' \subseteq Events
      BY <1>1 DEF Acknowledges, IInv, Types
    <2>2. active' \subseteq records' /\ records' \subseteq Tasks
          /\ granted' \subseteq Tasks
      BY <1>1, <1>2 DEF IInv, Types
    <2>3. pc' \in [Handlers -> Locations]
      BY <1>1 DEF Reset, Goto, IInv, Types, Locations
    <2> QED
      BY <1>1, <2>1, <2>2, <2>3 DEF Reset, IInv, Types
  <1>8. ASSUME NEW g \in Handlers
        PROVE  TaskInv(g)' /\ PostInv(g)' /\ ClearInv(g)'
    <2>1. CASE g = h
      BY <2>1, <1>4, <1>6 DEF TaskInv, PostInv, ClearInv, Posting, Recording
    <2>2. CASE g # h
      <3>1. TaskInv(g)'
        BY <2>2, <1>1, <1>4 DEF IInv, TaskInv, Priced
      <3>2. PostInv(g)'
        <4> SUFFICES ASSUME Posting(g)'
                     PROVE  IF posted[g] THEN task[g] \notin granted'
                            ELSE task[g].user \notin live \/ task[g] \in records'
          BY <1>1, <1>4, <2>2 DEF PostInv, Posting
        <4>1. Posting(g) /\ g \in Updating(task[g].user)
          BY <1>4, <2>2 DEF Posting, Updating, Priced
        <4>2. posted[h] => task[g] # t
          BY <4>1, <1>3, <1>5, <2>2
        <4> QED
          BY <4>1, <4>2, <1>1 DEF IInv, PostInv, Posting
      <3>3. ClearInv(g)'
        <4> SUFFICES ASSUME \A p \in Products : Price[p] > 0,
                            Posting(g)'
                     PROVE  LET mine == {s \in active' : s.user = task[g].user} IN
                            /\ pc[g] = "clearing" => mine \subseteq snap[g]
                            /\ pc[g] \in {"insert", "reference", "commit"} =>
                                  mine \subseteq cleared[g]
          BY <1>4, <2>2 DEF ClearInv, Posting
        <4>1. Posting(g) /\ g \in Updating(task[g].user)
          BY <1>4, <2>2 DEF Posting, Updating, Priced
        <4>2. t.activates => t.user # task[g].user
          BY <4>1, <1>2, <1>5, <2>2, ActivatesIsPriced
        <4>3. {s \in active' : s.user = task[g].user}
                 \subseteq {s \in active : s.user = task[g].user}
          BY <4>2, <1>1
        <4> QED
          BY <4>1, <4>3 DEF IInv, ClearInv, Posting
      <3> QED
        BY <3>1, <3>2, <3>3
    <2> QED
      BY <2>1, <2>2
  <1>9. LockInv'
    BY <1>6 DEF IInv, LockInv
  <1>10. IndexInv'
    BY <1>1, <1>4 DEF IInv, IndexInv, Flushed, t
  <1>11. GrantsMatchRecords'
    BY <1>1, <1>3 DEF IInv, GrantsMatchRecords, Priced
  <1>12. AcknowledgedIsRecorded'
    BY <1>1 DEF IInv, AcknowledgedIsRecorded, Acknowledges
  <1>13. AtMostOneActive'
    <2> SUFFICES ASSUME \A p \in Products : Price[p] > 0, t.activates
                 PROVE  \A s \in active \ cleared[h] : s.user # t.user
      BY <1>1 DEF IInv, AtMostOneActive
    <2>1. Posting(h)
      BY <1>1, <1>2, ActivatesIsPriced DEF Posting, t
    <2> QED
      BY <2>1, <1>1 DEF IInv, ClearInv, Posting, t
  <1> QED
    BY <1>7, <1>8, <1>9, <1>10, <1>11, <1>12, <1>13 DEF IInv

\* An account is deleted only while no transaction holds its row.
LEMMA DeleteUserInv ==
    ASSUME IInv, NEW u \in Users, DeleteUser(u)
    PROVE  IInv'
  <1>1. /\ CanDelete(u)
        /\ live' = live \ {u}
        /\ records' = {t \in records : t.user # u}
        /\ active' = {t \in active : t.user # u}
        /\ granted' = {t \in granted : t.user # u}
        /\ UNCHANGED <<happened, acked, pc, task, who, posted, snap, cleared>>
    BY DEF DeleteUser, storeVars
  <1>2. Types'
    BY <1>1 DEF IInv, Types
  <1>3. (\A v : Updating(v)' = Updating(v))
        /\ \A h \in Handlers : Posting(h)' <=> Posting(h)
    BY <1>1 DEF Updating, Posting, Priced
  <1>4. ASSUME NEW h \in Handlers
        PROVE  TaskInv(h)' /\ PostInv(h)' /\ ClearInv(h)'
    <2>1. pc[h] = "commit" => task[h].user # u
      BY <1>1 DEF CanDelete, Sharing
    <2>2. Posting(h) => task[h].user # u
      BY <1>1 DEF CanDelete, Posting, Updating
    <2>3. TaskInv(h)'
      BY <1>1, <2>1 DEF IInv, TaskInv, Priced
    <2>4. PostInv(h)'
      BY <1>1, <1>3, <2>2 DEF IInv, PostInv, Posting
    <2>5. ClearInv(h)'
      BY <1>1, <1>3 DEF IInv, ClearInv, Posting
    <2> QED
      BY <2>3, <2>4, <2>5
  <1>5. LockInv'
    BY <1>3 DEF IInv, LockInv
  <1>6. IndexInv'
    BY <1>1 DEF IInv, IndexInv
  <1>7. GrantsMatchRecords'
    BY <1>1 DEF IInv, GrantsMatchRecords, Priced
  <1>8. AcknowledgedIsRecorded'
    <2>1. \A e \in acked : WebhookTask(e).user = Owner[e]
      BY WebhookTasks DEF IInv, Types
    <2> QED
      BY <1>1, <2>1 DEF IInv, AcknowledgedIsRecorded
  <1>9. AtMostOneActive'
    BY <1>1 DEF IInv, AtMostOneActive
  <1> QED
    BY <1>2, <1>4, <1>5, <1>6, <1>7, <1>8, <1>9 DEF IInv

\* Steps that change nothing the invariant is about.
LEMMA IdleInv ==
    ASSUME IInv, happened' \subseteq Events,
           UNCHANGED <<live, records, active, granted, acked, pc, task, who,
                       posted, snap, cleared>>
    PROVE  IInv'
  BY DEF IInv, Types, TaskInv, PostInv, ClearInv, Posting, LockInv, IndexInv,
         Updating,
         Priced, GrantsMatchRecords, AcknowledgedIsRecorded, AtMostOneActive

LEMMA NextIInv == IInv /\ [Next]_vars => IInv'
  <1> SUFFICES ASSUME IInv, [Next]_vars PROVE IInv'
    OBVIOUS
  <1>1. ASSUME NEW e \in Events, Happen(e) PROVE IInv'
    BY <1>1, IdleInv DEF Happen, dbVars, IInv, Types
  <1>2. ASSUME NEW h \in Hooks, NEW e \in Events, Deliver(h, e) PROVE IInv'
    BY <1>2, DeliverInv
  <1>3. ASSUME NEW h \in Restorers, NEW u \in Users, BeginRestore(h, u)
        PROVE  IInv'
    BY <1>3, BeginRestoreInv
  <1>4. ASSUME NEW h \in Handlers, HandlerStep(h) PROVE IInv'
    BY <1>4, FetchedInv, GrantInv, MoveInv, CommitInv, RolledBackInv
    DEF HandlerStep, LockStep, FetchedNothing, DeadlockAborts
  <1>5. ASSUME NEW h \in Handlers, Dies(h) PROVE IInv'
    BY <1>5, RolledBackInv DEF Dies
  <1>6. ASSUME NEW u \in Users, DeleteUser(u) PROVE IInv'
    BY <1>6, DeleteUserInv
  <1>7. CASE UNCHANGED vars
    BY <1>7, IdleInv DEF vars, IInv, Types
  <1> QED
    BY <1>1, <1>2, <1>3, <1>4, <1>5, <1>6, <1>7 DEF Next

THEOREM Invariance == Spec => []IInv
  BY InitIInv, NextIInv, PTL DEF Spec

-----------------------------------------------------------------------------
(***************************************************************************)
(* The age of records and transactions.                                    *)
(***************************************************************************)

\* R orders all of S strictly, and nothing else.
IsOrder(R, S) ==
    /\ R \subseteq S \X S
    /\ \A x \in S : <<x, x>> \notin R
    /\ \A x, y \in S : x # y => <<x, y>> \in R \/ <<y, x>> \in R
    /\ \A x, y, z \in S : <<x, y>> \in R /\ <<y, z>> \in R => <<x, z>> \in R

\* A newest element, ...
LEMMA OrderExtends ==
    ASSUME NEW R, NEW S, IsOrder(R, S), NEW x, x \notin S
    PROVE  IsOrder(R \cup (S \X {x}), S \cup {x})
  BY DEF IsOrder

\* ... a part, ...
LEMMA OrderRestricts ==
    ASSUME NEW R, NEW S, IsOrder(R, S), NEW T
    PROVE  IsOrder({p \in R : p[1] \notin T /\ p[2] \notin T}, S \ T)
  <1> DEFINE Q == {p \in R : p[1] \notin T /\ p[2] \notin T}
  <1>1. \A x, y : <<x, y>> \in Q <=> <<x, y>> \in R /\ x \notin T /\ y \notin T
    OBVIOUS
  <1>2. Q \subseteq (S \ T) \X (S \ T)
    BY DEF IsOrder
  <1> HIDE DEF Q
  <1>3. IsOrder(Q, S \ T)
    BY <1>1, <1>2 DEF IsOrder
  <1> QED
    BY <1>3 DEF Q

\* ... and an element under a new name.
LEMMA OrderRenames ==
    ASSUME NEW R, NEW S, IsOrder(R, S), NEW a \in S, NEW b, b \notin S,
           NEW Q, Q = {<<IF p[1] = a THEN b ELSE p[1],
                         IF p[2] = a THEN b ELSE p[2]>> : p \in R}
    PROVE  IsOrder(Q, (S \ {a}) \cup {b})
  <1> DEFINE D(x) == IF x = a THEN b ELSE x
             U(y) == IF y = b THEN a ELSE y
             T == (S \ {a}) \cup {b}
  <1>1. \A x \in S : D(x) \in T /\ U(D(x)) = x
    OBVIOUS
  <1>2. \A y \in T : U(y) \in S /\ D(U(y)) = y
    OBVIOUS
  <1>3. Q = {<<D(p[1]), D(p[2])>> : p \in R}
    OBVIOUS
  <1>4. \A p \in R : p[1] \in S /\ p[2] \in S /\ p = <<p[1], p[2]>>
    BY DEF IsOrder
  <1> HIDE DEF D, U, T
  <1>5. Q \subseteq T \X T
    BY <1>1, <1>3, <1>4
  <1>6. \A x, y \in T : <<x, y>> \in Q <=> <<U(x), U(y)>> \in R
    <2> SUFFICES ASSUME NEW x \in T, NEW y \in T
                 PROVE  <<x, y>> \in Q <=> <<U(x), U(y)>> \in R
      OBVIOUS
    <2>1. ASSUME <<x, y>> \in Q PROVE <<U(x), U(y)>> \in R
      <3>1. PICK p \in R : <<x, y>> = <<D(p[1]), D(p[2])>>
        BY <1>3, <2>1
      <3>2. U(x) = p[1] /\ U(y) = p[2]
        BY <3>1, <1>1, <1>4
      <3> QED
        BY <3>1, <3>2, <1>4
    <2>2. ASSUME <<U(x), U(y)>> \in R PROVE <<x, y>> \in Q
      <3> DEFINE p == <<U(x), U(y)>>
      <3>1. <<D(p[1]), D(p[2])>> = <<x, y>>
        BY <1>2
      <3> QED
        BY <3>1, <2>2, <1>3
    <2> QED
      BY <2>1, <2>2
  <1>7. \A x, y \in T : U(x) = U(y) => x = y
    BY <1>2
  <1>8. IsOrder(Q, T)
    BY <1>2, <1>5, <1>6, <1>7 DEF IsOrder
  <1> QED
    BY <1>8 DEF T

AgeInv ==
    /\ IsOrder(older, Stamped)
    /\ faults \in 0..MaxFaults

LEMMA InitAges == Init => AgeInv
  BY FaultsAssumption DEF Init, AgeInv, IsOrder, Stamped

\* A transaction that ends takes its stamp along.
LEMMA ForgetAges ==
    ASSUME IInv, AgeInv, NEW h \in Handlers, Goto(h, "idle"), Forgotten({h}),
           UNCHANGED records, faults' \in 0..MaxFaults
    PROVE  AgeInv'
  <1>1. Stamped' = Stamped \ {h}
    <2>1. \A g \in Handlers : pc'[g] = IF g = h THEN "idle" ELSE pc[g]
      BY DEF Goto, IInv, Types
    <2>2. h \notin records
      BY HandlersAreNoTasks DEF IInv, Types
    <2> QED
      BY <2>1, <2>2 DEF Stamped
  <1> QED
    BY <1>1, OrderRestricts DEF AgeInv, Forgotten

\* A transaction that begins is the newest.
LEMMA BeginAges ==
    ASSUME IInv, AgeInv, NEW h \in Handlers, NEW location \in Locations \ {"idle"},
           pc[h] = "idle", Goto(h, location), Begins(h),
           UNCHANGED <<records, faults>>
    PROVE  AgeInv'
  <1>1. h \notin Stamped
    BY HandlersAreNoTasks DEF Stamped, IInv, Types
  <1>2. Stamped' = Stamped \cup {h}
    <2>1. \A g \in Handlers : pc'[g] = IF g = h THEN location ELSE pc[g]
      BY DEF Goto, IInv, Types
    <2> QED
      BY <2>1 DEF Stamped
  <1> QED
    BY <1>1, <1>2, OrderExtends DEF AgeInv, Begins

LEMMA SameAges ==
    ASSUME AgeInv, UNCHANGED <<records, older, faults>>,
           \A h \in Handlers : pc'[h] = "idle" <=> pc[h] = "idle"
    PROVE  AgeInv'
  <1>1. Stamped' = Stamped
    BY DEF Stamped
  <1> QED
    BY <1>1 DEF AgeInv

\* A committed record has the stamp of its transaction.
LEMMA CommitAges ==
    ASSUME IInv, AgeInv, NEW h \in Handlers, Commit(h)
    PROVE  AgeInv'
  <1> DEFINE t == task[h]
  <1>1. /\ pc[h] = "commit" /\ records' = records \cup {t} /\ Goto(h, "idle")
        /\ older' = {<<IF p[1] = h THEN t ELSE p[1],
                       IF p[2] = h THEN t ELSE p[2]>> : p \in older}
        /\ faults' \in 0..MaxFaults
    BY FaultsAssumption DEF Commit, Answer, Reset, AgeInv
  <1>2. t \in Tasks /\ t \notin records
    BY <1>1 DEF IInv, TaskInv, IndexInv, Recording, Flushed
  <1>3. h \in Stamped /\ t \notin Stamped /\ h \notin records
    BY <1>1, <1>2, HandlersAreNoTasks DEF Stamped, IInv, Types
  <1>4. Stamped' = (Stamped \ {h}) \cup {t}
    <2>1. \A g \in Handlers : pc'[g] = IF g = h THEN "idle" ELSE pc[g]
      BY <1>1 DEF Goto, IInv, Types
    <2> QED
      BY <1>1, <1>2, <1>3, <2>1, HandlersAreNoTasks DEF Stamped
  <1> HIDE DEF t
  <1> QED
    BY <1>1, <1>3, <1>4, OrderRenames DEF AgeInv

LEMMA NextAges == IInv /\ AgeInv /\ [Next]_vars => AgeInv'
  <1> SUFFICES ASSUME IInv, AgeInv, [Next]_vars PROVE AgeInv'
    OBVIOUS
  <1>1. ASSUME NEW h \in Handlers, RolledBack(h), faults' \in 0..MaxFaults
        PROVE  AgeInv'
    BY <1>1, ForgetAges DEF RolledBack, Reset, dbVars
  <1>2. ASSUME NEW h \in Handlers, NEW location \in Locations \ {"idle"},
               pc[h] # "idle", Goto(h, location), UNCHANGED <<records, older, faults>>
        PROVE  AgeInv'
    <2>1. \A g \in Handlers : pc'[g] = IF g = h THEN location ELSE pc[g]
      BY <1>2 DEF Goto, IInv, Types
    <2> QED
      BY <1>2, <2>1, SameAges
  <1>3. \A t : FirstStep(t) \in Locations \ {"idle"}
    BY DEF FirstStep, Locations
  <1>4. ASSUME NEW h \in Hooks, NEW e \in Events, Deliver(h, e)
        PROVE  AgeInv'
    <2>1. CASE WebhookTask(e) \in records
      BY <1>4, <2>1, SameAges DEF Deliver, dbVars
    <2>2. CASE WebhookTask(e) \notin records
      BY <1>3, <1>4, <2>2, BeginAges DEF Deliver, dbVars, Handlers
    <2> QED
      BY <2>1, <2>2
  <1>5. ASSUME NEW h \in Restorers, NEW u \in Users, BeginRestore(h, u)
        PROVE  AgeInv'
    <2>1. "fetch" \in Locations \ {"idle"}
      BY DEF Locations
    <2> QED
      BY <1>5, <2>1, BeginAges DEF BeginRestore, dbVars, Handlers
  <1>6. ASSUME NEW h \in Handlers, Fetched(h)
        PROVE  AgeInv'
    <2>1. PICK t : IF t \in records
                   THEN Reset(h) /\ Forgotten({h})
                   ELSE Goto(h, FirstStep(t)) /\ UNCHANGED older
      BY <1>6 DEF Fetched
    <2>2. pc[h] = "fetch" /\ UNCHANGED <<records, faults>>
      BY <1>6 DEF Fetched, dbVars
    <2>3. CASE t \in records
      BY <2>1, <2>2, <2>3, ForgetAges DEF Reset, AgeInv
    <2>4. CASE t \notin records
      BY <2>1, <2>2, <2>4, <1>2, <1>3
    <2> QED
      BY <2>3, <2>4
  <1>7. ASSUME NEW h \in Handlers, LockStep(h) \/ Clear(h)
        PROVE  AgeInv'
    <2>1. pc[h] \in {"grant", "clear", "clearing", "insert", "reference"}
            /\ faults' = faults
      BY <1>7 DEF LockStep, Grant, Cleared, Insert, Reference, Clear
    <2>2. \/ RolledBack(h)
          \/ /\ UNCHANGED <<records, older>>
             /\ \E location \in Locations \ {"idle"} : Goto(h, location)
      BY <1>7
      DEF LockStep, Grant, Cleared, Insert, Reference, Clear, Locations, dbVars
    <2> QED
      BY <2>1, <2>2, <1>1, <1>2 DEF AgeInv
  <1>8. ASSUME NEW h \in Handlers, FetchedNothing(h) \/ DeadlockAborts(h)
        PROVE  AgeInv'
    BY <1>1, <1>8 DEF FetchedNothing, DeadlockAborts, AgeInv
  <1>9. ASSUME NEW h \in Handlers, Dies(h)
        PROVE  AgeInv'
    <2>1. faults' \in 0..MaxFaults
      BY <1>9, FaultsAssumption DEF Dies, AgeInv
    <2> QED
      BY <1>1, <1>9, <2>1 DEF Dies
  <1>10. ASSUME NEW u \in Users, DeleteUser(u)
         PROVE  AgeInv'
    <2> DEFINE S == {t \in records : t.user = u}
    <2>1. /\ records' = {t \in records : t.user # u}
          /\ Forgotten(S) /\ UNCHANGED <<pc, faults>>
      BY <1>10 DEF DeleteUser
    <2>2. Stamped' = Stamped \ S
      BY <2>1, HandlersAreNoTasks DEF Stamped, IInv, Types
    <2> HIDE DEF S
    <2> QED
      BY <2>1, <2>2, OrderRestricts DEF AgeInv, Forgotten
  <1>11. ASSUME NEW e \in Events, Happen(e) PROVE AgeInv'
    BY <1>11, SameAges DEF Happen, dbVars
  <1>12. CASE UNCHANGED vars
    BY <1>12, SameAges DEF vars
  <1> QED
    BY <1>4, <1>5, <1>6, <1>7, <1>8, <1>9, <1>10, <1>11, <1>12, CommitAges
    DEF Next, HandlerStep

LEMMA Ages == Spec => []AgeInv
  BY InitIInv, NextIInv, InitAges, NextAges, PTL DEF Spec

-----------------------------------------------------------------------------
(***************************************************************************)
(* What a transaction works on.                                            *)
(***************************************************************************)

\* It clears nothing but records of its user, and records only what happened.
WorkInv(h) ==
    /\ pc[h] \in {"idle", "fetch", "grant", "clear"} =>
          snap[h] = {} /\ cleared[h] = {}
    /\ \A t \in snap[h] \cup cleared[h] : t.user = task[h].user
    /\ \A e \in Events : task[h] = WebhookTask(e) => e \in happened

WorksInv == acked \subseteq happened /\ \A h \in Handlers : WorkInv(h)

LEMMA TasksDiffer ==
    /\ \A e, f \in Events : WebhookTask(e) = WebhookTask(f) => e = f
    /\ \A e \in Events : \A u, p : RestoreTask(u, p) # WebhookTask(e)
    /\ \A e \in Events : NoTask # WebhookTask(e)
  <1>1. \A e : WebhookTask(e).id = <<"rc", e>>
    BY DEF WebhookTask
  <1>2. \A u, p : RestoreTask(u, p).id[1] = "restore"
    BY DEF RestoreTask
  <1>3. \A e : WebhookTask(e).id[1] = "rc" /\ WebhookTask(e).id[2] = e
    BY <1>1
  <1>4. \A e \in Events : \A u, p : RestoreTask(u, p) # WebhookTask(e)
    BY <1>2, <1>3
  <1>5. \A e, f \in Events : WebhookTask(e) = WebhookTask(f) => e = f
    BY <1>3
  <1> QED
    BY <1>4, <1>5, NoTaskAssumption, WebhookTasks

LEMMA InitWorks == Init => WorksInv
  BY TasksDiffer DEF Init, WorksInv, WorkInv

\* Only the step of h touches what h works on.
LEMMA OtherWorks ==
    ASSUME WorksInv, NEW h \in Handlers,
           \A g \in Handlers \ {h} :
               /\ pc'[g] = pc[g] /\ task'[g] = task[g]
               /\ snap'[g] = snap[g] /\ cleared'[g] = cleared[g],
           UNCHANGED happened, acked' \subseteq happened, WorkInv(h)'
    PROVE  WorksInv'
  <1> SUFFICES ASSUME NEW g \in Handlers \ {h} PROVE WorkInv(g)'
    BY DEF WorksInv
  <1> QED
    BY DEF WorksInv, WorkInv

\* A transaction that is over works on nothing.
LEMMA ResetWorks ==
    ASSUME IInv, WorksInv, NEW h \in Handlers, Reset(h), UNCHANGED happened,
           acked' \subseteq happened
    PROVE  WorksInv'
  <1>1. /\ pc'[h] = "idle" /\ task'[h] = NoTask /\ snap'[h] = {}
        /\ cleared'[h] = {}
        /\ \A g \in Handlers \ {h} :
               /\ pc'[g] = pc[g] /\ task'[g] = task[g]
               /\ snap'[g] = snap[g] /\ cleared'[g] = cleared[g]
    BY DEF Reset, Goto, IInv, Types
  <1>2. WorkInv(h)'
    BY <1>1, TasksDiffer DEF WorkInv
  <1> QED
    BY <1>1, <1>2, OtherWorks

\* The task is set while nothing is seen or cleared yet.
LEMMA TaskWorks ==
    ASSUME IInv, WorksInv, NEW h \in Handlers, pc[h] \in {"idle", "fetch"},
           NEW t \in Tasks, task' = [task EXCEPT ![h] = t],
           Goto(h, FirstStep(t)), UNCHANGED <<snap, cleared, happened, acked>>,
           \A e \in Events : t = WebhookTask(e) => e \in happened
    PROVE  WorksInv'
  <1>1. /\ pc'[h] \in {"grant", "clear"} /\ task'[h] = t
        /\ \A g \in Handlers \ {h} : pc'[g] = pc[g] /\ task'[g] = task[g]
    BY DEF Goto, FirstStep, IInv, Types
  <1>2. WorkInv(h)'
    BY <1>1 DEF WorksInv, WorkInv
  <1> QED
    BY <1>1, <1>2, OtherWorks DEF WorksInv

\* A step that leaves task, snapshot and cleared records alone.
LEMMA GoWorks ==
    ASSUME IInv, WorksInv, NEW h \in Handlers, NEW location, Goto(h, location),
           UNCHANGED <<task, snap, cleared, happened, acked>>,
           location \in {"idle", "fetch", "grant", "clear"} =>
               pc[h] \in {"idle", "fetch", "grant", "clear"}
    PROVE  WorksInv'
  <1>1. /\ pc'[h] = location
        /\ \A g \in Handlers \ {h} : pc'[g] = pc[g]
    BY DEF Goto, IInv, Types
  <1>2. WorkInv(h)'
    BY <1>1 DEF WorksInv, WorkInv
  <1> QED
    BY <1>1, <1>2, OtherWorks DEF WorksInv

\* The clearing statement sees records of its user, and clears what it saw.
LEMMA ClearWorks ==
    ASSUME IInv, WorksInv, NEW h \in Handlers, Clear(h) \/ Cleared(h)
    PROVE  WorksInv'
  <1>1. /\ UNCHANGED <<task, happened, acked>>
        /\ pc'[h] \in {"clearing", "insert"}
        /\ \A t \in snap'[h] \cup cleared'[h] : t.user = task[h].user
        /\ \A g \in Handlers \ {h} :
               /\ pc'[g] = pc[g] /\ snap'[g] = snap[g] /\ cleared'[g] = cleared[g]
    <2>1. CASE Clear(h)
      BY <2>1 DEF Clear, Goto, storeVars, IInv, Types, WorksInv, WorkInv
    <2>2. CASE Cleared(h)
      BY <2>2 DEF Cleared, Goto, storeVars, IInv, Types, WorksInv, WorkInv
    <2> QED
      BY <2>1, <2>2
  <1>2. WorkInv(h)'
    BY <1>1 DEF WorksInv, WorkInv
  <1> QED
    BY <1>1, <1>2, OtherWorks DEF WorksInv

LEMMA NextWorks == IInv /\ WorksInv /\ [Next]_vars => WorksInv'
  <1> SUFFICES ASSUME IInv, WorksInv, [Next]_vars PROVE WorksInv'
    OBVIOUS
  <1>1. ASSUME NEW h \in Handlers, RolledBack(h) PROVE WorksInv'
    BY <1>1, ResetWorks DEF RolledBack, storeVars, WorksInv
  <1>2. ASSUME NEW h \in Hooks, NEW e \in Events, Deliver(h, e)
        PROVE  WorksInv'
    <2>1. CASE WebhookTask(e) \in records
      BY <1>2, <2>1 DEF Deliver, WorksInv, WorkInv
    <2>2. CASE WebhookTask(e) \notin records
      <3>1. e \in happened /\ WebhookTask(e) \in Tasks
        BY <1>2, WebhookTasks DEF Deliver
      <3> QED
        BY <1>2, <2>2, <3>1, TaskWorks, TasksDiffer DEF Deliver, Handlers
    <2> QED
      BY <2>1, <2>2
  <1>3. ASSUME NEW h \in Restorers, NEW u \in Users, BeginRestore(h, u)
        PROVE  WorksInv'
    BY <1>3, GoWorks DEF BeginRestore, storeVars, Handlers
  <1>4. ASSUME NEW h \in Handlers, Fetched(h)
        PROVE  WorksInv'
    <2>1. PICK e \in happened :
              LET t == RestoreTask(who[h], Product[e]) IN
              IF t \in records
              THEN Reset(h)
              ELSE /\ task' = [task EXCEPT ![h] = t]
                   /\ Goto(h, FirstStep(t))
                   /\ UNCHANGED <<snap, cleared>>
      BY <1>4 DEF Fetched
    <2>2. pc[h] = "fetch" /\ UNCHANGED <<happened, acked>>
      BY <1>4 DEF Fetched, storeVars
    <2>3. RestoreTask(who[h], Product[e]) \in Tasks
      <3>1. e \in Events /\ who[h] \in Users
        BY <2>2 DEF IInv, Types, TaskInv
      <3> QED
        BY <3>1, RestoreTasks, EventsAssumption
    <2> QED
      BY <2>1, <2>2, <2>3, ResetWorks, TaskWorks, TasksDiffer DEF WorksInv
  <1>5. ASSUME NEW h \in Handlers, Grant(h) \/ Insert(h) \/ Reference(h)
        PROVE  WorksInv'
    <2>1. pc[h] \in {"grant", "insert", "reference"}
      BY <1>5 DEF Grant, Insert, Reference
    <2>2. \/ RolledBack(h)
          \/ /\ UNCHANGED <<task, snap, cleared, happened, acked>>
             /\ \/ pc[h] = "grant" /\ Goto(h, "clear")
                \/ Goto(h, "reference") \/ Goto(h, "commit")
      BY <1>5 DEF Grant, Insert, Reference, storeVars
    <2> QED
      BY <2>1, <2>2, <1>1, GoWorks
  <1>6. ASSUME NEW h \in Handlers, Commit(h)
        PROVE  WorksInv'
    <2>1. task[h] \in Tasks
      BY <1>6 DEF Commit, IInv, TaskInv, Recording
    <2>2. acked' \subseteq happened
      BY <1>6 DEF Commit, Answer, Acknowledges, WorksInv, WorkInv
    <2> QED
      BY <1>6, <2>2, ResetWorks DEF Commit
  <1>7. ASSUME NEW h \in Handlers,
               FetchedNothing(h) \/ DeadlockAborts(h) \/ Dies(h)
        PROVE  WorksInv'
    BY <1>1, <1>7 DEF FetchedNothing, DeadlockAborts, Dies
  <1>8. ASSUME NEW u \in Users, DeleteUser(u) PROVE WorksInv'
    BY <1>8 DEF DeleteUser, storeVars, WorksInv, WorkInv
  <1>9. ASSUME NEW e \in Events, Happen(e) PROVE WorksInv'
    BY <1>9 DEF Happen, WorksInv, WorkInv
  <1>10. CASE UNCHANGED vars
    BY <1>10 DEF vars, WorksInv, WorkInv
  <1> QED
    BY <1>2, <1>3, <1>4, <1>5, <1>6, <1>7, <1>8, <1>9, <1>10, ClearWorks
    DEF Next, HandlerStep, LockStep

LEMMA Works == Spec => []WorksInv
  BY InitIInv, NextIInv, InitWorks, NextWorks, PTL DEF Spec

-----------------------------------------------------------------------------
(***************************************************************************)
(* Every step is a step of PurchaseBook, or none.                          *)
(***************************************************************************)

Acked == {WebhookTask(e) : e \in acked}

LEMMA CommitRecords ==
    ASSUME IInv, WorksInv, NEW h \in Handlers, Commit(h)
    PROVE  Book!Record(task[h])
  <1> DEFINE t == task[h]
             Buyer == [s \in Tasks |-> s.user]
             before == {s \in active : Buyer[s] = Buyer[t]}
             missed == before \ cleared[h]
             begun == {t} \cap {s \in Tasks : s.activates}
  <1>1. /\ pc[h] = "commit"
        /\ records' = records \cup {t}
        /\ active' = (active \ cleared[h]) \cup (IF t.activates THEN {t} ELSE {})
        /\ granted' = IF posted[h] THEN granted \cup {t} ELSE granted
        /\ acked' \in {acked, acked \cup Acknowledges(t)}
        /\ live' = live
    BY DEF Commit, Answer
  <1>2. t \in Tasks /\ t.user \in live /\ t \notin records
    BY <1>1 DEF IInv, TaskInv, IndexInv, Recording, Flushed
  <1>3. posted[h] <=> Priced(t)
    <2>1. posted[h] => Priced(t)
      BY DEF IInv, TaskInv
    <2> QED
      BY <1>1, <1>2, <2>1 DEF IInv, PostInv, Posting, Types
  <1>4. granted' = granted \cup ({t} \cap {s \in Tasks : Priced(s)})
    BY <1>1, <1>2, <1>3
  <1>5. Acked' \in {Acked, Acked \cup ({t} \cap {WebhookTask(e) : e \in Events})}
    <2>1. acked' \in {acked, acked \cup {e \in Events : WebhookTask(e) = t}}
      BY <1>1 DEF Acknowledges
    <2>2. acked \subseteq Events
      BY DEF IInv, Types
    <2> QED
      BY <2>1, <2>2 DEF Acked
  <1>6. before = {s \in active : s.user = t.user}
    BY <1>2 DEF IInv, Types
  <1>7. missed \in SUBSET before
    OBVIOUS
  <1>8. (\A p \in Products : Price[p] > 0) /\ t \in {s \in Tasks : Priced(s)}
            => missed = {}
    BY <1>1, <1>6 DEF IInv, ClearInv, Posting
  <1>9. active' = (active \ before) \cup missed \cup begun
    <2>1. active \cap cleared[h] \subseteq before /\ before \subseteq active
      BY <1>6 DEF WorksInv, WorkInv
    <2>2. begun = IF t.activates THEN {t} ELSE {}
      BY <1>2
    <2> HIDE DEF before, begun
    <2> QED
      BY <1>1, <2>1, <2>2
  <1>10. Buyer[t] \in live
    BY <1>2
  <1> QED
    BY <1>1, <1>2, <1>4, <1>5, <1>7, <1>8, <1>9, <1>10
    DEF Book!Record, Acked

LEMMA DeliverAcknowledges ==
    ASSUME IInv, NEW h \in Hooks, NEW e \in Events, Deliver(h, e),
           acked' # acked
    PROVE  Book!Acknowledge(WebhookTask(e))
  <1>1. WebhookTask(e) \in records /\ acked' = acked \cup {e}
        /\ UNCHANGED dbVars
    BY DEF Deliver
  <1>2. Acked' = Acked \cup {WebhookTask(e)}
    BY <1>1 DEF Acked
  <1> QED
    BY <1>1, <1>2 DEF Book!Acknowledge, Acked, dbVars

LEMMA DeleteCloses ==
    ASSUME IInv, NEW u \in Users, DeleteUser(u)
    PROVE  Book!Close(u)
  <1>1. /\ u \in live
        /\ live' = live \ {u}
        /\ records' = {t \in records : t.user # u}
        /\ active' = {t \in active : t.user # u}
        /\ granted' = {t \in granted : t.user # u}
        /\ UNCHANGED acked
    BY DEF DeleteUser, storeVars
  <1>2. \A t \in records \cup active \cup granted :
            [s \in Tasks |-> s.user][t] = t.user
    BY DEF IInv, Types
  <1>3. Acked' = Acked
    BY <1>1 DEF Acked
  <1> QED
    BY <1>1, <1>2, <1>3 DEF Book!Close, Acked

LEMMA InitBook == Init => Book!Init
  BY DEF Init, Book!Init

LEMMA NextBook ==
    IInv /\ WorksInv /\ [Next]_vars => [Book!Next]_(Book!bookVars)
  <1> SUFFICES ASSUME IInv, WorksInv, [Next]_vars
               PROVE  \/ Book!Next
                      \/ UNCHANGED <<live, records, active, granted, Acked>>
    BY DEF Book!bookVars, Acked
  <1>1. ASSUME NEW h \in Handlers, Commit(h) PROVE Book!Next
    <2>1. task[h] \in Tasks
      BY <1>1 DEF Commit, IInv, TaskInv, Recording
    <2> QED
      BY <1>1, <2>1, CommitRecords DEF Book!Next
  <1>2. ASSUME NEW h \in Hooks, NEW e \in Events, Deliver(h, e), acked' # acked
        PROVE  Book!Next
    BY <1>2, DeliverAcknowledges, WebhookTasks DEF Book!Next
  <1>3. ASSUME NEW u \in Users, DeleteUser(u) PROVE Book!Next
    BY <1>3, DeleteCloses DEF Book!Next
  <1>4. CASE UNCHANGED <<live, records, active, granted, acked>>
    BY <1>4 DEF Acked
  <1>5. \/ \E h \in Handlers : Commit(h)
        \/ \E h \in Hooks, e \in Events : Deliver(h, e) /\ acked' # acked
        \/ \E u \in Users : DeleteUser(u)
        \/ UNCHANGED <<live, records, active, granted, acked>>
    BY DEF Next, vars, dbVars, storeVars, Happen, Deliver, BeginRestore,
           HandlerStep, LockStep, Fetched, FetchedNothing, Grant, Clear,
           Cleared, Insert, Reference, DeadlockAborts, Dies, RolledBack
  <1> QED
    BY <1>1, <1>2, <1>3, <1>4, <1>5

-----------------------------------------------------------------------------
(***************************************************************************)
(* The results.                                                            *)
(***************************************************************************)

\* However deliveries, restores, deaths and deletions interleave, credits were
\* posted exactly for the purchases of configured products that are on record.
THEOREM GrantsWithRecords == Spec => []GrantsMatchRecords
  BY Invariance, PTL DEF IInv

\* RevenueCat is never told 200 for an event that is lost.
THEOREM AcknowledgedRecorded == Spec => []AcknowledgedIsRecorded
  BY Invariance, PTL DEF IInv

\* If every product is configured, no two records of a user are active: the
\* lock of the posting orders the purchases, each of which clears the others.
THEOREM OneActive == Spec => []AtMostOneActive
  BY Invariance, PTL DEF IInv

\* Transactions lock each other out only if one of them posts no credits and
\* therefore asks for records and user in the opposite order: those that post
\* take the user's row first, and queue there.
DeadlocksNeedUnpriced ==
    \A S \in SUBSET Handlers :
        S # {} /\ (\A g \in S : Blockers(g) \cap S # {})
            => \E g \in S : ~Priced(task[g])

THEOREM PostingNeverDeadlocks == Spec => []DeadlocksNeedUnpriced
  <1>1. ASSUME IInv, WorksInv PROVE DeadlocksNeedUnpriced
    <2> SUFFICES ASSUME NEW S \in SUBSET Handlers,
                        \A g \in S : Blockers(g) \cap S # {},
                        \A g \in S : Priced(task[g]),
                        NEW h \in S
                 PROVE  FALSE
      BY DEF DeadlocksNeedUnpriced
    <2>1. ASSUME NEW g \in S
          PROVE  pc[g] \in {"grant", "clearing", "insert", "reference"}
      BY <2>1 DEF Blockers
    <2>2. ASSUME NEW g \in S PROVE task[g] \in Tasks /\ task[g].user \in Users
      BY <1>1, <2>1, <2>2, TaskFields DEF IInv, TaskInv, Recording
    \* Behind its posting a transaction is alone with its user's row ...
    <2>3. ASSUME NEW g \in S, NEW f \in S, pc[g] # "grant", pc[f] # "grant",
                 task[f].user = task[g].user
          PROVE  f = g
      <3>1. {f, g} \subseteq Updating(task[g].user)
        BY <2>1, <2>3 DEF Updating
      <3> QED
        BY <1>1, <2>2, <3>1 DEF IInv, LockInv
    \* ... so it waits for none of the others.
    <2>4. ASSUME NEW g \in S, pc[g] # "grant" PROVE FALSE
      <3>1. PICK f \in S : f \in Blockers(g)
        BY <2>4
      <3>2. f # g /\ pc[g] \in {"clearing", "insert", "reference"}
        BY <2>1, <2>4, <3>1 DEF Blockers
      <3>3. CASE pc[g] = "clearing"
        <4>1. PICK t \in cleared[f] : t \in snap[g]
          BY <3>1, <3>3 DEF Blockers
        <4>2. task[f].user = task[g].user
          BY <1>1, <4>1 DEF WorksInv, WorkInv
        <4>3. pc[f] # "grant"
          BY <1>1, <4>1 DEF WorksInv, WorkInv
        <4> QED
          BY <2>3, <2>4, <3>2, <4>2, <4>3
      <3>4. CASE pc[g] = "insert"
        <4>1. task[f] = task[g] /\ pc[f] # "grant"
          BY <3>1, <3>4 DEF Blockers, Inserting
        <4> QED
          BY <2>3, <2>4, <3>2, <4>1
      <3>5. CASE pc[g] = "reference"
        <4>1. task[f].user = task[g].user /\ pc[f] # "grant"
          BY <3>1, <3>5 DEF Blockers, Updating
        <4> QED
          BY <2>3, <2>4, <3>2, <4>1
      <3> QED
        BY <3>2, <3>3, <3>4, <3>5
    \* Before it, it waits for one that is behind it.
    <2>5. pc[h] = "grant"
      BY <2>4
    <2>6. PICK f \in S : f \in Blockers(h)
      OBVIOUS
    <2>7. pc[f] # "grant"
      BY <2>5, <2>6 DEF Blockers, Updating, Sharing
    <2> QED
      BY <2>4, <2>7
  <1> QED
    BY <1>1, Invariance, Works, PTL

\* Every variable keeps its type: no record is active that does not exist, and
\* nothing is acknowledged that did not happen.
THEOREM TypeCorrect == Spec => []TypeOK
  <1>1. IInv /\ AgeInv /\ WorksInv => TypeOK
    BY DEF IInv, Types, AgeInv, IsOrder, WorksInv, TypeOK
  <1> QED
    BY <1>1, Invariance, Ages, Works, PTL

\* Records are told apart by age: of two records one is the older, so that a
\* user never has two newest ones.
THEOREM RecordsOrdered == Spec => []IsOrder(older, Stamped)
  BY Ages, PTL DEF AgeInv

\* However the statements of webhooks and restores interleave, lock each other
\* out, die or are delivered again, each purchase takes effect in one step.
THEOREM Implements == Spec => PurchaseSpec
  BY InitBook, NextBook, Invariance, Works, PTL DEF Spec, PurchaseSpec, Book!Spec
=============================================================================
