---------------------------- MODULE DesignRequests ----------------------------
(***************************************************************************)
(* Paid image jobs: the endpoints that submit them, the ARQ queue and the  *)
(* worker that runs them.                                                  *)
(*                                                                         *)
(* Two endpoints submit, POST /design/requests (a design) and POST         *)
(* /object-replace/from-upload (a replacement).  Both insert the row,      *)
(* charge 25 credits, enqueue the job and only then commit, so the job is  *)
(* in Redis before its row is in PostgreSQL.  The worker marks the row     *)
(* processing, calls the provider, and in a second transaction completes   *)
(* the row, charging what a dearer fallback model costs on top.  A failed  *)
(* design is refunded, a failed replacement is not.                        *)
(*                                                                         *)
(* A transaction of the worker is one step: what it does to the balance is *)
(* a posting of CreditAccount, which CreditLedger shows the locking code   *)
(* implements.  A submission is several steps, because the foreign key of  *)
(* the inserted row already holds a lock on the user (FOR KEY SHARE) while *)
(* the charge asks for a stronger one (FOR UPDATE).                        *)
(***************************************************************************)
EXTENDS Integers, FiniteSets, Functions

CONSTANTS
    Users,
    Designs,      \* ids of design requests to be submitted
    Replacements, \* ids of object replacements to be submitted
    Owner,        \* [Requests -> Users], who submits which
    Faults,       \* subset of {"crash", "timeout", "database"}
    FirstGrant,   \* credits each account starts from
    TopUpCredits, \* credits of one purchase or top-up
    MaxGranted,   \* bound: credits granted to an account in all
    MaxTries      \* arq's max_tries: runs of one job

Requests == Designs \cup Replacements

\* consume_credit's default, and OBJECT_REPLACE_CREDIT_COST.
BaseCost == 25
\* MODEL_CREDIT_COST: the ordinary models, and the fallback model.
ModelCosts == {25, 75}

ASSUME IdsAssumption == Designs \cap Replacements = {} /\ IsFiniteSet(Requests)
ASSUME OwnerAssumption == Owner \in [Requests -> Users]
ASSUME FaultsAssumption == Faults \subseteq {"crash", "timeout", "database"}
ASSUME CreditsAssumption ==
    /\ FirstGrant \in Nat
    /\ TopUpCredits \in Nat \ {0}
    /\ MaxGranted \in Nat
ASSUME MaxTriesAssumption == MaxTries \in Nat \ {0}

VARIABLES
    \* committed rows
    live,    \* users whose row exists
    balance, \* credit_balance of each user
    granted, \* credits from signup, purchases and top-ups, less those spent on
             \* synchronous replacements, which leave no request behind
    row,     \* status of the request's row, "none" before it, "gone" after it
    hidden,  \* requests with deleted_at set
    paid,    \* ledger events that refer to the request, summed by source
    image,   \* credits the delivered image costs, 0 if none was delivered
    \* the submitting handler
    sub,     \* where the handler of each request stands
    \* the queue and the worker
    job,     \* the ARQ job of each request
    tries,   \* times the job was started
    wpc,     \* where the run of the job stands
    made     \* credit cost of the model that produced the image of this run

userVars == <<live, balance, granted>>
rowVars == <<row, hidden, paid, image>>
workerVars == <<job, tries, wpc, made>>
vars == <<live, balance, granted, row, hidden, paid, image, sub,
          job, tries, wpc, made>>

SubStates == {"new", "inserted", "charged", "enqueued", "done"}
RowStates == {"none", "queued", "processing", "completed", "failed", "gone"}
JobStates == {"none", "queued", "running",
              "missing",   \* the task found no row and returned
              "finished",  \* the task returned, or raised after its handler
              "broken",    \* an error escaped outside the try or from a handler
              "timedout",  \* job_timeout cancelled the task
              "exhausted"} \* started MaxTries times, arq gives up
Over == {"missing", "finished", "broken", "timedout", "exhausted"}
Stored == {"queued", "processing", "completed", "failed"}

\* Credits the user has paid for a request, refunds deducted.
Net(r) == paid[r].base + paid[r].extra - paid[r].refund
Cost == [r \in Requests |-> Net(r)]

Of(u) == {r \in Requests : Owner[r] = u}

\* Submissions whose open transaction has a lock on the row of u: the insert
\* locked it FOR KEY SHARE, and past the charge it is locked FOR UPDATE.
Sharing(u) == {r \in Of(u) : sub[r] = "inserted"}
Holding(u) == {r \in Of(u) : sub[r] \in {"charged", "enqueued"}}

\* SELECT ... FOR UPDATE (or DELETE) of u's row gets through.
CanUpdate(u) == Sharing(u) \cup Holding(u) = {}

\* apply_credit_delta's guard: the balance pays for this.
Affords_Unchecked(u, credits) == TRUE
Affords(u, credits) == balance[u] >= credits

\* What the model that made the image costs beyond the charge at submission.
Extra_Free(r) == 0
Extra(r) == made[r] - BaseCost

\* What the failure handler restores: the original charge of a design, unless
\* the refund's idempotency key is on the ledger.  No replacement is refunded.
Refund_NoKey(r) == IF r \in Designs THEN paid[r].base ELSE 0
Refund(r) == IF r \in Designs /\ paid[r].refund = 0 THEN paid[r].base ELSE 0

-----------------------------------------------------------------------------

Init ==
    /\ live = Users
    /\ balance = [u \in Users |-> FirstGrant]
    /\ granted = [u \in Users |-> FirstGrant]
    /\ row = [r \in Requests |-> "none"]
    /\ hidden = {}
    /\ paid = [r \in Requests |-> [base |-> 0, extra |-> 0, refund |-> 0]]
    /\ image = [r \in Requests |-> 0]
    /\ sub = [r \in Requests |-> "new"]
    /\ job = [r \in Requests |-> "none"]
    /\ tries = [r \in Requests |-> 0]
    /\ wpc = [r \in Requests |-> "idle"]
    /\ made = [r \in Requests |-> 0]

-----------------------------------------------------------------------------
(***************************************************************************)
(* Submission.                                                             *)
(***************************************************************************)

SubTo(r, state) == sub' = [sub EXCEPT ![r] = state]

\* db.flush() of the new row.  Its foreign key locks the user's row FOR KEY
\* SHARE, which waits for a FOR UPDATE; for a deleted user it is an error.
SubmitInsert(r) ==
    /\ sub[r] = "new"
    /\ Holding(Owner[r]) = {}
    /\ SubTo(r, IF Owner[r] \in live THEN "inserted" ELSE "done")
    /\ UNCHANGED <<userVars, rowVars, workerVars>>

\* consume_credit: the FOR UPDATE waits for every other lock on the user's
\* row.  Too few credits roll back (402); otherwise the charge is flushed.
SubmitCharge(r) ==
    /\ sub[r] = "inserted"
    /\ Sharing(Owner[r]) = {r}
    /\ SubTo(r, IF Affords(Owner[r], BaseCost) THEN "charged" ELSE "done")
    /\ UNCHANGED <<userVars, rowVars, workerVars>>

\* Two submissions of one user both hold FOR KEY SHARE and wait for FOR
\* UPDATE: PostgreSQL's deadlock detector aborts one (500), which rolls back.
SubmitDeadlocked_RetriesInPlace(r) ==
    /\ sub[r] = "inserted"
    /\ Sharing(Owner[r]) # {r}
    /\ SubTo(r, "inserted")
    /\ UNCHANGED <<userVars, rowVars, workerVars>>

SubmitDeadlocked(r) ==
    /\ sub[r] = "inserted"
    /\ Sharing(Owner[r]) # {r}
    /\ SubTo(r, "done")
    /\ UNCHANGED <<userVars, rowVars, workerVars>>

\* enqueue_job: workers see the job at once.
SubmitEnqueue(r) ==
    /\ sub[r] = "charged"
    /\ SubTo(r, "enqueued")
    /\ job' = [job EXCEPT ![r] = "queued"]
    /\ UNCHANGED <<userVars, rowVars, tries, wpc, made>>

\* enqueue_job raises: rolled back, 503.
EnqueueFails_CommitsRow(r) ==
    /\ sub[r] = "charged"
    /\ SubTo(r, "done")
    /\ row' = [row EXCEPT ![r] = "queued"]
    /\ UNCHANGED <<userVars, hidden, paid, image, workerVars>>

EnqueueFails_KeepsDebit(r) ==
    /\ sub[r] = "charged"
    /\ SubTo(r, "done")
    /\ balance' = [balance EXCEPT ![Owner[r]] = @ - BaseCost]
    /\ UNCHANGED <<live, granted, rowVars, workerVars>>

EnqueueFails(r) ==
    /\ sub[r] = "charged"
    /\ SubTo(r, "done")
    /\ UNCHANGED <<userVars, rowVars, workerVars>>

\* The commit publishes row, balance and ledger event together.
SubmitCommit(r) ==
    /\ sub[r] = "enqueued"
    /\ SubTo(r, "done")
    /\ row' = [row EXCEPT ![r] = "queued"]
    /\ balance' = [balance EXCEPT ![Owner[r]] = @ - BaseCost]
    /\ paid' = [paid EXCEPT ![r].base = BaseCost]
    /\ UNCHANGED <<live, granted, hidden, image, workerVars>>

\* The server process dies or loses the database: the transaction rolls back,
\* a job that is already in the queue stays there.
SubmitDies(r) ==
    /\ sub[r] \in {"inserted", "charged", "enqueued"}
    /\ SubTo(r, "done")
    /\ UNCHANGED <<userVars, rowVars, workerVars>>

\* DELETE /design/requests/{id} hides the row and touches nothing else: the
\* job is not cancelled and nothing is refunded.
SoftDelete(r) ==
    /\ row[r] \in Stored
    /\ r \notin hidden
    /\ hidden' = hidden \cup {r}
    /\ UNCHANGED <<userVars, row, paid, image, sub, workerVars>>

-----------------------------------------------------------------------------
(***************************************************************************)
(* Worker.                                                                 *)
(***************************************************************************)

\* The job of r stops in the given state.
EndJob(r, state) ==
    /\ job' = [job EXCEPT ![r] = state]
    /\ wpc' = [wpc EXCEPT ![r] = "idle"]

\* arq takes the job from the queue, counts the try and calls the task.
PickJob_NotCounted(r) ==
    /\ job[r] = "queued"
    /\ job' = [job EXCEPT ![r] = "running"]
    /\ wpc' = [wpc EXCEPT ![r] = "starting"]
    /\ UNCHANGED <<userVars, rowVars, sub, tries, made>>

PickJob(r) ==
    /\ job[r] = "queued"
    /\ tries' = [tries EXCEPT ![r] = @ + 1]
    /\ job' = [job EXCEPT ![r] = "running"]
    /\ wpc' = [wpc EXCEPT ![r] = "starting"]
    /\ UNCHANGED <<userVars, rowVars, sub, made>>

\* First transaction of the task: the row is marked processing whatever its
\* status was; a row that is not committed (yet) ends the job.
WorkerStart(r) ==
    /\ wpc[r] = "starting"
    /\ \/ /\ row[r] \in Stored
          /\ row' = [row EXCEPT ![r] = "processing"]
          /\ wpc' = [wpc EXCEPT ![r] = "generating"]
          /\ UNCHANGED job
       \/ /\ row[r] \notin Stored
          /\ EndJob(r, "missing")
          /\ UNCHANGED row
    /\ UNCHANGED <<userVars, hidden, paid, image, sub, tries, made>>

\* The provider answers with an image.  Only designs know dearer models.
GenerateOk(r) ==
    /\ wpc[r] = "generating"
    /\ wpc' = [wpc EXCEPT ![r] = "generated"]
    /\ \E cost \in (IF r \in Designs THEN ModelCosts ELSE {BaseCost}) :
          made' = [made EXCEPT ![r] = cost]
    /\ UNCHANGED <<userVars, rowVars, sub, job, tries>>

\* The input cannot be read, or every provider fails.
GenerateFails_Returns(r) ==
    /\ wpc[r] = "generating"
    /\ EndJob(r, "finished")
    /\ UNCHANGED <<userVars, rowVars, sub, tries, made>>

GenerateFails(r) ==
    /\ wpc[r] = "generating"
    /\ wpc' = [wpc EXCEPT ![r] = "failing"]
    /\ UNCHANGED <<userVars, rowVars, sub, job, tries, made>>

\* Second transaction: charge the difference to the model used, deliver.
\* Too few credits roll the transaction back into the failure handler.
Complete(r) ==
    LET u == Owner[r] IN
    /\ wpc[r] = "generated"
    /\ UNCHANGED <<live, granted, hidden, sub, tries, made>>
    /\ \/ /\ row[r] \notin Stored
          /\ EndJob(r, "missing")
          /\ UNCHANGED <<balance, row, paid, image>>
       \/ /\ row[r] \in Stored
          /\ Extra(r) > 0 => CanUpdate(u)
          /\ Affords(u, Extra(r))
          /\ balance' = [balance EXCEPT ![u] = @ - Extra(r)]
          /\ paid' = [paid EXCEPT ![r].extra = @ + Extra(r)]
          /\ row' = [row EXCEPT ![r] = "completed"]
          /\ image' = [image EXCEPT ![r] = made[r]]
          /\ wpc' = [wpc EXCEPT ![r] = "returning"]
          /\ UNCHANGED job
       \/ /\ row[r] \in Stored
          /\ CanUpdate(u)
          /\ ~Affords(u, Extra(r))
          /\ wpc' = [wpc EXCEPT ![r] = "failing"]
          /\ UNCHANGED <<balance, row, paid, image, job>>

\* The failure handlers: refund a design once, under its idempotency key, and
\* mark the row failed, in one transaction.  A replacement is not refunded.
RecordFailure(r) ==
    LET u == Owner[r] IN
    /\ wpc[r] = "failing"
    /\ UNCHANGED <<live, granted, hidden, image, sub, tries, made>>
    /\ IF row[r] \in Stored
       THEN /\ r \in Designs => CanUpdate(u)
            /\ balance' = [balance EXCEPT ![u] = @ + Refund(r)]
            /\ paid' = [paid EXCEPT ![r].refund = @ + Refund(r)]
            /\ row' = [row EXCEPT ![r] = "failed"]
            /\ wpc' = [wpc EXCEPT ![r] = "returning"]
            /\ UNCHANGED job
       ELSE /\ EndJob(r, "finished")
            /\ UNCHANGED <<balance, paid, row>>

\* The task is back in arq, which records the job as done.
Finish(r) ==
    /\ wpc[r] = "returning"
    /\ EndJob(r, "finished")
    /\ UNCHANGED <<userVars, rowVars, sub, tries, made>>

\* A database error in the second transaction lands in the failure handler.
\* One in the first transaction, which is outside the try, or in the failure
\* handler itself escapes from the task, and arq does not run the job again.
DatabaseFails_AfterCommit(r) ==
    /\ "database" \in Faults
    /\ wpc[r] \in {"generated", "returning"}
    /\ wpc' = [wpc EXCEPT ![r] = "failing"]
    /\ UNCHANGED <<userVars, rowVars, sub, job, tries, made>>

DatabaseFails(r) ==
    /\ "database" \in Faults
    /\ \/ /\ wpc[r] = "generated"
          /\ wpc' = [wpc EXCEPT ![r] = "failing"]
          /\ UNCHANGED job
       \/ /\ wpc[r] \in {"starting", "failing"}
          /\ EndJob(r, "broken")
    /\ UNCHANGED <<userVars, rowVars, sub, tries, made>>

\* job_timeout cancels the task wherever it stands.  CancelledError is not an
\* Exception: neither handler runs, and arq does not start the job again.
JobTimeout(r) ==
    /\ "timeout" \in Faults
    /\ job[r] = "running"
    /\ EndJob(r, "timedout")
    /\ UNCHANGED <<userVars, rowVars, sub, tries, made>>

\* The worker process dies or is shut down before arq records the job: the
\* job is delivered again, until arq gives up on it.
WorkerCrash(r) ==
    /\ "crash" \in Faults
    /\ job[r] = "running"
    /\ EndJob(r, IF tries[r] < MaxTries THEN "queued" ELSE "exhausted")
    /\ UNCHANGED <<userVars, rowVars, sub, tries, made>>

-----------------------------------------------------------------------------
(***************************************************************************)
(* The rest of the backend, as far as it meets these rows.                 *)
(***************************************************************************)

\* A purchase or top-up posts credits.
TopUp(u) ==
    /\ u \in live
    /\ CanUpdate(u)
    /\ granted[u] + TopUpCredits <= MaxGranted
    /\ granted' = [granted EXCEPT ![u] = @ + TopUpCredits]
    /\ balance' = [balance EXCEPT ![u] = @ + TopUpCredits]
    /\ UNCHANGED <<live, rowVars, sub, workerVars>>

\* POST /object-replace: the charge is committed before fal is called, under an
\* id of its own, and stays whatever fal answers.
DirectReplace(u) ==
    /\ u \in live
    /\ CanUpdate(u)
    /\ Affords(u, BaseCost)
    /\ granted' = [granted EXCEPT ![u] = @ - BaseCost]
    /\ balance' = [balance EXCEPT ![u] = @ - BaseCost]
    /\ UNCHANGED <<live, rowVars, sub, workerVars>>

\* DELETE /auth/me: the user's row goes, and requests and ledger with it.
DeleteUser(u) ==
    /\ u \in live
    /\ CanUpdate(u)
    /\ live' = live \ {u}
    /\ balance' = [balance EXCEPT ![u] = 0]
    /\ row' = [r \in Requests |->
                 IF Owner[r] = u /\ row[r] \in Stored THEN "gone" ELSE row[r]]
    /\ UNCHANGED <<granted, hidden, paid, image, sub, workerVars>>

-----------------------------------------------------------------------------

SubmitStep(r) ==
    \/ SubmitCharge(r) \/ SubmitDeadlocked(r)
    \/ SubmitEnqueue(r) \/ EnqueueFails(r)
    \/ SubmitCommit(r)

WorkerStep(r) ==
    \/ PickJob(r) \/ WorkerStart(r)
    \/ GenerateOk(r) \/ GenerateFails(r)
    \/ Complete(r) \/ RecordFailure(r)
    \/ Finish(r)

Fault(r) == SubmitDies(r) \/ DatabaseFails(r) \/ JobTimeout(r) \/ WorkerCrash(r)

Next ==
    \/ \E r \in Requests :
          SubmitInsert(r) \/ SubmitStep(r) \/ SoftDelete(r)
    \/ \E r \in Requests : WorkerStep(r) \/ Fault(r)
    \/ \E u \in Users : TopUp(u) \/ DirectReplace(u) \/ DeleteUser(u)

\* A handler that was entered runs on; workers poll the queue, and the
\* provider clients have time limits of their own.
Fairness ==
    \A r \in Requests : WF_vars(SubmitStep(r)) /\ WF_vars(WorkerStep(r))

Spec == Init /\ [][Next]_vars
FairSpec == Spec /\ Fairness

-----------------------------------------------------------------------------
(***************************************************************************)
(* Properties that hold with every fault.                                  *)
(***************************************************************************)

TypeOK ==
    /\ live \subseteq Users
    /\ balance \in [Users -> Nat]
    /\ granted \in [Users -> Int]
    /\ row \in [Requests -> RowStates]
    /\ hidden \subseteq Requests
    /\ paid \in [Requests -> [base : Nat, extra : Nat, refund : Nat]]
    /\ image \in [Requests -> ModelCosts \cup {0}]
    /\ sub \in [Requests -> SubStates]
    /\ job \in [Requests -> JobStates]
    /\ tries \in [Requests -> 0..MaxTries]
    /\ wpc \in [Requests -> {"idle", "starting", "generating", "generated",
                             "failing", "returning"}]
    /\ made \in [Requests -> ModelCosts \cup {0}]

\* No credit appears or vanishes: whatever interleaves, dies or is delivered
\* twice, a user's balance is what was granted less what the stored requests
\* cost.
CreditsAccountedFor ==
    \A u \in live :
        balance[u] = granted[u] - SumFunctionOnSet(Cost, Of(u))

\* All of this together is one atomic step per event of a request: it is paid
\* and opened, delivered at its model's price, or failed and refunded once, and
\* only a redelivered job touches it again.
State == [r \in Requests |->
    CASE row[r] = "none" -> "new"
      [] row[r] \in {"queued", "processing"} -> "open"
      [] row[r] = "completed" -> "delivered"
      [] OTHER -> row[r]]
Book == INSTANCE PaidRequests
    WITH state <- State, cost <- Cost,
         refunded <- {r \in Requests : paid[r].refund > 0},
         Deltas <- {TopUpCredits, -BaseCost}, Redelivery <- "crash" \in Faults
RequestSpec == Book!Spec

\* A design that ends failed gave its 25 credits back exactly once: not again
\* when a redelivered job fails again, and also when an earlier run of the job
\* had completed it or been killed.  Nothing is refunded that was not charged.
FailuresRefundedOnce ==
    \A r \in Requests :
        /\ paid[r].refund \in {0, paid[r].base}
        /\ r \in Designs /\ row[r] = "failed" => paid[r].refund = paid[r].base

\* Once the task has run to its end the request is completed or failed, or
\* went with its user: nobody polls a row that can no longer change.
FinishedJobSettled ==
    \A r \in Requests :
        job[r] = "finished" => row[r] \in {"completed", "failed", "gone"}

\* A request that is neither delivered nor failed has a job that will still
\* work on it, unless the worker looked for its row before the submission
\* committed it, or the run met a fault that no handler catches: a database
\* error in the first transaction or in the failure handler, a cancellation by
\* job_timeout, one death of the worker too many.  Nothing else leaves a
\* charged request that nobody delivers or refunds.
UnsettledExplained ==
    \A r \in Requests : row[r] \in {"queued", "processing"} =>
        \/ job[r] \in {"queued", "running"}
        \/ job[r] = "missing" /\ row[r] = "queued"
        \/ job[r] = "broken" /\ "database" \in Faults
        \/ job[r] = "timedout" /\ "timeout" \in Faults
        \/ job[r] = "exhausted" /\ "crash" \in Faults

\* Every job comes to an end, under every fault: restarts are bounded by arq.
JobsEnd == \A r \in Requests : job[r] \in {"queued", "running"} ~> job[r] \in Over

\* Submissions of one user that lock each other out are told apart by the
\* deadlock detector: each handler that inserted its row gets to an end.
SubmissionsEnd == \A r \in Requests : sub[r] = "inserted" ~> sub[r] = "done"

-----------------------------------------------------------------------------
(***************************************************************************)
(* Properties of requests whose job was started once.  A second run breaks *)
(* both (MCDesignRequestsRedelivery.cfg shows the first).                  *)
(***************************************************************************)

\* The image of a job that ran once costs its user what its model costs,
\* whatever else the account pays for or receives meanwhile.
FirstRunCostsItsModel ==
    \A r \in Requests :
        row[r] = "completed" /\ tries[r] = 1 => Net(r) = image[r]

\* A request that was completed or failed changes status only when its job is
\* delivered again, or with its user.
SettledStays ==
    [][\A r \in Requests :
          row[r] \in {"completed", "failed"} /\ tries'[r] = 1
              => row'[r] \in {row[r], "gone"}]_vars

-----------------------------------------------------------------------------
(***************************************************************************)
(* What names, tests and comments say, and the code does not do.           *)
(***************************************************************************)

\* MODEL_CREDIT_COST: an image costs its user what its model costs.
ImageCostsItsModel ==
    \A r \in Requests : row[r] = "completed" => Net(r) = image[r]

\* A design whose generation was started and whose job is over was delivered,
\* or its credits were restored.
StartedDesignSettled ==
    \A r \in Designs :
        row[r] = "processing" /\ job[r] \in Over => paid[r].refund = paid[r].base
=============================================================================
