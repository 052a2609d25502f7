------------------------- MODULE DesignRequestsProofs -------------------------
(***************************************************************************)
(* Proofs about DesignRequests, for any number of users and requests, any  *)
(* faults and any number of deliveries of a job.                           *)
(***************************************************************************)
EXTENDS DesignRequests, FiniteSetTheorems, WellFoundedInduction, TLAPS

-----------------------------------------------------------------------------
(***************************************************************************)
(* The inductive invariant.                                                *)
(***************************************************************************)

Fresh == [base |-> BaseCost, extra |-> 0, refund |-> 0]
Busy == {"generating", "generated", "failing"}

\* The row appears with the commit, the job shortly before it.
SubInv(r) ==
    /\ sub[r] # "done" => row[r] = "none"
    /\ sub[r] \in {"new", "inserted", "charged"} => job[r] = "none"
    /\ sub[r] = "enqueued" => job[r] # "none"

\* A job works only on a row it has found, and returns when that is settled.
JobInv(r) ==
    /\ row[r] = "queued" => job[r] # "none"
    /\ row[r] \in {"none", "queued"} => wpc[r] \in {"idle", "starting"}
    /\ job[r] = "none" => tries[r] = 0
    /\ tries[r] = 0 => job[r] \in {"none", "queued"}
    /\ job[r] = "queued" => tries[r] < MaxTries
    /\ job[r] = "running" <=> wpc[r] # "idle"
    /\ wpc[r] = "generated" => made[r] \in ModelCosts
    /\ wpc[r] = "returning" => row[r] \in {"completed", "failed", "gone"}
    /\ job[r] = "finished" => row[r] \in {"completed", "failed", "gone"}

\* Until its first run is over, a request has paid what its submission charged.
PaidInv(r) ==
    /\ paid[r].refund \in {0, paid[r].base}
    /\ r \in Designs /\ row[r] = "failed" => paid[r].refund = paid[r].base
    /\ tries[r] = 0 => row[r] \in {"none", "queued", "gone"}
    /\ row[r] = "queued" => paid[r] = Fresh
    /\ tries[r] = 1 /\ wpc[r] = "starting" => row[r] \in {"none", "queued", "gone"}
    /\ row[r] = "none" => paid[r] = [base |-> 0, extra |-> 0, refund |-> 0]
    /\ tries[r] = 1 /\ wpc[r] \in Busy =>
          row[r] = "gone" \/ (row[r] = "processing" /\ paid[r] = Fresh)
    /\ tries[r] = 1 /\ row[r] = "completed" => Net(r) = image[r]

Local(r) == SubInv(r) /\ JobInv(r) /\ PaidInv(r)

\* A submission that has charged is alone with its user's row, whose balance
\* pays for it.
LockInv ==
    \A r \in Requests : sub[r] \in {"charged", "enqueued"} =>
        /\ balance[Owner[r]] >= BaseCost
        /\ \A s \in Requests \ {r} : Owner[s] = Owner[r] =>
              sub[s] \notin {"inserted", "charged", "enqueued"}

IInv == TypeOK /\ LockInv /\ \A r \in Requests : Local(r)

LEMMA InitIInv == Init => IInv
  <1> SUFFICES ASSUME Init PROVE IInv
    OBVIOUS
  <1>1. TypeOK
    BY CreditsAssumption, MaxTriesAssumption
    DEF Init, TypeOK, RowStates, SubStates, JobStates
  <1>2. LockInv
    BY DEF Init, LockInv
  <1>3. \A r \in Requests : Local(r)
    BY MaxTriesAssumption
    DEF Init, Local, SubInv, JobInv, PaidInv, Busy
  <1> QED
    BY <1>1, <1>2, <1>3 DEF IInv

-----------------------------------------------------------------------------
(***************************************************************************)
(* Steps of one request leave the others alone.                            *)
(***************************************************************************)

Changes(r) ==
    \A s \in Requests \ {r} :
        /\ row'[s] = row[s] /\ paid'[s] = paid[s] /\ image'[s] = image[s]
        /\ sub'[s] = sub[s] /\ job'[s] = job[s] /\ tries'[s] = tries[s]
        /\ wpc'[s] = wpc[s] /\ made'[s] = made[s]

LEMMA Others ==
    ASSUME NEW r \in Requests, \A s \in Requests : Local(s), Changes(r),
           Local(r)'
    PROVE  (\A s \in Requests : Local(s))'
  <1> SUFFICES ASSUME NEW s \in Requests, s # r PROVE Local(s)'
    OBVIOUS
  <1>1. Local(s)
    OBVIOUS
  <1> QED
    BY <1>1 DEF Changes, Local, SubInv, JobInv, PaidInv, Net

\* A balance changes only when no submission holds the user's row.
LEMMA Unheld ==
    ASSUME TypeOK, NEW u \in Users, CanUpdate(u)
    PROVE  \A r \in Requests :
               Owner[r] = u => sub[r] \notin {"inserted", "charged", "enqueued"}
  BY DEF CanUpdate, Sharing, Holding, Of

LEMMA SameLocks ==
    ASSUME IInv, UNCHANGED sub,
           \A r \in Requests : sub[r] \in {"charged", "enqueued"} =>
               balance'[Owner[r]] = balance[Owner[r]]
    PROVE  LockInv'
  BY DEF IInv, LockInv

-----------------------------------------------------------------------------
(***************************************************************************)
(* Submission.                                                             *)
(***************************************************************************)

\* Up to its commit a submission only takes and gives back locks, and queues
\* the job.
LEMMA SubmitInv ==
    ASSUME IInv, NEW r \in Requests,
           \/ SubmitInsert(r) \/ SubmitCharge(r) \/ SubmitDeadlocked(r)
           \/ SubmitEnqueue(r) \/ EnqueueFails(r) \/ SubmitDies(r)
    PROVE  IInv'
  <1> USE DEF SubmitInsert, SubmitCharge, SubmitDeadlocked, SubmitEnqueue,
              EnqueueFails, SubmitDies, SubTo
  <1>1. /\ UNCHANGED <<userVars, rowVars, tries, wpc, made>>
        /\ job' = job \/ (/\ sub[r] = "charged" /\ sub'[r] = "enqueued"
                          /\ job' = [job EXCEPT ![r] = "queued"])
    BY DEF workerVars, IInv, TypeOK
  <1> DEFINE Moves(state) ==
                /\ sub[r] # "done"
                /\ sub' = [sub EXCEPT ![r] = state]
                /\ state = "inserted" => /\ Holding(Owner[r]) = {}
                                         /\ sub[r] = "new"
                /\ state = "charged" => /\ Sharing(Owner[r]) = {r}
                                        /\ sub[r] = "inserted"
                                        /\ balance[Owner[r]] >= BaseCost
                /\ state = "enqueued" => sub[r] = "charged" /\ job'[r] = "queued"
                /\ state \in {"inserted", "charged"} => job' = job
  <1>2. PICK state \in {"inserted", "charged", "enqueued", "done"} : Moves(state)
    <2>1. CASE SubmitInsert(r)
      <3>1. Moves("inserted") \/ Moves("done")
        BY <2>1 DEF workerVars
      <3> QED
        BY <3>1
    <2>2. CASE SubmitCharge(r)
      <3>1. Moves("charged") \/ Moves("done")
        BY <2>2 DEF workerVars, Affords
      <3> QED
        BY <3>1
    <2>3. CASE SubmitEnqueue(r)
      <3>1. Moves("enqueued")
        BY <2>3 DEF IInv, TypeOK
      <3> QED
        BY <3>1
    <2>4. CASE SubmitDeadlocked(r) \/ EnqueueFails(r) \/ SubmitDies(r)
      <3>1. Moves("done")
        BY <2>4
      <3> QED
        BY <3>1
    <2> QED
      BY <2>1, <2>2, <2>3, <2>4
  <1>3. TypeOK'
    <2>1. sub' \in [Requests -> SubStates]
      BY <1>2 DEF IInv, TypeOK, SubStates
    <2>2. job' \in [Requests -> JobStates]
      BY <1>1 DEF IInv, TypeOK, JobStates
    <2> QED
      BY <1>1, <2>1, <2>2 DEF IInv, TypeOK, userVars, rowVars
  <1>4. LockInv'
    <2> SUFFICES ASSUME NEW q \in Requests, sub'[q] \in {"charged", "enqueued"}
                 PROVE  /\ balance[Owner[q]] >= BaseCost
                        /\ \A s \in Requests \ {q} : Owner[s] = Owner[q] =>
                              sub'[s] \notin {"inserted", "charged", "enqueued"}
      BY <1>1 DEF LockInv, userVars
    <2>1. CASE q = r /\ sub'[q] = "charged"
      <3>1. \A s \in Requests \ {r} :
                Owner[s] = Owner[r] => sub[s] # "inserted"
        BY <2>1, <1>2 DEF Sharing, Of, IInv, TypeOK
      <3>2. \A s \in Requests \ {r} :
                Owner[s] = Owner[r] => sub[s] \notin {"charged", "enqueued"}
        BY <2>1, <1>2 DEF LockInv, IInv, TypeOK
      <3> QED
        BY <2>1, <1>2, <3>1, <3>2 DEF IInv, TypeOK
    <2>2. CASE q = r /\ sub'[q] = "enqueued"
      BY <2>2, <1>2 DEF LockInv, IInv, TypeOK
    <2>3. CASE q # r
      <3>1. sub[q] \in {"charged", "enqueued"}
        BY <2>3, <1>2 DEF IInv, TypeOK
      <3>2. Owner[r] = Owner[q] => sub'[r] = "done"
        BY <2>3, <3>1, <1>2 DEF LockInv, IInv, TypeOK, Holding, Of
      <3> QED
        BY <2>3, <3>1, <3>2, <1>2 DEF LockInv, IInv, TypeOK
    <2> QED
      BY <2>1, <2>2, <2>3
  <1>5. Local(r)'
    BY <1>1, <1>2, MaxTriesAssumption
    DEF IInv, TypeOK, Local, SubInv, JobInv, PaidInv, Net, userVars, rowVars
  <1>6. Changes(r)
    BY <1>1, <1>2 DEF Changes, IInv, TypeOK, userVars, rowVars
  <1> QED
    BY <1>3, <1>4, <1>5, <1>6, Others DEF IInv

\* The commit finds the balance that the charge has seen.
LEMMA CommitInv ==
    ASSUME IInv, NEW r \in Requests, SubmitCommit(r)
    PROVE  IInv'
  <1>1. /\ sub[r] = "enqueued"
        /\ sub' = [sub EXCEPT ![r] = "done"]
        /\ row' = [row EXCEPT ![r] = "queued"]
        /\ balance' = [balance EXCEPT ![Owner[r]] = @ - BaseCost]
        /\ paid' = [paid EXCEPT ![r].base = BaseCost]
        /\ UNCHANGED <<live, granted, hidden, image, job, tries, wpc, made>>
    BY DEF SubmitCommit, SubTo, workerVars
  <1>2. balance[Owner[r]] \in Nat /\ balance[Owner[r]] >= BaseCost
    BY <1>1, OwnerAssumption DEF IInv, LockInv, TypeOK
  <1>3. row[r] = "none" /\ job[r] # "none" /\ wpc[r] \in {"idle", "starting"}
            /\ job[r] # "finished" /\ paid[r] = [base |-> 0, extra |-> 0, refund |-> 0]
    BY <1>1 DEF IInv, Local, SubInv, JobInv, PaidInv
  <1>4. paid'[r] = Fresh
    BY <1>1, <1>3 DEF Fresh, IInv, TypeOK
  <1>5. TypeOK'
    <2>1. balance' \in [Users -> Nat]
      <3>1. balance[Owner[r]] - BaseCost \in Nat
        BY <1>2 DEF BaseCost
      <3>2. balance \in [Users -> Nat]
        BY DEF IInv, TypeOK
      <3> QED
        BY <1>1, <3>1, <3>2
    <2>2. paid' \in [Requests -> [base : Nat, extra : Nat, refund : Nat]]
      <3>1. \A s \in Requests \ {r} : paid'[s] = paid[s]
        BY <1>1 DEF IInv, TypeOK
      <3>2. paid'[r] \in [base : Nat, extra : Nat, refund : Nat]
        BY <1>4 DEF Fresh, BaseCost
      <3>3. paid' = [s \in Requests |-> paid'[s]]
        BY <1>1 DEF IInv, TypeOK
      <3> QED
        BY <3>1, <3>2, <3>3 DEF IInv, TypeOK
    <2> QED
      BY <1>1, <2>1, <2>2 DEF IInv, TypeOK, RowStates, SubStates
  <1>6. LockInv'
    BY <1>1, OwnerAssumption DEF IInv, LockInv, TypeOK
  <1>7. Local(r)'
    BY <1>1, <1>3, <1>4
    DEF IInv, TypeOK, Local, SubInv, JobInv, PaidInv, Fresh, BaseCost, Busy
  <1>8. Changes(r)
    BY <1>1 DEF Changes, IInv, TypeOK
  <1> QED
    BY <1>5, <1>6, <1>7, <1>8, Others DEF IInv

-----------------------------------------------------------------------------
(***************************************************************************)
(* The worker.                                                             *)
(***************************************************************************)

\* Steps that leave ledger and balance alone, faults included.
LEMMA WorkInv ==
    ASSUME IInv, NEW r \in Requests,
           \/ PickJob(r) \/ WorkerStart(r) \/ GenerateOk(r)
           \/ GenerateFails(r) \/ Finish(r)
           \/ DatabaseFails(r) \/ JobTimeout(r) \/ WorkerCrash(r)
    PROVE  IInv'
  <1> USE DEF PickJob, WorkerStart, GenerateOk, GenerateFails, Finish, DatabaseFails,
              JobTimeout, WorkerCrash, EndJob
  <1>1. /\ UNCHANGED <<userVars, hidden, paid, image, sub>>
        /\ job[r] \in {"queued", "running"}
    BY DEF rowVars, IInv, Local, JobInv
  <1>2. TypeOK'
    <2>1. row' \in [Requests -> RowStates]
      BY DEF IInv, TypeOK, rowVars, RowStates
    <2>2. job' \in [Requests -> JobStates]
      BY DEF IInv, TypeOK, JobStates
    <2>3. tries' \in [Requests -> 0..MaxTries]
      BY MaxTriesAssumption DEF IInv, TypeOK, Local, JobInv
    <2>4. made' \in [Requests -> ModelCosts \cup {0}]
      BY DEF IInv, TypeOK, ModelCosts, BaseCost
    <2>5. wpc' \in [Requests -> {"idle", "starting", "generating", "generated",
                                 "failing", "returning"}]
      BY DEF IInv, TypeOK
    <2> QED
      BY <1>1, <2>1, <2>2, <2>3, <2>4, <2>5 DEF IInv, TypeOK, userVars
  <1>3. LockInv'
    BY <1>1, SameLocks DEF userVars
  <1>4. Local(r)'
    <2>1. SubInv(r)'
      BY <1>1 DEF IInv, TypeOK, Local, SubInv, JobInv, rowVars, Stored
    <2>2. JobInv(r)'
      BY <1>1, MaxTriesAssumption
      DEF IInv, TypeOK, Local, SubInv, JobInv, rowVars, Stored, RowStates,
          ModelCosts, BaseCost
    <2>3. PaidInv(r)'
      <3>1. /\ Local(r) /\ TypeOK /\ tries[r] \in Nat
            /\ Net(r)' = Net(r) /\ paid' = paid /\ image' = image
        BY <1>1, MaxTriesAssumption DEF IInv, TypeOK, Net
      <3>2. CASE PickJob(r)
        BY <3>1, <3>2 DEF TypeOK, Local, JobInv, PaidInv, rowVars, Busy
      <3>3. CASE WorkerStart(r)
        BY <3>1, <3>3 DEF TypeOK, Local, JobInv, PaidInv, Stored, Busy
      <3>4. CASE ~PickJob(r) /\ ~WorkerStart(r)
        BY <3>1, <3>4 DEF TypeOK, Local, JobInv, PaidInv, rowVars, Busy
      <3> QED
        BY <3>2, <3>3, <3>4
    <2> QED
      BY <2>1, <2>2, <2>3 DEF Local
  <1>5. Changes(r)
    BY <1>1 DEF Changes, IInv, TypeOK, rowVars
  <1> QED
    BY <1>2, <1>3, <1>4, <1>5, Others DEF IInv

\* Completion: the first run charges the difference to the model it used.
LEMMA CompleteInv ==
    ASSUME IInv, NEW r \in Requests, Complete(r)
    PROVE  IInv'
  <1>1. /\ wpc[r] = "generated" /\ job[r] = "running"
        /\ UNCHANGED <<live, granted, hidden, sub, tries, made>>
        /\ made[r] \in {25, 75} /\ Extra(r) \in {0, 50}
        /\ Owner[r] \in Users
        /\ row[r] # "none" /\ sub[r] = "done"
    BY OwnerAssumption
    DEF Complete, IInv, Local, SubInv, JobInv, ModelCosts, Extra, BaseCost,
        TypeOK
  <1>2. CASE row[r] \notin Stored \/ ~Affords(Owner[r], Extra(r))
    <2>1. /\ UNCHANGED <<balance, row, paid, image>>
          /\ \/ /\ wpc' = [wpc EXCEPT ![r] = "failing"]
                /\ UNCHANGED job
             \/ /\ row[r] \notin Stored
                /\ wpc' = [wpc EXCEPT ![r] = "idle"]
                /\ job' = [job EXCEPT ![r] = "missing"]
      BY <1>2 DEF Complete, EndJob
    <2>2. TypeOK'
      <3>1. job' \in [Requests -> JobStates]
        BY <2>1 DEF IInv, TypeOK, JobStates
      <3> QED
        BY <1>1, <2>1, <3>1 DEF IInv, TypeOK
    <2>3. LockInv'
      BY <1>1, <2>1, SameLocks
    <2>4. Local(r)'
      BY <1>1, <2>1
      DEF IInv, TypeOK, Local, SubInv, JobInv, PaidInv, Busy, Net, Stored
    <2>5. Changes(r)
      BY <1>1, <2>1 DEF Changes, IInv, TypeOK
    <2> QED
      BY <2>2, <2>3, <2>4, <2>5, Others DEF IInv
  <1>3. CASE row[r] \in Stored /\ Affords(Owner[r], Extra(r))
    <2>1. /\ Extra(r) > 0 => CanUpdate(Owner[r])
          /\ balance' = [balance EXCEPT ![Owner[r]] = @ - Extra(r)]
          /\ paid' = [paid EXCEPT ![r].extra = @ + Extra(r)]
          /\ row' = [row EXCEPT ![r] = "completed"]
          /\ image' = [image EXCEPT ![r] = made[r]]
          /\ wpc' = [wpc EXCEPT ![r] = "returning"]
          /\ UNCHANGED job
      BY <1>3 DEF Complete
    <2>2. balance[Owner[r]] \in Nat /\ balance[Owner[r]] >= Extra(r)
      BY <1>1, <1>3 DEF IInv, TypeOK, Affords
    <2>3. /\ paid[r] \in [base : Nat, extra : Nat, refund : Nat]
          /\ paid'[r] = [base |-> paid[r].base, extra |-> paid[r].extra + Extra(r),
                         refund |-> paid[r].refund]
          /\ \A s \in Requests \ {r} : paid'[s] = paid[s]
      BY <2>1 DEF IInv, TypeOK
    <2>4. TypeOK'
      <3>1. balance' \in [Users -> Nat]
        BY <1>1, <2>1, <2>2 DEF IInv, TypeOK
      <3>2. paid' \in [Requests -> [base : Nat, extra : Nat, refund : Nat]]
        BY <1>1, <2>1, <2>3 DEF IInv, TypeOK
      <3>3. image' \in [Requests -> ModelCosts \cup {0}]
        BY <1>1, <2>1 DEF IInv, TypeOK, ModelCosts
      <3> QED
        BY <1>1, <2>1, <3>1, <3>2, <3>3 DEF IInv, TypeOK, RowStates
    <2>5. LockInv'
      <3>1. CASE Extra(r) = 0
        BY <3>1, <1>1, <2>1, <2>2, SameLocks DEF IInv, TypeOK
      <3>2. CASE Extra(r) > 0
        BY <3>2, <1>1, <2>1, Unheld, SameLocks DEF IInv, TypeOK
      <3> QED
        BY <1>1, <3>1, <3>2
    <2>6. Net(r)' = image'[r] \/ tries'[r] # 1
      <3>1. CASE tries[r] = 1
        <4>1. paid[r] = Fresh
          BY <3>1, <1>1, <1>3 DEF IInv, Local, PaidInv, Busy, Stored
        <4>2. Net(r)' = BaseCost + Extra(r)
          BY <4>1, <2>3, <1>1 DEF Net, Fresh, BaseCost
        <4> QED
          BY <4>2, <1>1, <2>1 DEF Extra, BaseCost, IInv, TypeOK
      <3> QED
        BY <3>1, <1>1
    <2>7. Local(r)'
      <3>1. SubInv(r)' /\ JobInv(r)'
        BY <1>1, <2>1 DEF IInv, TypeOK, Local, SubInv, JobInv
      <3>2. PaidInv(r)'
        <4>1. row'[r] = "completed" /\ wpc'[r] = "returning"
          BY <2>1 DEF IInv, TypeOK
        <4>2. tries'[r] # 0
          BY <1>1, <1>3 DEF IInv, Local, JobInv, PaidInv, Stored
        <4>3. paid'[r].refund \in {0, paid'[r].base}
          BY <2>3 DEF IInv, Local, PaidInv
        <4> QED
          BY <4>1, <4>2, <4>3, <2>6 DEF PaidInv, Busy
      <3> QED
        BY <3>1, <3>2 DEF Local
    <2>8. Changes(r)
      BY <1>1, <2>1, <2>3 DEF Changes, IInv, TypeOK
    <2> QED
      BY <2>4, <2>5, <2>7, <2>8, Others DEF IInv
  <1> QED
    BY <1>2, <1>3

\* Failure: a design has its charge back afterwards, whoever recorded it.
LEMMA FailureInv ==
    ASSUME IInv, NEW r \in Requests, RecordFailure(r)
    PROVE  IInv'
  <1>1. /\ wpc[r] = "failing" /\ job[r] = "running"
        /\ UNCHANGED <<live, granted, hidden, image, sub, tries, made>>
        /\ Owner[r] \in Users
        /\ row[r] # "none" /\ sub[r] = "done"
        /\ paid[r] \in [base : Nat, extra : Nat, refund : Nat]
    BY OwnerAssumption DEF RecordFailure, IInv, Local, SubInv, JobInv, TypeOK
  <1>2. CASE row[r] \notin Stored
    <2>1. /\ UNCHANGED <<balance, row, paid>>
          /\ wpc' = [wpc EXCEPT ![r] = "idle"]
          /\ job' = [job EXCEPT ![r] = "finished"]
          /\ row[r] = "gone"
      BY <1>1, <1>2 DEF RecordFailure, EndJob, IInv, TypeOK, RowStates, Stored
    <2>2. TypeOK'
      BY <1>1, <2>1 DEF IInv, TypeOK, JobStates
    <2>3. LockInv'
      BY <1>1, <2>1, SameLocks
    <2>4. Local(r)'
      BY <1>1, <2>1 DEF IInv, TypeOK, Local, SubInv, JobInv, PaidInv, Busy, Net
    <2>5. Changes(r)
      BY <1>1, <2>1 DEF Changes, IInv, TypeOK
    <2> QED
      BY <2>2, <2>3, <2>4, <2>5, Others DEF IInv
  <1>3. CASE row[r] \in Stored
    <2>1. /\ r \in Designs => CanUpdate(Owner[r])
          /\ balance' = [balance EXCEPT ![Owner[r]] = @ + Refund(r)]
          /\ paid' = [paid EXCEPT ![r].refund = @ + Refund(r)]
          /\ row' = [row EXCEPT ![r] = "failed"]
          /\ wpc' = [wpc EXCEPT ![r] = "returning"]
          /\ UNCHANGED job
      BY <1>3 DEF RecordFailure
    <2>2. /\ Refund(r) \in Nat
          /\ Refund(r) > 0 => r \in Designs
          /\ paid[r].refund + Refund(r) \in {0, paid[r].base}
          /\ r \in Designs => paid[r].refund + Refund(r) = paid[r].base
      BY <1>1 DEF Refund, IInv, Local, PaidInv
    <2>3. /\ paid'[r] = [base |-> paid[r].base, extra |-> paid[r].extra,
                         refund |-> paid[r].refund + Refund(r)]
          /\ \A s \in Requests \ {r} : paid'[s] = paid[s]
      BY <1>1, <2>1 DEF IInv, TypeOK
    <2>4. TypeOK'
      <3>1. balance' \in [Users -> Nat]
        BY <1>1, <2>1, <2>2 DEF IInv, TypeOK
      <3>2. paid' \in [Requests -> [base : Nat, extra : Nat, refund : Nat]]
        BY <1>1, <2>1, <2>2, <2>3 DEF IInv, TypeOK
      <3> QED
        BY <1>1, <2>1, <3>1, <3>2 DEF IInv, TypeOK, RowStates
    <2>5. LockInv'
      <3>1. CASE Refund(r) = 0
        BY <3>1, <1>1, <2>1, SameLocks DEF IInv, TypeOK
      <3>2. CASE Refund(r) > 0
        BY <3>2, <1>1, <2>1, <2>2, Unheld, SameLocks DEF IInv, TypeOK
      <3> QED
        BY <2>2, <3>1, <3>2
    <2>6. Local(r)'
      <3>1. row'[r] = "failed" /\ wpc'[r] = "returning"
        BY <2>1 DEF IInv, TypeOK
      <3>2. SubInv(r)' /\ JobInv(r)'
        BY <1>1, <2>1, <3>1 DEF IInv, Local, SubInv, JobInv
      <3>3. tries'[r] # 0
        BY <1>1, <1>3 DEF IInv, Local, JobInv, PaidInv, Stored
      <3>4. PaidInv(r)'
        BY <2>2, <2>3, <3>1, <3>3 DEF PaidInv, Busy
      <3> QED
        BY <3>2, <3>4 DEF Local
    <2>7. Changes(r)
      BY <1>1, <2>1, <2>3 DEF Changes, IInv, TypeOK
    <2> QED
      BY <2>4, <2>5, <2>6, <2>7, Others DEF IInv
  <1> QED
    BY <1>2, <1>3

-----------------------------------------------------------------------------
(***************************************************************************)
(* The rest of the backend.                                                *)
(***************************************************************************)

LEMMA AccountInv ==
    ASSUME IInv, NEW u \in Users, TopUp(u) \/ DirectReplace(u)
    PROVE  IInv'
  <1>1. /\ CanUpdate(u)
        /\ UNCHANGED <<live, rowVars, sub, workerVars>>
        /\ \A v \in Users \ {u} : balance'[v] = balance[v]
        /\ balance' \in [Users -> Nat] /\ granted' \in [Users -> Int]
    <2>1. CASE TopUp(u)
      BY <2>1, CreditsAssumption DEF TopUp, IInv, TypeOK
    <2>2. CASE DirectReplace(u)
      BY <2>2 DEF DirectReplace, IInv, TypeOK, Affords, BaseCost
    <2> QED
      BY <2>1, <2>2
  <1>2. TypeOK'
    BY <1>1 DEF IInv, TypeOK, rowVars, workerVars
  <1>3. LockInv'
    BY <1>1, Unheld, OwnerAssumption, SameLocks DEF IInv
  <1>4. (\A r \in Requests : Local(r))'
    BY <1>1
    DEF IInv, Local, SubInv, JobInv, PaidInv, Net, rowVars, workerVars
  <1> QED
    BY <1>2, <1>3, <1>4 DEF IInv

LEMMA HideInv ==
    ASSUME IInv, NEW r \in Requests, SoftDelete(r)
    PROVE  IInv'
  <1>1. hidden' = hidden \cup {r}
        /\ UNCHANGED <<userVars, row, paid, image, sub, workerVars>>
    BY DEF SoftDelete
  <1>2. TypeOK'
    BY <1>1 DEF IInv, TypeOK, userVars, workerVars
  <1>3. LockInv'
    BY <1>1, SameLocks DEF userVars
  <1>4. (\A s \in Requests : Local(s))'
    BY <1>1 DEF IInv, Local, SubInv, JobInv, PaidInv, Net, workerVars
  <1> QED
    BY <1>2, <1>3, <1>4 DEF IInv

\* An account is deleted when no submission has its row.
LEMMA DeleteInv ==
    ASSUME IInv, NEW u \in Users, DeleteUser(u)
    PROVE  IInv'
  <1>1. /\ CanUpdate(u)
        /\ live' = live \ {u}
        /\ balance' = [balance EXCEPT ![u] = 0]
        /\ row' = [r \in Requests |->
                     IF Owner[r] = u /\ row[r] \in Stored THEN "gone"
                     ELSE row[r]]
        /\ UNCHANGED <<granted, hidden, paid, image, sub, workerVars>>
    BY DEF DeleteUser
  <1>2. TypeOK'
    BY <1>1 DEF IInv, TypeOK, RowStates, workerVars
  <1>3. LockInv'
    BY <1>1, Unheld, OwnerAssumption, SameLocks DEF IInv, TypeOK
  <1>4. (\A r \in Requests : Local(r))'
    <2> SUFFICES ASSUME NEW r \in Requests PROVE Local(r)'
      OBVIOUS
    <2>1. Local(r)
      BY DEF IInv
    <2>2. CASE row'[r] = row[r]
      BY <1>1, <2>1, <2>2
      DEF Local, SubInv, JobInv, PaidInv, Net, workerVars
    <2>3. CASE row'[r] = "gone" /\ row[r] \in Stored
      BY <1>1, <2>1, <2>3
      DEF Local, SubInv, JobInv, PaidInv, Net, workerVars, Stored, Busy
    <2> QED
      BY <1>1, <2>2, <2>3
  <1> QED
    BY <1>2, <1>3, <1>4 DEF IInv

LEMMA NextIInv == IInv /\ [Next]_vars => IInv'
  <1> SUFFICES ASSUME IInv, [Next]_vars PROVE IInv'
    OBVIOUS
  <1>1. CASE UNCHANGED vars
    BY <1>1
    DEF vars, IInv, TypeOK, LockInv, Local, SubInv, JobInv, PaidInv, Net
  <1>2. CASE Next
    <2>1. ASSUME NEW r \in Requests,
                 SubmitInsert(r) \/ SubmitStep(r) \/ SoftDelete(r)
          PROVE  IInv'
      BY <2>1, SubmitInv, CommitInv, HideInv DEF SubmitStep
    <2>2. ASSUME NEW r \in Requests, WorkerStep(r) \/ Fault(r)
          PROVE  IInv'
      BY <2>2, WorkInv, CompleteInv, FailureInv, SubmitInv DEF WorkerStep, Fault
    <2>3. ASSUME NEW u \in Users, TopUp(u) \/ DirectReplace(u) \/ DeleteUser(u)
          PROVE  IInv'
      BY <2>3, AccountInv, DeleteInv
    <2> QED
      BY <1>2, <2>1, <2>2, <2>3 DEF Next
  <1> QED
    BY <1>1, <1>2

LEMMA Invariance == Spec => []IInv
  BY InitIInv, NextIInv, PTL DEF Spec

-----------------------------------------------------------------------------
(***************************************************************************)
(* Sums over a finite set.  Only their least members are used, since the   *)
(* library's induction theorems cannot be instantiated: a set of naturals  *)
(* has a least number, so a set of finite sets has one in which nothing    *)
(* can be left out.                                                        *)
(***************************************************************************)

\* A set of naturals that is not empty has a least element.
LEMMA Least ==
    ASSUME NEW N \in SUBSET Nat, N # {}
    PROVE  \E n \in N : \A m \in N : n <= m
  <1> DEFINE Less == {p \in Nat \X Nat : p[1] < p[2]}
  <1>1. IsWellFoundedOn(Less, Nat)
    BY NatLessThanWellFounded DEF OpToRel
  <1> HIDE DEF Less
  <1>2. PICK n \in N : \A m \in N : <<m, n>> \notin Less
    BY <1>1, WFMin
  <1>3. \A m \in N : ~(m < n)
    BY <1>2 DEF Less
  <1>4. \A m \in N : n <= m
    BY <1>3
  <1> QED
    BY <1>4

Pick(T) == CHOOSE x \in T : TRUE

\* f gives the total of w over every subset of S.
IsTotal(f, w, S) ==
    f = [T \in SUBSET S |->
            IF T = {} THEN 0 ELSE w[Pick(T)] + f[T \ {Pick(T)}]]

LEMMA PickFact == ASSUME NEW T, T # {} PROVE Pick(T) \in T
  BY DEF Pick

LEMMA Smaller ==
    ASSUME NEW S, IsFiniteSet(S), NEW T \in SUBSET S
    PROVE  /\ Cardinality(T) \in Nat
           /\ T # {} => /\ Cardinality(T \ {Pick(T)}) = Cardinality(T) - 1
                        /\ Cardinality(T) > 0
           /\ Cardinality(T) = 0 => T = {}
  <1>1. IsFiniteSet(T)
    BY FS_Subset
  <1>2. Cardinality(T) \in Nat /\ (Cardinality(T) = 0 <=> T = {})
    BY <1>1, FS_CardinalityType, FS_EmptySet
  <1>3. ASSUME T # {} PROVE Cardinality(T \ {Pick(T)}) = Cardinality(T) - 1
    BY <1>1, <1>3, PickFact, FS_RemoveElement
  <1> QED
    BY <1>2, <1>3

\* Among subsets of a finite set there is one with no other inside it.
LEMMA Smallest ==
    ASSUME NEW S, IsFiniteSet(S), NEW F \in SUBSET (SUBSET S), F # {}
    PROVE  \E T \in F : T # {} => T \ {Pick(T)} \notin F
  <1> DEFINE Sizes == {Cardinality(T) : T \in F}
  <1>1. Sizes \in SUBSET Nat
    <2>1. \A T \in F : Cardinality(T) \in Nat
      BY Smaller
    <2> QED
      BY <2>1
  <1>2. Sizes # {}
    OBVIOUS
  <1> HIDE DEF Sizes
  <1>3. PICK n \in Sizes : \A m \in Sizes : n <= m
    BY <1>1, <1>2, Least
  <1>4. PICK T \in F : Cardinality(T) = n
    BY DEF Sizes
  <1>5. T \in SUBSET S
    OBVIOUS
  <1>6. ASSUME T # {}, T \ {Pick(T)} \in F PROVE FALSE
    <2>1. Cardinality(T \ {Pick(T)}) \in Sizes
      BY <1>6 DEF Sizes
    <2>2. Cardinality(T \ {Pick(T)}) = n - 1 /\ n \in Nat
      BY <1>4, <1>5, <1>6, Smaller
    <2> QED
      BY <1>3, <2>1, <2>2
  <1> QED
    BY <1>6

LEMMA TotalExists ==
    ASSUME NEW S, IsFiniteSet(S), NEW w, \A s \in S : w[s] \in Int
    PROVE  \E f \in [SUBSET S -> Int] : IsTotal(f, w, S)
  <1> DEFINE Below(n) == {T \in SUBSET S : Cardinality(T) <= n}
             Value(f, T) == IF T = {} THEN 0 ELSE w[Pick(T)] + f[T \ {Pick(T)}]
             Good(f, n) == /\ f \in [Below(n) -> Int]
                           /\ \A T \in Below(n) : f[T] = Value(f, T)
             Bad == {n \in Nat : ~ \E f : Good(f, n)}
  <1>1. Bad = {}
    <2> SUFFICES ASSUME Bad # {} PROVE FALSE
      OBVIOUS
    <2>1. PICK n \in Bad : \A m \in Bad : n <= m
      <3> HIDE DEF Bad
      <3>1. Bad \in SUBSET Nat
        BY DEF Bad
      <3> QED
        BY <3>1, Least
    <2>2. CASE n = 0
      <3>1. ASSUME NEW T \in Below(0) PROVE T = {}
        <4>1. Cardinality(T) \in Nat /\ Cardinality(T) <= 0
          BY Smaller
        <4>2. T \in SUBSET S /\ Cardinality(T) = 0
          BY <4>1
        <4> QED
          BY <4>2, Smaller
      <3>2. Good([T \in Below(0) |-> 0], 0)
        BY <3>1
      <3> QED
        BY <2>1, <2>2, <3>2
    <2>3. CASE n > 0
      <3>1. n - 1 \in Nat /\ n - 1 \notin Bad
        <4>1. n \in Nat
          OBVIOUS
        <4> HIDE DEF Bad
        <4> QED
          BY <4>1, <2>1, <2>3
      <3>2. PICK f : Good(f, n - 1)
        BY <3>1
      <3> DEFINE g == [T \in Below(n) |-> Value(f, T)]
      <3>3. ASSUME NEW T \in Below(n), T # {}
            PROVE  /\ Pick(T) \in S
                   /\ T \ {Pick(T)} \in Below(n - 1)
                   /\ T \ {Pick(T)} \in Below(n)
        <4>1. Pick(T) \in T
          BY <3>3, PickFact
        <4>2. Cardinality(T \ {Pick(T)}) <= n - 1
          BY <3>3, <2>1, Smaller
        <4> QED
          BY <4>1, <4>2, <2>1, Smaller
      <3>4. \A T \in Below(n) : Value(f, T) \in Int
        BY <3>2, <3>3
      <3>5. \A T \in Below(n - 1) : T \in Below(n) /\ f[T] = g[T]
        BY <3>2, <2>1, Smaller
      <3>6. \A T \in Below(n) : g[T] = Value(g, T)
        BY <3>3, <3>5
      <3>7. Good(g, n)
        BY <3>4, <3>6
      <3> QED
        BY <2>1, <3>7
    <2> QED
      BY <2>1, <2>2, <2>3
  <1>2. Cardinality(S) \in Nat
    BY FS_CardinalityType
  <1>3. PICK f : Good(f, Cardinality(S))
    BY <1>1, <1>2
  <1>4. Below(Cardinality(S)) = SUBSET S
    BY FS_Subset
  <1>5. f \in [SUBSET S -> Int] /\ \A T \in SUBSET S : f[T] = Value(f, T)
    BY <1>3, <1>4
  <1>6. f = [T \in SUBSET S |-> Value(f, T)]
    BY <1>5
  <1> QED
    BY <1>5, <1>6 DEF IsTotal

LEMMA TotalIsSum ==
    ASSUME NEW S, IsFiniteSet(S), NEW w, \A s \in S : w[s] \in Int,
           NEW f \in [SUBSET S -> Int], IsTotal(f, w, S)
    PROVE  SumFunctionOnSet(w, S) = f[S]
  <1> DEFINE h == CHOOSE g : IsTotal(g, w, S)
             Bad == {T \in SUBSET S : h[T] # f[T]}
  <1>1. SumFunctionOnSet(w, S) = h[S]
    BY DEF SumFunctionOnSet, FoldFunctionOnSet, MapThenFoldSet, IsTotal, Pick
  <1>2. IsTotal(h, w, S)
    OBVIOUS
  <1> HIDE DEF h
  <1>3. Bad = {}
    <2> SUFFICES ASSUME Bad # {} PROVE FALSE
      OBVIOUS
    <2>3. PICK T \in Bad : T # {} => T \ {Pick(T)} \notin Bad
      <3>1. Bad \in SUBSET (SUBSET S)
        OBVIOUS
      <3> HIDE DEF Bad
      <3> QED
        BY <3>1, Smallest
    <2>4. T # {}
      BY <2>3, <1>2 DEF IsTotal
    <2> DEFINE U == T \ {Pick(T)}
    <2>6. h[U] = f[U]
      BY <2>3, <2>4
    <2>7. h[T] = w[Pick(T)] + h[U] /\ f[T] = w[Pick(T)] + f[U]
      BY <2>4, <1>2 DEF IsTotal
    <2> QED
      BY <2>3, <2>6, <2>7
  <1> QED
    BY <1>1, <1>3

LEMMA SumChange ==
    ASSUME NEW S, IsFiniteSet(S), NEW r \in S,
           NEW w, \A s \in S : w[s] \in Int,
           NEW v, \A s \in S : v[s] \in Int,
           \A s \in S \ {r} : v[s] = w[s]
    PROVE  /\ SumFunctionOnSet(w, S) \in Int
           /\ SumFunctionOnSet(v, S) = SumFunctionOnSet(w, S) + v[r] - w[r]
  <1>1. PICK f \in [SUBSET S -> Int] : IsTotal(f, w, S)
    BY TotalExists
  <1>2. PICK g \in [SUBSET S -> Int] : IsTotal(g, v, S)
    BY TotalExists
  <1> DEFINE Moved(T) == f[T] + (IF r \in T THEN v[r] - w[r] ELSE 0)
             Bad == {T \in SUBSET S : g[T] # Moved(T)}
  <1>3. Bad = {}
    <2> SUFFICES ASSUME Bad # {} PROVE FALSE
      OBVIOUS
    <2>3. PICK T \in Bad : T # {} => T \ {Pick(T)} \notin Bad
      <3>1. Bad \in SUBSET (SUBSET S)
        OBVIOUS
      <3> HIDE DEF Bad
      <3> QED
        BY <3>1, Smallest
    <2>4. T # {}
      BY <2>3, <1>1, <1>2 DEF IsTotal
    <2> DEFINE U == T \ {Pick(T)}
    <2>5. U \in SUBSET S /\ Pick(T) \in T
      BY <2>3, <2>4, PickFact
    <2>6. g[U] = Moved(U)
      BY <2>3, <2>4
    <2>7. g[T] = v[Pick(T)] + g[U] /\ f[T] = w[Pick(T)] + f[U]
      BY <2>4, <1>1, <1>2 DEF IsTotal
    <2>8. f[U] \in Int /\ w[r] \in Int /\ v[r] \in Int
      BY <2>5
    <2>9. CASE Pick(T) = r
      BY <2>3, <2>5, <2>6, <2>7, <2>8, <2>9
    <2>10. CASE Pick(T) # r
      BY <2>3, <2>5, <2>6, <2>7, <2>8, <2>10
    <2> QED
      BY <2>9, <2>10
  <1>4. g[S] = f[S] + v[r] - w[r]
    BY <1>3
  <1>5. SumFunctionOnSet(w, S) = f[S] /\ SumFunctionOnSet(v, S) = g[S]
    BY <1>1, <1>2, TotalIsSum
  <1> QED
    BY <1>4, <1>5

LEMMA SumOfZeros ==
    ASSUME NEW S, IsFiniteSet(S), NEW w, \A s \in S : w[s] = 0
    PROVE  SumFunctionOnSet(w, S) = 0
  <1> DEFINE f == [T \in SUBSET S |-> 0]
  <1>1. IsTotal(f, w, S)
    <2>1. \A T \in SUBSET S : T # {} => w[Pick(T)] = 0
      BY PickFact
    <2> QED
      BY <2>1 DEF IsTotal
  <1>2. f \in [SUBSET S -> Int] /\ f[S] = 0 /\ \A s \in S : w[s] \in Int
    OBVIOUS
  <1> HIDE DEF f
  <1> QED
    BY <1>1, <1>2, TotalIsSum

-----------------------------------------------------------------------------
(***************************************************************************)
(* Who pays for what.                                                      *)
(***************************************************************************)

\* What became of the request of a job that was cut off.
CutInv(r) ==
    /\ job[r] = "missing" => row[r] \in {"none", "queued", "gone"}
    /\ job[r] = "broken" => "database" \in Faults
    /\ job[r] = "timedout" => "timeout" \in Faults
    /\ job[r] = "exhausted" => "crash" \in Faults

\* An open submission and a stored row have a user, a row has its charge, a
\* run at work has its row to itself, only designs know dearer models, only
\* crashes start a job again, and a job that is cut off has met its fault.
OwnInv(r) ==
    /\ sub[r] \in {"inserted", "charged", "enqueued"} \/ row[r] \in Stored =>
          Owner[r] \in live
    /\ row[r] # "none" => paid[r].base = BaseCost
    /\ wpc[r] \in Busy => row[r] \in {"processing", "gone"}
    /\ wpc[r] = "generated" /\ r \notin Designs => made[r] = BaseCost
    /\ "crash" \notin Faults => /\ tries[r] <= 1
                                /\ job[r] = "queued" => tries[r] = 0
    /\ CutInv(r)

OwnersInv == \A r \in Requests : OwnInv(r)

LEMMA InitOwners == Init => OwnersInv
  BY MaxTriesAssumption DEF Init, OwnersInv, OwnInv, CutInv, Busy, Stored

\* Every step of a request leaves its user's account, and the other requests.
LEMMA OtherOwners ==
    ASSUME OwnersInv, NEW r \in Requests, UNCHANGED live, Changes(r), OwnInv(r)'
    PROVE  OwnersInv'
  <1> SUFFICES ASSUME NEW s \in Requests, s # r PROVE OwnInv(s)'
    BY DEF OwnersInv
  <1>1. OwnInv(s)
    BY DEF OwnersInv
  <1> QED
    BY <1>1 DEF Changes, OwnInv, CutInv

LEMMA SubmitOwners ==
    ASSUME IInv, OwnersInv, NEW r \in Requests, SubmitInsert(r) \/ SubmitStep(r)
                                                 \/ SubmitDies(r)
    PROVE  OwnersInv'
  <1> USE DEF SubmitInsert, SubmitStep, SubmitCharge, SubmitDeadlocked,
              SubmitEnqueue, EnqueueFails, SubmitCommit, SubmitDies, SubTo
  <1>1. UNCHANGED live /\ Changes(r)
    BY DEF IInv, TypeOK, Changes, userVars, rowVars, workerVars
  <1>2. OwnInv(r) /\ SubInv(r) /\ JobInv(r)
    BY DEF OwnersInv, IInv, Local
  <1>3. OwnInv(r)'
    BY <1>2, <1>1
    DEF OwnInv, CutInv, SubInv, JobInv, IInv, TypeOK, userVars, rowVars,
        workerVars, Stored, Busy
  <1> QED
    BY <1>1, <1>3, OtherOwners

LEMMA WorkerOwners ==
    ASSUME IInv, OwnersInv, NEW r \in Requests,
           WorkerStep(r) \/ DatabaseFails(r) \/ JobTimeout(r) \/ WorkerCrash(r)
    PROVE  OwnersInv'
  <1> USE DEF WorkerStep, PickJob, WorkerStart, GenerateOk, GenerateFails, Complete,
              RecordFailure, Finish, DatabaseFails, JobTimeout, WorkerCrash,
              EndJob
  <1>1. UNCHANGED live /\ Changes(r)
    BY DEF IInv, TypeOK, Changes, userVars, rowVars
  <1>2. OwnInv(r) /\ SubInv(r) /\ JobInv(r)
    BY DEF OwnersInv, IInv, Local
  <1>3. OwnInv(r)'
    <2>1. JobInv(r) /\ CutInv(r) /\ TypeOK
      BY <1>2 DEF OwnInv, IInv
    <2>2. CutInv(r)'
      <3>1. CASE PickJob(r) \/ WorkerStart(r)
        BY <2>1, <3>1 DEF JobInv, CutInv, TypeOK, Stored, RowStates
      <3>2. CASE Complete(r) \/ RecordFailure(r)
        BY <2>1, <3>2 DEF JobInv, CutInv, TypeOK, Stored, RowStates
      <3>3. CASE GenerateOk(r) \/ GenerateFails(r) \/ Finish(r)
        BY <2>1, <3>3 DEF CutInv, TypeOK, rowVars
      <3>4. CASE DatabaseFails(r) \/ JobTimeout(r) \/ WorkerCrash(r)
        BY <2>1, <3>4 DEF CutInv, TypeOK, rowVars
      <3> QED
        BY <3>1, <3>2, <3>3, <3>4
    <2> QED
      BY <1>2, <1>1, <2>2
      DEF OwnInv, SubInv, JobInv, IInv, TypeOK, userVars, rowVars, Stored, Busy
  <1> QED
    BY <1>1, <1>3, OtherOwners

LEMMA AccountOwners ==
    ASSUME IInv, OwnersInv, NEW u \in Users,
           TopUp(u) \/ DirectReplace(u) \/ DeleteUser(u)
    PROVE  OwnersInv'
  <1> SUFFICES ASSUME NEW r \in Requests PROVE OwnInv(r)'
    BY DEF OwnersInv
  <1>1. OwnInv(r) /\ CanUpdate(u)
    BY DEF OwnersInv, TopUp, DirectReplace, DeleteUser
  <1>2. Owner[r] = u => sub[r] \notin {"inserted", "charged", "enqueued"}
    BY <1>1, Unheld DEF IInv
  <1> QED
    BY <1>1, <1>2
    DEF TopUp, DirectReplace, DeleteUser, OwnInv, CutInv, rowVars, workerVars,
        Stored

LEMMA NextOwners == IInv /\ OwnersInv /\ [Next]_vars => OwnersInv'
  <1> SUFFICES ASSUME IInv, OwnersInv, [Next]_vars PROVE OwnersInv'
    OBVIOUS
  <1>1. CASE UNCHANGED vars
    BY <1>1 DEF vars, OwnersInv, OwnInv, CutInv
  <1>2. ASSUME NEW r \in Requests, SoftDelete(r) PROVE OwnersInv'
    BY <1>2 DEF SoftDelete, OwnersInv, OwnInv, CutInv, userVars, workerVars
  <1> QED
    BY <1>1, <1>2, SubmitOwners, WorkerOwners, AccountOwners DEF Next, Fault

LEMMA Owners == Spec => []OwnersInv
  BY InitIInv, NextIInv, InitOwners, NextOwners, PTL DEF Spec

-----------------------------------------------------------------------------
(***************************************************************************)
(* The balance and the costs of the requests move together.                *)
(***************************************************************************)

LEMMA SumType ==
    ASSUME NEW S, IsFiniteSet(S), NEW w, \A s \in S : w[s] \in Int
    PROVE  SumFunctionOnSet(w, S) \in Int
  <1>1. PICK f \in [SUBSET S -> Int] : IsTotal(f, w, S)
    BY TotalExists
  <1>2. SumFunctionOnSet(w, S) = f[S]
    BY <1>1, TotalIsSum
  <1> QED
    BY <1>2

\* Equal on S, equal sums.
LEMMA SumSame ==
    ASSUME NEW S, IsFiniteSet(S), NEW w, \A s \in S : w[s] \in Int,
           NEW v, \A s \in S : v[s] = w[s]
    PROVE  SumFunctionOnSet(v, S) = SumFunctionOnSet(w, S)
  <1>1. CASE S = {}
    BY <1>1, SumOfZeros
  <1>2. CASE S # {}
    <2>1. PICK r \in S : TRUE
      BY <1>2
    <2>2. /\ SumFunctionOnSet(w, S) \in Int
          /\ SumFunctionOnSet(v, S) = SumFunctionOnSet(w, S) + v[r] - w[r]
      BY <2>1, SumChange
    <2> QED
      BY <2>1, <2>2
  <1> QED
    BY <1>1, <1>2

LEMMA Costs ==
    ASSUME TypeOK
    PROVE  \A r \in Requests : Net(r) \in Int /\ Cost[r] = Net(r)
  BY DEF TypeOK, Net, Cost

LEMMA FiniteOf == ASSUME NEW u PROVE IsFiniteSet(Of(u))
  BY FS_Subset, IdsAssumption DEF Of

\* A request that costs d credits more takes them from its user's balance.
LEMMA Charged ==
    ASSUME TypeOK, TypeOK', CreditsAccountedFor, NEW r \in Requests,
           NEW d \in Int, UNCHANGED <<live, granted>>,
           balance' = [balance EXCEPT ![Owner[r]] = @ - d],
           Net(r)' = Net(r) + d,
           \A s \in Requests \ {r} : paid'[s] = paid[s]
    PROVE  CreditsAccountedFor'
  <1> SUFFICES ASSUME NEW u \in live
               PROVE  balance'[u] = granted[u] - SumFunctionOnSet(Cost', Of(u))
    BY DEF CreditsAccountedFor, Of
  <1>1. /\ u \in Users /\ balance[u] \in Nat /\ granted[u] \in Int
        /\ balance[u] = granted[u] - SumFunctionOnSet(Cost, Of(u))
    BY DEF CreditsAccountedFor, TypeOK
  <1>2. \A s \in Requests : Cost[s] \in Int /\ Cost'[s] \in Int
    BY DEF TypeOK, Net, Cost
  <1>3. /\ Cost'[r] = Cost[r] + d
        /\ \A s \in Requests \ {r} : Cost'[s] = Cost[s]
    BY DEF Cost, Net
  <1>4. IsFiniteSet(Of(u)) /\ Of(u) \subseteq Requests
    BY FiniteOf DEF Of
  <1>5. CASE Owner[r] = u
    <2>1. r \in Of(u)
      BY <1>5 DEF Of
    <2>2. /\ SumFunctionOnSet(Cost, Of(u)) \in Int
          /\ SumFunctionOnSet(Cost', Of(u))
                = SumFunctionOnSet(Cost, Of(u)) + Cost'[r] - Cost[r]
      BY <1>2, <1>3, <1>4, <2>1, SumChange
    <2>3. balance'[u] = balance[u] - d
      BY <1>1, <1>5 DEF TypeOK
    <2> QED
      BY <1>1, <1>2, <1>3, <2>2, <2>3
  <1>6. CASE Owner[r] # u
    <2>1. \A s \in Of(u) : Cost'[s] = Cost[s]
      BY <1>3, <1>6 DEF Of
    <2>2. SumFunctionOnSet(Cost', Of(u)) = SumFunctionOnSet(Cost, Of(u))
      BY <1>2, <1>4, <2>1, SumSame
    <2>3. balance'[u] = balance[u]
      BY <1>1, <1>6 DEF TypeOK
    <2> QED
      BY <1>1, <2>2, <2>3
  <1> QED
    BY <1>5, <1>6

\* The three transactions that move the costs of a request.
Settles(r, d) ==
    /\ UNCHANGED <<live, granted>>
    /\ balance' = [balance EXCEPT ![Owner[r]] = @ - d]
    /\ Net(r)' = Net(r) + d
    /\ \A s \in Requests \ {r} : paid'[s] = paid[s]

LEMMA CommitSettles ==
    ASSUME IInv, NEW r \in Requests, SubmitCommit(r)
    PROVE  Settles(r, BaseCost) /\ paid'[r].refund = 0
  <1>1. row[r] = "none" /\ paid[r] = [base |-> 0, extra |-> 0, refund |-> 0]
    BY DEF SubmitCommit, IInv, Local, SubInv, PaidInv
  <1>2. paid'[r] = Fresh /\ \A s \in Requests \ {r} : paid'[s] = paid[s]
    BY <1>1 DEF SubmitCommit, Fresh, IInv, TypeOK
  <1>3. Net(r)' = Net(r) + BaseCost
    BY <1>1, <1>2 DEF Net, Fresh, BaseCost
  <1>4. /\ balance' = [balance EXCEPT ![Owner[r]] = @ - BaseCost]
        /\ UNCHANGED <<live, granted>>
    BY DEF SubmitCommit
  <1>5. paid'[r].refund = 0
    BY <1>2 DEF Fresh
  <1>6. Settles(r, BaseCost)
    BY <1>2, <1>3, <1>4 DEF Settles
  <1> QED
    BY <1>5, <1>6

LEMMA CompleteSettles ==
    ASSUME IInv, NEW r \in Requests, Complete(r),
           ~UNCHANGED <<balance, paid, row>>
    PROVE  /\ row[r] \in Stored /\ Affords(Owner[r], Extra(r))
           /\ row' = [row EXCEPT ![r] = "completed"]
           /\ Extra(r) \in Int
           /\ Settles(r, Extra(r)) /\ paid'[r].refund = paid[r].refund
  <1>1. /\ row[r] \in Stored /\ Affords(Owner[r], Extra(r))
        /\ balance' = [balance EXCEPT ![Owner[r]] = @ - Extra(r)]
        /\ paid' = [paid EXCEPT ![r].extra = @ + Extra(r)]
        /\ row' = [row EXCEPT ![r] = "completed"]
        /\ UNCHANGED <<live, granted>>
    BY DEF Complete
  <1>2. Extra(r) \in Int
    BY DEF Extra, IInv, TypeOK, ModelCosts, BaseCost
  <1>3. /\ paid[r] \in [base : Nat, extra : Nat, refund : Nat]
        /\ paid'[r] = [base |-> paid[r].base, extra |-> paid[r].extra + Extra(r),
                       refund |-> paid[r].refund]
        /\ \A s \in Requests \ {r} : paid'[s] = paid[s]
    BY <1>1 DEF IInv, TypeOK
  <1>4. Net(r)' = Net(r) + Extra(r)
    BY <1>2, <1>3 DEF Net
  <1> QED
    BY <1>1, <1>2, <1>3, <1>4 DEF Settles

LEMMA FailureSettles ==
    ASSUME IInv, NEW r \in Requests, RecordFailure(r), row[r] \in Stored
    PROVE  /\ row' = [row EXCEPT ![r] = "failed"]
           /\ Refund(r) \in Nat
           /\ Settles(r, -Refund(r))
           /\ paid'[r].refund = paid[r].refund + Refund(r)
  <1>1. /\ balance' = [balance EXCEPT ![Owner[r]] = @ + Refund(r)]
        /\ row' = [row EXCEPT ![r] = "failed"]
        /\ UNCHANGED <<live, granted>>
    BY DEF RecordFailure
  <1>2. Refund(r) \in Nat
    BY DEF Refund, IInv, TypeOK
  <1>3. /\ paid[r] \in [base : Nat, extra : Nat, refund : Nat]
        /\ paid'[r] = [base |-> paid[r].base, extra |-> paid[r].extra,
                       refund |-> paid[r].refund + Refund(r)]
        /\ \A s \in Requests \ {r} : paid'[s] = paid[s]
    BY DEF RecordFailure, IInv, TypeOK
  <1>4. Net(r)' = Net(r) + (-Refund(r))
    BY <1>2, <1>3 DEF Net
  <1>5. balance[Owner[r]] + Refund(r) = balance[Owner[r]] - (-Refund(r))
    BY <1>2, OwnerAssumption DEF IInv, TypeOK
  <1>6. balance' = [balance EXCEPT ![Owner[r]] = @ - (-Refund(r))]
    BY <1>1, <1>5
  <1>7. Settles(r, -Refund(r))
    BY <1>1, <1>3, <1>4, <1>6 DEF Settles
  <1> QED
    BY <1>1, <1>2, <1>3, <1>7

\* Everything else leaves the costs alone; rows go only with their account.
Spares == UNCHANGED <<paid, live, balance, granted>>

LEMMA OtherSteps ==
    ASSUME IInv, [Next]_vars
    PROVE  \/ \E r \in Requests :
                 \/ SubmitCommit(r)
                 \/ WorkerStart(r)
                 \/ Complete(r) /\ ~UNCHANGED <<balance, paid, row>>
                 \/ RecordFailure(r) /\ row[r] \in Stored
           \/ \E u \in Users : TopUp(u) \/ DirectReplace(u) \/ DeleteUser(u)
           \/ Spares /\ UNCHANGED row
  <1>1. CASE UNCHANGED vars
    BY <1>1 DEF vars, Spares
  <1>2. ASSUME NEW r \in Requests,
               \/ SubmitInsert(r) \/ SubmitCharge(r) \/ SubmitDeadlocked(r)
               \/ SubmitEnqueue(r) \/ EnqueueFails(r) \/ SubmitDies(r)
               \/ SoftDelete(r) \/ PickJob(r)
               \/ GenerateOk(r) \/ GenerateFails(r) \/ Finish(r)
               \/ DatabaseFails(r) \/ JobTimeout(r) \/ WorkerCrash(r)
        PROVE  Spares /\ UNCHANGED row
    BY <1>2
    DEF SubmitInsert, SubmitCharge, SubmitDeadlocked, SubmitEnqueue,
        EnqueueFails, SubmitDies, SoftDelete, PickJob, GenerateOk,
        GenerateFails, Finish, DatabaseFails, JobTimeout, WorkerCrash, Spares,
        userVars, rowVars
  <1>3. ASSUME NEW r \in Requests, Complete(r), UNCHANGED <<balance, paid, row>>
        PROVE  Spares
    BY <1>3 DEF Complete, Spares
  <1>4. ASSUME NEW r \in Requests, RecordFailure(r), row[r] \notin Stored
        PROVE  Spares /\ UNCHANGED row
    BY <1>4 DEF RecordFailure, Spares
  <1> QED
    BY <1>1, <1>2, <1>3, <1>4
    DEF Next, SubmitStep, WorkerStep, Fault

LEMMA InitCredits == Init => CreditsAccountedFor
  <1> SUFFICES ASSUME Init, NEW u \in live
               PROVE  balance[u] = granted[u] - SumFunctionOnSet(Cost, Of(u))
    BY DEF CreditsAccountedFor
  <1>1. \A s \in Of(u) : Cost[s] = 0
    BY DEF Init, Cost, Net, Of
  <1>2. SumFunctionOnSet(Cost, Of(u)) = 0
    BY <1>1, FiniteOf, SumOfZeros
  <1> QED
    BY <1>2, CreditsAssumption DEF Init

LEMMA NextCredits ==
    IInv /\ CreditsAccountedFor /\ [Next]_vars => CreditsAccountedFor'
  <1> SUFFICES ASSUME IInv, CreditsAccountedFor, [Next]_vars
               PROVE  CreditsAccountedFor'
    OBVIOUS
  <1>1. TypeOK /\ TypeOK'
    BY NextIInv DEF IInv
  <1>2. ASSUME NEW r \in Requests, NEW d \in Int, Settles(r, d)
        PROVE  CreditsAccountedFor'
    BY <1>1, <1>2, Charged DEF Settles
  <1>3. ASSUME NEW r \in Requests, SubmitCommit(r) PROVE CreditsAccountedFor'
    BY <1>2, <1>3, CommitSettles DEF BaseCost
  <1>4. ASSUME NEW r \in Requests, Complete(r),
               ~UNCHANGED <<balance, paid, row>>
        PROVE  CreditsAccountedFor'
    BY <1>2, <1>4, CompleteSettles
  <1>5. ASSUME NEW r \in Requests, RecordFailure(r), row[r] \in Stored
        PROVE  CreditsAccountedFor'
    <2>1. -Refund(r) \in Int
      BY <1>5, FailureSettles
    <2> QED
      BY <2>1, <1>2, <1>5, FailureSettles
  <1>6. CASE UNCHANGED <<paid, live, balance, granted>>
    BY <1>6 DEF CreditsAccountedFor, Cost, Net
  <1>7. ASSUME NEW r \in Requests, WorkerStart(r) PROVE CreditsAccountedFor'
    BY <1>6, <1>7 DEF WorkerStart, userVars
  <1>8. ASSUME NEW u \in Users, TopUp(u) \/ DirectReplace(u) \/ DeleteUser(u)
        PROVE  CreditsAccountedFor'
    <2> SUFFICES ASSUME NEW v \in live'
                 PROVE  balance'[v] = granted'[v] - SumFunctionOnSet(Cost', Of(v))
      BY DEF CreditsAccountedFor, Of
    <2>1. paid' = paid /\ v \in live /\ v \in Users
      BY <1>8, <1>1
      DEF TopUp, DirectReplace, DeleteUser, rowVars, TypeOK
    <2>2. /\ balance[v] = granted[v] - SumFunctionOnSet(Cost, Of(v))
          /\ Cost' = Cost
      BY <2>1 DEF CreditsAccountedFor, Cost, Net
    <2>3. SumFunctionOnSet(Cost, Of(v)) \in Int
      <3>1. \A s \in Of(v) : Cost[s] \in Int
        BY <1>1, Costs DEF Of
      <3> QED
        BY <3>1, FiniteOf, SumType
    <2>4. balance[v] \in Int /\ granted[v] \in Int
      BY <1>1, <2>1 DEF TypeOK
    <2>5. PICK d \in Int : /\ balance'[v] = balance[v] + d
                           /\ granted'[v] = granted[v] + d
      <3>1. CASE TopUp(u)
        <4>1. \/ /\ balance'[v] = balance[v] + TopUpCredits
                 /\ granted'[v] = granted[v] + TopUpCredits
              \/ balance'[v] = balance[v] + 0 /\ granted'[v] = granted[v] + 0
          BY <3>1, <1>1, <2>1, <2>4 DEF TopUp, TypeOK
        <4> QED
          BY <4>1, CreditsAssumption
      <3>2. CASE DirectReplace(u)
        <4>1. \/ /\ balance'[v] = balance[v] + (-25)
                 /\ granted'[v] = granted[v] + (-25)
              \/ balance'[v] = balance[v] + 0 /\ granted'[v] = granted[v] + 0
          BY <3>2, <1>1, <2>1, <2>4 DEF DirectReplace, TypeOK, BaseCost
        <4> QED
          BY <4>1
      <3>3. CASE DeleteUser(u)
        <4>1. balance'[v] = balance[v] + 0 /\ granted'[v] = granted[v] + 0
          BY <3>3, <1>1, <2>1, <2>4 DEF DeleteUser, TypeOK
        <4> QED
          BY <4>1
      <3> QED
        BY <1>8, <3>1, <3>2, <3>3
    <2> QED
      BY <2>2, <2>3, <2>4, <2>5
  <1> QED
    BY <1>3, <1>4, <1>5, <1>6, <1>7, <1>8, OtherSteps DEF Spares

-----------------------------------------------------------------------------
(***************************************************************************)
(* Every step is a step of PaidRequests, or none.                          *)
(***************************************************************************)

Refunded == {r \in Requests : paid[r].refund > 0}

StateOf(r) ==
    /\ row[r] = "none" => State[r] = "new"
    /\ row[r] \in {"queued", "processing"} => State[r] = "open"
    /\ row[r] = "completed" => State[r] = "delivered"
    /\ row[r] = "failed" => State[r] = "failed"
    /\ row[r] = "gone" => State[r] = "gone"

LEMMA States ==
    ASSUME NEW r \in Requests
    PROVE  StateOf(r) /\ StateOf(r)'
  <1>1. StateOf(r)
    BY DEF StateOf, State
  <1>2. StateOf(r)'
    BY DEF StateOf, State
  <1> QED
    BY <1>1, <1>2

\* One row moves, one state moves.
LEMMA StateMoves ==
    ASSUME TypeOK, TypeOK', NEW r \in Requests, NEW status,
           row' = [row EXCEPT ![r] = status]
    PROVE  State' = [State EXCEPT ![r] = State'[r]]
  <1>1. \A s \in Requests \ {r} : row'[s] = row[s]
    BY DEF TypeOK
  <1>2. \A s \in Requests \ {r} : State'[s] = State[s]
    BY <1>1 DEF State
  <1>3. /\ State = [s \in Requests |-> State[s]]
        /\ State' = [s \in Requests |-> State'[s]]
    BY DEF State
  <1> QED
    BY <1>2, <1>3

\* What the account pays is what the request costs more.
LEMMA SettlesPays ==
    ASSUME TypeOK, NEW r \in Requests, NEW d \in Int, Settles(r, d),
           Owner[r] \in live, balance[Owner[r]] >= d
    PROVE  Book!Pays(r, d)
  <1>1. Cost = [s \in Requests |-> Net(s)] /\ Cost' = [s \in Requests |-> Net(s)']
    BY DEF Cost
  <1>2. \A s \in Requests \ {r} : Net(s)' = Net(s)
    BY DEF Settles, Net
  <1>3. Net(r)' = Net(r) + d
    BY DEF Settles
  <1>4. Cost' = [Cost EXCEPT ![r] = @ + d]
    BY <1>1, <1>2, <1>3
  <1> QED
    BY <1>4 DEF Settles, Book!Pays

\* The refund of r decides whether it is among the refunded.
LEMMA RefundMoves ==
    ASSUME NEW r \in Requests, \A s \in Requests \ {r} : paid'[s] = paid[s]
    PROVE  /\ (paid'[r].refund > 0) = (paid[r].refund > 0) => Refunded' = Refunded
           /\ paid'[r].refund > 0 => Refunded' = Refunded \cup {r}
  BY DEF Refunded

LEMMA SubmitRefines ==
    ASSUME IInv, IInv', OwnersInv, NEW r \in Requests, SubmitCommit(r)
    PROVE  Book!Submit(r)
  <1>1. /\ sub[r] = "enqueued" /\ row[r] = "none"
        /\ paid[r] = [base |-> 0, extra |-> 0, refund |-> 0]
    BY DEF SubmitCommit, IInv, Local, SubInv, PaidInv
  <1>2. row' = [row EXCEPT ![r] = "queued"] /\ live' = live
    BY DEF SubmitCommit
  <1>3. Owner[r] \in live /\ balance[Owner[r]] >= BaseCost
    BY <1>1 DEF OwnersInv, OwnInv, IInv, LockInv
  <1>4. Settles(r, BaseCost) /\ paid'[r].refund = 0
    BY CommitSettles
  <1>5. Book!Pays(r, BaseCost)
    BY <1>3, <1>4, SettlesPays DEF IInv, BaseCost
  <1>6. Book!Moves(r, {"new"}, "open")
    <2>1. row'[r] = "queued"
      BY <1>2 DEF IInv, TypeOK
    <2>2. State'[r] = "open"
      BY <2>1, States DEF StateOf, IInv
    <2>3. State[r] = "new"
      BY <1>1, States DEF StateOf, IInv
    <2> QED
      BY <1>2, <2>2, <2>3, StateMoves DEF IInv, Book!Moves
  <1>7. Refunded' = Refunded
    <2>1. paid[r].refund = 0
      BY <1>1
    <2> QED
      BY <1>4, <2>1, RefundMoves DEF Settles
  <1> QED
    BY <1>2, <1>5, <1>6, <1>7 DEF Book!Submit, Refunded

LEMMA CompleteRefines ==
    ASSUME IInv, IInv', OwnersInv, NEW r \in Requests, Complete(r),
           ~UNCHANGED <<balance, paid, row>>
    PROVE  Book!Deliver(r)
  <1>1. /\ row[r] \in Stored /\ Affords(Owner[r], Extra(r))
        /\ row' = [row EXCEPT ![r] = "completed"]
        /\ Extra(r) \in Int
        /\ Settles(r, Extra(r)) /\ paid'[r].refund = paid[r].refund
    BY CompleteSettles
  <1>2. row[r] = "processing" /\ Owner[r] \in live
        /\ (r \notin Designs => made[r] = BaseCost)
    BY <1>1 DEF Complete, OwnersInv, OwnInv, Busy, Stored
  <1>3. made[r] \in ModelCosts
    BY DEF Complete, IInv, Local, JobInv
  <1>4. made[r] \in (IF r \in Designs THEN ModelCosts ELSE {BaseCost})
    BY <1>2, <1>3
  <1>5. Book!Pays(r, made[r] - BaseCost)
    BY <1>1, <1>2, SettlesPays DEF IInv, Affords, Extra
  <1>6. Book!Moves(r, {"open"}, "delivered")
    <2>1. row'[r] = "completed"
      BY <1>1 DEF IInv, TypeOK
    <2>2. State'[r] = "delivered"
      BY <2>1, States DEF StateOf, IInv
    <2>3. State[r] = "open"
      BY <1>2, States DEF StateOf, IInv
    <2> QED
      BY <1>1, <2>2, <2>3, StateMoves DEF IInv, Book!Moves
  <1>7. Refunded' = Refunded
    BY <1>1, RefundMoves DEF Settles
  <1>8. live' = live
    BY <1>1 DEF Settles
  <1> QED
    BY <1>4, <1>5, <1>6, <1>7, <1>8 DEF Book!Deliver, Refunded

LEMMA FailureRefines ==
    ASSUME IInv, IInv', OwnersInv, NEW r \in Requests, RecordFailure(r),
           row[r] \in Stored
    PROVE  Book!Fail(r)
  <1>1. /\ row' = [row EXCEPT ![r] = "failed"]
        /\ Refund(r) \in Nat
        /\ Settles(r, -Refund(r))
        /\ paid'[r].refund = paid[r].refund + Refund(r)
    BY FailureSettles
  <1>2. /\ row[r] = "processing" /\ Owner[r] \in live /\ paid[r].base = BaseCost
        /\ Owner[r] \in Users /\ balance[Owner[r]] \in Nat
        /\ paid[r].refund \in Nat
    BY OwnerAssumption
    DEF RecordFailure, OwnersInv, OwnInv, Busy, Stored, IInv, TypeOK
  <1>3. Book!Moves(r, {"open"}, "failed")
    <2>1. row'[r] = "failed"
      BY <1>1 DEF IInv, TypeOK
    <2>2. State'[r] = "failed"
      BY <2>1, States DEF StateOf, IInv
    <2>3. State[r] = "open"
      BY <1>2, States DEF StateOf, IInv
    <2> QED
      BY <1>1, <2>2, <2>3, StateMoves DEF IInv, Book!Moves
  <1>4. live' = live /\ \A s \in Requests \ {r} : paid'[s] = paid[s]
    BY <1>1 DEF Settles
  <1>5. CASE r \in Designs \ Refunded
    <2>1. Refund(r) = BaseCost
      BY <1>2, <1>5 DEF Refund, Refunded
    <2>2. -BaseCost \in Int /\ balance[Owner[r]] >= -BaseCost
      BY <1>2 DEF BaseCost
    <2>3. Book!Pays(r, -BaseCost)
      BY <1>1, <1>2, <2>1, <2>2, SettlesPays DEF IInv
    <2>4. paid'[r].refund > 0
      BY <1>1, <1>2, <2>1 DEF BaseCost
    <2>5. Refunded' = Refunded \cup {r}
      BY <1>4, <2>4, RefundMoves
    <2> QED
      BY <1>3, <1>4, <1>5, <2>3, <2>5 DEF Book!Fail, Refunded
  <1>6. CASE r \notin Designs \ Refunded
    <2>1. Refund(r) = 0
      BY <1>2, <1>6 DEF Refund, Refunded
    <2>2. UNCHANGED <<balance, Cost>> /\ paid'[r].refund = paid[r].refund
      <3>1. balance' = balance
        <4>1. balance' = [balance EXCEPT ![Owner[r]] = @ + Refund(r)]
          BY DEF RecordFailure
        <4> QED
          BY <1>2, <2>1, <4>1 DEF IInv, TypeOK
      <3>2. paid'[r] = [base |-> paid[r].base, extra |-> paid[r].extra,
                        refund |-> paid[r].refund + Refund(r)]
        BY DEF RecordFailure, IInv, TypeOK
      <3>3. Net(r)' = Net(r) /\ paid'[r].refund = paid[r].refund
        BY <2>1, <3>2 DEF Net, IInv, TypeOK
      <3>4. Cost' = Cost
        BY <1>4, <3>3 DEF Cost, Net
      <3> QED
        BY <3>1, <3>3, <3>4
    <2>3. Refunded' = Refunded
      BY <1>4, <2>2, RefundMoves
    <2> QED
      BY <1>3, <1>4, <1>6, <2>2, <2>3 DEF Book!Fail, Refunded
  <1> QED
    BY <1>5, <1>6

\* Only a job that a crash gave back to the queue finds a settled request.
LEMMA StartRefines ==
    ASSUME IInv, IInv', OwnersInv, NEW r \in Requests, WorkerStart(r)
    PROVE  Book!Reopen(r) \/ UNCHANGED <<live, balance, State, Cost, Refunded>>
  <1>1. UNCHANGED <<live, balance, paid>>
    BY DEF WorkerStart, userVars
  <1>2. UNCHANGED <<Cost, Refunded>>
    BY <1>1 DEF Cost, Net, Refunded
  <1>3. CASE row[r] \notin Stored
    BY <1>1, <1>2, <1>3 DEF WorkerStart, State
  <1>4. CASE row[r] \in Stored
    <2>1. row' = [row EXCEPT ![r] = "processing"] /\ wpc[r] = "starting"
      BY <1>4 DEF WorkerStart
    <2>2. row'[r] = "processing"
      BY <2>1 DEF IInv, TypeOK
    <2>3. State'[r] = "open" /\ State' = [State EXCEPT ![r] = State'[r]]
      BY <2>1, <2>2, States, StateMoves DEF StateOf, IInv
    <2>4. CASE row[r] \in {"queued", "processing"}
      <3>1. State[r] = "open" /\ State = [s \in Requests |-> State[s]]
        BY <2>4, States DEF StateOf, IInv, State
      <3>2. State' = State
        BY <2>3, <3>1
      <3> QED
        BY <1>1, <1>2, <3>2
    <2>5. CASE row[r] \in {"completed", "failed"}
      <3>1. "crash" \in Faults
        <4>1. "crash" \notin Faults => tries[r] <= 1
          BY DEF OwnersInv, OwnInv
        <4>3. tries[r] \in Nat
          BY MaxTriesAssumption DEF IInv, TypeOK
        <4>2. tries[r] # 0 /\ tries[r] # 1
          BY <2>1, <2>5 DEF IInv, Local, PaidInv
        <4> QED
          BY <4>1, <4>2, <4>3
      <3>2. State[r] \in {"delivered", "failed"}
        BY <2>5, States DEF StateOf, IInv
      <3> QED
        BY <1>1, <1>2, <2>3, <3>1, <3>2
        DEF Book!Reopen, Book!Moves, Refunded
    <2> QED
      BY <1>4, <2>4, <2>5 DEF Stored
  <1> QED
    BY <1>3, <1>4

LEMMA AccountRefines ==
    ASSUME IInv, NEW u \in Users, TopUp(u) \/ DirectReplace(u) \/ DeleteUser(u)
    PROVE  \/ Book!Close(u)
           \/ \E delta \in {TopUpCredits, -BaseCost} : Book!Post(u, delta)
  <1>1. paid' = paid
    BY DEF TopUp, DirectReplace, DeleteUser, rowVars
  <1>2. UNCHANGED <<Cost, Refunded>>
    BY <1>1 DEF Cost, Net, Refunded
  <1>3. balance[u] \in Nat
    BY DEF IInv, TypeOK
  <1>4. CASE TopUp(u)
    <2>1. balance[u] + TopUpCredits >= 0
      BY <1>3, CreditsAssumption
    <2>2. State' = State
      BY <1>4 DEF TopUp, rowVars, State
    <2> QED
      BY <1>2, <1>4, <2>1, <2>2 DEF TopUp, Book!Post, Refunded
  <1>5. CASE DirectReplace(u)
    <2>1. /\ balance[u] + (-BaseCost) >= 0
          /\ balance[u] - BaseCost = balance[u] + (-BaseCost)
      BY <1>3, <1>5 DEF DirectReplace, Affords, BaseCost
    <2>2. State' = State
      BY <1>5 DEF DirectReplace, rowVars, State
    <2>3. balance' = [balance EXCEPT ![u] = @ + (-BaseCost)]
      BY <1>5, <2>1 DEF DirectReplace
    <2> QED
      BY <1>2, <1>5, <2>1, <2>2, <2>3 DEF DirectReplace, Book!Post, Refunded
  <1>6. CASE DeleteUser(u)
    <2>1. row' = [r \in Requests |->
                    IF Owner[r] = u /\ row[r] \in Stored THEN "gone" ELSE row[r]]
      BY <1>6 DEF DeleteUser
    <2>2. TypeOK'
      BY <1>6, DeleteInv DEF IInv
    <2>3. ASSUME NEW r \in Requests
          PROVE  State'[r] = IF Owner[r] = u /\ State[r] # "new" THEN "gone"
                             ELSE State[r]
      <3>1. row[r] \in RowStates
        BY DEF IInv, TypeOK
      <3>2. CASE Owner[r] = u /\ row[r] \in Stored
        <4>1. row'[r] = "gone"
          BY <2>1, <3>2
        <4>2. State'[r] = "gone"
          BY <2>2, <4>1, States DEF StateOf
        <4>3. State[r] # "new"
          BY <3>2, States DEF StateOf, IInv, Stored
        <4> QED
          BY <3>2, <4>2, <4>3
      <3>3. CASE ~(Owner[r] = u /\ row[r] \in Stored)
        <4>1. row'[r] = row[r]
          BY <2>1, <3>3
        <4>2. State'[r] = State[r]
          BY <4>1 DEF State
        <4>3. Owner[r] = u => State[r] \in {"new", "gone"}
          BY <3>1, <3>3, States DEF StateOf, IInv, Stored, RowStates
        <4> QED
          BY <4>2, <4>3
      <3> QED
        BY <3>2, <3>3
    <2>4. State' = [r \in Requests |->
                      IF Owner[r] = u /\ State[r] # "new" THEN "gone" ELSE State[r]]
      <3>1. State' = [r \in Requests |-> State'[r]]
        BY DEF State
      <3> QED
        BY <2>3, <3>1
    <2> QED
      BY <1>2, <1>6, <2>4
      DEF DeleteUser, Book!Close, Book!Requests, Requests, Refunded
  <1> QED
    BY <1>4, <1>5, <1>6

LEMMA InitRefines == Init => Book!Init
  <1> SUFFICES ASSUME Init PROVE Book!Init
    OBVIOUS
  <1>1. State = [r \in Requests |-> "new"]
    BY DEF Init, State
  <1>2. Cost = [r \in Requests |-> 0]
    BY DEF Init, Cost, Net
  <1>3. Refunded = {}
    BY DEF Init, Refunded
  <1> QED
    BY <1>1, <1>2, <1>3 DEF Init, Book!Init, Book!Requests, Requests, Refunded

LEMMA NextRefines ==
    IInv /\ OwnersInv /\ [Next]_vars => [Book!Next]_(Book!requestVars)
  <1> SUFFICES ASSUME IInv, OwnersInv, [Next]_vars,
                      ~UNCHANGED <<live, balance, State, Cost, Refunded>>
               PROVE  Book!Next
    BY DEF Book!requestVars, Refunded
  <1>1. IInv'
    BY NextIInv
  <1>2. ASSUME NEW r \in Requests,
               \/ SubmitCommit(r)
               \/ WorkerStart(r)
               \/ Complete(r) /\ ~UNCHANGED <<balance, paid, row>>
               \/ RecordFailure(r) /\ row[r] \in Stored
        PROVE  Book!Next
    <2>1. Book!Submit(r) \/ Book!Deliver(r) \/ Book!Fail(r) \/ Book!Reopen(r)
      BY <1>1, <1>2, SubmitRefines, StartRefines, CompleteRefines, FailureRefines
    <2> QED
      BY <2>1 DEF Book!Next, Book!Requests, Requests
  <1>3. ASSUME NEW u \in Users, TopUp(u) \/ DirectReplace(u) \/ DeleteUser(u)
        PROVE  Book!Next
    BY <1>3, AccountRefines DEF Book!Next
  <1>4. CASE Spares /\ UNCHANGED row
    BY <1>4 DEF Spares, State, Cost, Net, Refunded
  <1> QED
    BY <1>2, <1>3, <1>4, OtherSteps

-----------------------------------------------------------------------------
(***************************************************************************)
(* The theorems.                                                           *)
(***************************************************************************)

\* Every variable keeps its type; no balance is ever negative.
THEOREM TypeCorrect == Spec => []TypeOK
  BY Invariance, PTL DEF IInv

\* A failed design has its charge back exactly once, however often its job was
\* delivered and wherever its runs were cut off.
THEOREM RefundedOnce == Spec => []FailuresRefundedOnce
  <1>1. IInv => FailuresRefundedOnce
    BY DEF IInv, Local, PaidInv, FailuresRefundedOnce
  <1> QED
    BY <1>1, Invariance, PTL

\* A job that ran to its end leaves no request behind that is still waiting.
THEOREM FinishedSettles == Spec => []FinishedJobSettled
  <1>1. IInv => FinishedJobSettled
    BY DEF IInv, Local, JobInv, FinishedJobSettled
  <1> QED
    BY <1>1, Invariance, PTL

\* A charged request that is neither delivered nor failed is one that a job
\* will work on, or that the worker looked for too early, or whose run met an
\* error outside its handlers, a cancellation or one death too many.
THEOREM UnsettledRequests == Spec => []UnsettledExplained
  <1>1. IInv /\ OwnersInv => UnsettledExplained
    <2> SUFFICES ASSUME IInv, OwnersInv, NEW r \in Requests,
                        row[r] \in {"queued", "processing"}
                 PROVE  \/ job[r] \in {"queued", "running"}
                        \/ job[r] = "missing" /\ row[r] = "queued"
                        \/ job[r] = "broken" /\ "database" \in Faults
                        \/ job[r] = "timedout" /\ "timeout" \in Faults
                        \/ job[r] = "exhausted" /\ "crash" \in Faults
      BY DEF UnsettledExplained
    <2>1. job[r] \notin {"none", "finished"}
      BY DEF IInv, Local, JobInv, PaidInv
    <2>2. job[r] \in JobStates /\ CutInv(r)
      BY DEF IInv, TypeOK, OwnersInv, OwnInv
    <2> QED
      BY <2>1, <2>2 DEF JobStates, CutInv
  <1> QED
    BY <1>1, Invariance, Owners, PTL

\* The image a first run delivers costs what its model costs.
THEOREM FirstRunCost == Spec => []FirstRunCostsItsModel
  <1>1. IInv => FirstRunCostsItsModel
    BY DEF IInv, Local, PaidInv, FirstRunCostsItsModel
  <1> QED
    BY <1>1, Invariance, PTL

\* Only a redelivered job, or the account's deletion, takes a completed or
\* failed request out of its status.
THEOREM SettledUntilRedelivery == Spec => SettledStays
  <1> DEFINE Stays == \A r \in Requests :
                 row[r] \in {"completed", "failed"} /\ tries'[r] = 1
                     => row'[r] \in {row[r], "gone"}
  <1>1. ASSUME IInv, [Next]_vars
        PROVE  Stays
    <2> SUFFICES ASSUME NEW q \in Requests, row[q] \in {"completed", "failed"},
                        tries'[q] = 1
                 PROVE  row'[q] \in {row[q], "gone"}
      OBVIOUS
    <2>1. Local(q) /\ row \in [Requests -> RowStates]
            /\ tries \in [Requests -> 0..MaxTries]
      BY <1>1 DEF IInv, TypeOK
    <2>2. ASSUME NEW r \in Requests, SubmitCommit(r)
          PROVE  row'[q] = row[q]
      BY <2>1, <2>2 DEF SubmitCommit, Local, SubInv
    <2>3. ASSUME NEW r \in Requests, WorkerStart(r)
          PROVE  row'[q] = row[q]
      BY <2>1, <2>3, MaxTriesAssumption DEF WorkerStart, Local, PaidInv
    <2>4. ASSUME NEW r \in Requests, Complete(r) \/ RecordFailure(r)
          PROVE  row'[q] = row[q]
      BY <2>1, <2>4 DEF Complete, RecordFailure, Local, PaidInv, Busy
    <2>5. ASSUME NEW u \in Users, DeleteUser(u)
          PROVE  row'[q] \in {row[q], "gone"}
      BY <2>5 DEF DeleteUser
    <2>6. CASE UNCHANGED row
      BY <2>6
    <2>7. \/ \E r \in Requests : \/ SubmitCommit(r) \/ WorkerStart(r)
                                 \/ Complete(r) \/ RecordFailure(r)
          \/ \E u \in Users : DeleteUser(u)
          \/ UNCHANGED row
      BY <1>1
      DEF Next, vars, rowVars, SubmitStep, WorkerStep, Fault, SubmitInsert,
          SubmitCharge, SubmitDeadlocked, SubmitEnqueue, EnqueueFails,
          SubmitDies, SoftDelete, PickJob, GenerateOk, GenerateFails, Finish,
          DatabaseFails, JobTimeout, WorkerCrash, TopUp, DirectReplace
    <2> QED
      BY <2>2, <2>3, <2>4, <2>5, <2>6, <2>7
  <1>2. Spec => [][Stays]_vars
    BY <1>1, Invariance, PTL DEF Spec
  <1> QED
    BY <1>2 DEF SettledStays

\* Whatever interleaves, fails or is delivered twice, an account holds what it
\* was granted less what its requests cost, refunds deducted.
THEOREM CreditsConserved == Spec => []CreditsAccountedFor
  BY InitCredits, NextCredits, Invariance, InitIInv, PTL DEF Spec

\* Endpoints, queue and worker together implement the request that is paid,
\* delivered, failed and refunded in single steps.
THEOREM Implements == Spec => RequestSpec
  BY InitRefines, NextRefines, Invariance, Owners, PTL
  DEF Spec, RequestSpec, Book!Spec

\* Where no worker dies, every image costs what its model costs, although it
\* does not in general (MCDesignRequestsRedelivery.cfg).
THEOREM CostsWithoutCrashes ==
    "crash" \notin Faults => (Spec => []ImageCostsItsModel)
  <1> SUFFICES ASSUME "crash" \notin Faults PROVE Spec => []ImageCostsItsModel
    OBVIOUS
  <1>1. IInv /\ OwnersInv => ImageCostsItsModel
    <2> SUFFICES ASSUME IInv, OwnersInv, NEW r \in Requests,
                        row[r] = "completed"
                 PROVE  Net(r) = image[r]
      BY DEF ImageCostsItsModel
    <2>1. tries[r] \in Nat /\ tries[r] <= 1 /\ tries[r] # 0
      BY MaxTriesAssumption DEF IInv, TypeOK, Local, PaidInv, OwnersInv, OwnInv
    <2>2. tries[r] = 1
      BY <2>1
    <2> QED
      BY <2>2 DEF IInv, Local, PaidInv
  <1> QED
    BY <1>1, Invariance, Owners, PTL
=============================================================================
