----------------------------- MODULE UserFilesProofs -----------------------------
(***************************************************************************)
(* Proofs about UserFiles, for any keys, uploads, jobs and models, and any *)
(* number of failures.                                                     *)
(***************************************************************************)
EXTENDS UserFiles, TLAPS

-----------------------------------------------------------------------------
(***************************************************************************)
(* The inductive invariant.                                                *)
(***************************************************************************)

\* From its download on, until it ends, a job accounts for its input file.
Holding == {"generate", "higgsfield", "waiting", "finish"}

\* A job accounts for a file with its input's name.
Accounts(j) ==
    \/ pc[j] \in Holding
    \/ j \in Replacements /\ pc[j] \in {"returning", "ended"}
    \/ j \in kept
    \/ j \in stopped

FileInv == \A f \in files : \E j \in Jobs : Input[j] = f /\ Accounts(j)

\* A process was started by a job that waits for it or was cancelled, and only
\* a job that was stopped has a download nobody waits for.
ProcessInv ==
    /\ \A j \in spawned : pc[j] = "waiting" \/ j \in orphans
    /\ \A j \in Jobs : pc[j] = "stray" => j \in stopped
    /\ \A j \in Jobs : pc[j] = "generate" => left[j] > 0
    /\ \A j \in Jobs : pc[j] \in {"higgsfield", "waiting"} => j \in Designs

\* A design with the input of j has returned and removed the file.
Removed(j) ==
    \E k \in Designs \ {j} :
        Input[k] = Input[j] /\ pc[k] \in {"returning", "ended"} /\ k \notin kept

\* What is in the queue may still be run.
TriesInv ==
    /\ \A j \in Jobs : pc[j] \in {"none", "queued"} => tries[j] < MaxTries
    /\ cleanup \in {"none", "enqueue", "queued"} => cleanups < MaxTries

\* Nothing is left to delete when a prefix is listed.
ListInv == cleanup = "list" => todo = {}

IInv ==
    TypeOK /\ TriesInv /\ ListInv /\ FileInv /\ ProcessInv /\ LossExplained

LEMMA InitIInv == Init => IInv
  <1> SUFFICES ASSUME Init PROVE IInv
    OBVIOUS
  <1>1. TypeOK
    <2>1. Shared \subseteq Keys /\ Models \in Nat /\ MaxFaults \in Nat
          /\ MaxTries \in Nat \ {0}
      BY KeysAssumption, JobsAssumption, FaultsAssumption
    <2>2. gaps \in BOOLEAN
      BY DEF Init
    <2>3. /\ pc \in [Jobs -> JobStates] /\ left \in [Jobs -> 0..(Models + 1)]
          /\ tries \in [Jobs -> 0..MaxTries]
      BY <2>1 DEF Init, JobStates
    <2> QED
      BY <2>1, <2>2, <2>3 DEF Init, TypeOK, CleanupStates
  <1>2. TriesInv /\ ListInv /\ FileInv /\ ProcessInv /\ LossExplained
    BY FaultsAssumption
    DEF Init, TriesInv, ListInv, FileInv, ProcessInv, LossExplained
  <1> QED
    BY <1>1, <1>2 DEF IInv

-----------------------------------------------------------------------------
(***************************************************************************)
(* Steps of the API and of cleanup leave the jobs alone, and remove files  *)
(* only of a deleted account.                                              *)
(***************************************************************************)

Quiet ==
    /\ UNCHANGED jobVars
    /\ files' \subseteq files
    /\ account' = "live" => account = "live" /\ files' = files

LEMMA QuietInv ==
    ASSUME IInv, TypeOK', TriesInv', ListInv', Quiet
    PROVE  IInv'
  <1> USE DEF Quiet
  <1>1. FileInv'
    BY DEF IInv, FileInv, Accounts, jobVars
  <1>2. ProcessInv'
    BY DEF IInv, ProcessInv, jobVars
  <1>3. LossExplained'
    BY DEF IInv, LossExplained, jobVars
  <1> QED
    BY <1>1, <1>2, <1>3 DEF IInv

LEMMA ApiInv ==
    ASSUME IInv,
           \/ \E u \in Uploads : Upload(u) \/ CreateUpload(u) \/ Put(u)
           \/ DeleteAccount \/ Enqueue \/ EnqueueFails
    PROVE  IInv'
  <1>1. ASSUME NEW u \in Uploads, Upload(u) \/ CreateUpload(u) \/ Put(u)
        PROVE  TypeOK' /\ TriesInv' /\ ListInv' /\ Quiet
    <2>1. KeyOf[u] \in Keys /\ KeyOf[u] \notin Shared
      BY KeysAssumption
    <2> QED
      BY <1>1, <2>1
      DEF Upload, CreateUpload, Put, IInv, TypeOK, TriesInv, ListInv,
          jobVars, cleanupVars, Quiet
  <1>2. CASE DeleteAccount
    BY <1>2, QuietInv
    DEF DeleteAccount, IInv, TypeOK, TriesInv, ListInv, jobVars, CleanupStates, Quiet
  <1>3. CASE Enqueue
    BY <1>3, QuietInv
    DEF Enqueue, IInv, TypeOK, TriesInv, ListInv, jobVars, CleanupStates, Quiet
  <1>4. CASE EnqueueFails
    BY <1>4, QuietInv, FaultsAssumption
    DEF EnqueueFails, IInv, TypeOK, TriesInv, ListInv, jobVars, CleanupStates, CanFail,
        Quiet
  <1> QED
    BY <1>1, <1>2, <1>3, <1>4, QuietInv

LEMMA NextPrefixFacts ==
    ASSUME IInv, NextPrefix, cleanup # "none", todo' = {}
    PROVE  /\ prefix' \in {1, 2}
           /\ cleanup' \in {"list", "rmtree"}
           /\ todo' \subseteq Under(prefix')
  BY DEF IInv, TypeOK, NextPrefix, Prefixes

LEMMA CleanupInv ==
    ASSUME IInv,
           \/ CleanupStep \/ ListFails \/ DeleteFails \/ RemoveFails
           \/ CleanupTimeout
    PROVE  IInv'
  <1> USE DEF IInv, TypeOK, TriesInv, ListInv, CleanupStates, Quiet, CanFail
  <1>1. CASE CleanupStart
    BY <1>1, QuietInv, FaultsAssumption DEF CleanupStart, jobVars
  <1>2. CASE List
    BY <1>2, QuietInv DEF List, jobVars
  <1>3. CASE DeleteNext
    BY <1>3, QuietInv DEF DeleteNext, jobVars
  <1>4. CASE PrefixDone
    BY <1>4, NextPrefixFacts, QuietInv DEF PrefixDone, jobVars
  <1>5. CASE RemoveDirectory
    BY <1>5, QuietInv DEF RemoveDirectory, jobVars
  <1>6. CASE ListFails
    BY <1>6, NextPrefixFacts, QuietInv, FaultsAssumption
    DEF ListFails, jobVars
  <1>7. CASE DeleteFails
    BY <1>7, QuietInv, FaultsAssumption DEF DeleteFails, jobVars
  <1>8. CASE RemoveFails
    BY <1>8, QuietInv, FaultsAssumption DEF RemoveFails, jobVars
  <1>9. CASE CleanupTimeout
    BY <1>9, QuietInv, FaultsAssumption
    DEF CleanupTimeout, Cleaning, jobVars
  <1> QED
    BY <1>1, <1>2, <1>3, <1>4, <1>5, <1>6, <1>7, <1>8, <1>9 DEF CleanupStep

-----------------------------------------------------------------------------
(***************************************************************************)
(* Steps of one job.                                                       *)
(***************************************************************************)

\* What every step of a job keeps to: it adds its own input and accounts for
\* it, removes it only as a design that returns, and stays where it returned.
Keeps(j) ==
    /\ UNCHANGED <<account, cleanup, cleanups, todo>>
    /\ \A k \in Jobs \ {j} :
          /\ pc'[k] = pc[k] /\ tries'[k] = tries[k]
          /\ k \in kept => k \in kept'
          /\ k \in kept' => k \in kept
    /\ pc'[j] \in {"none", "queued"} =>
          tries'[j] = tries[j] /\ pc[j] \in {"none", "queued"}
    /\ pc[j] \in {"returning", "ended"} =>
          pc'[j] \in {"returning", "ended"} /\ kept' = kept
    /\ stopped \subseteq stopped'
    /\ files' \subseteq files \cup {Input[j]}
    /\ Input[j] \in files' => Accounts(j)' \/ (Input[j] \in files /\ ~Accounts(j))
    /\ files' # files /\ ~(files \subseteq files') =>
          /\ j \in Designs /\ j \notin kept' /\ pc'[j] = "returning"
          /\ files' = files \ {Input[j]}
    /\ pc'[j] \in {"generate", "higgsfield", "waiting"} =>
          Input[j] \in files' \/ pc[j] \in {"generate", "higgsfield", "waiting"}

LEMMA KeepsInv ==
    ASSUME IInv, NEW j \in Jobs, TypeOK', ProcessInv', Keeps(j)
    PROVE  IInv'
  <1>1. FileInv'
    <2> SUFFICES ASSUME NEW f \in files'
                 PROVE  \E k \in Jobs : Input[k] = f /\ Accounts(k)'
      BY DEF FileInv
    <2>1. \A k \in Jobs \ {j} : Accounts(k) => Accounts(k)'
      BY DEF Keeps, Accounts
    <2>2. CASE f \in files
      <3>1. PICK k \in Jobs : Input[k] = f /\ Accounts(k)
        BY <2>2 DEF IInv, FileInv
      <3> QED
        BY <2>1, <3>1 DEF Keeps
    <2>3. CASE f \notin files
      BY <2>3 DEF Keeps
    <2> QED
      BY <2>2, <2>3
  <1>2. \A k \in Jobs : Removed(k) => Removed(k)'
    BY DEF Keeps, Removed, Designs
  <1>3. LossExplained'
    <2> SUFFICES ASSUME account = "live", NEW k \in Jobs,
                        pc'[k] \in {"generate", "higgsfield", "waiting"}
                 PROVE  Input[k] \in files' \/ Removed(k)'
      BY DEF LossExplained, Removed, Keeps
    <2>1. \/ Input[k] \in files'
          \/ pc[k] \in {"generate", "higgsfield", "waiting"}
      BY DEF Keeps
    <2>2. CASE Input[k] \in files /\ Input[k] \notin files'
      BY <2>2 DEF Keeps, Removed
    <2> QED
      BY <1>2, <2>1, <2>2 DEF IInv, LossExplained, Removed
  <1>4. TriesInv'
    BY DEF IInv, TriesInv, Keeps
  <1> QED
    BY <1>1, <1>3, <1>4 DEF IInv, ListInv, Keeps

LEMMA JobInv ==
    ASSUME IInv, NEW j \in Jobs,
           \/ Submit(j) \/ JobStep(j)
           \/ HiggsfieldTimeout(j) \/ UnlinkFails(j) \/ JobTimeout(j)
    PROVE  IInv'
  <1> USE DEF Goto, CanFail, IInv
  <1>1. Input[j] \in Keys /\ (j \in Designs <=> j \notin Replacements)
    BY JobsAssumption DEF Designs
  <1>2. CASE Submit(j)
    <2>1. TypeOK' /\ ProcessInv'
      BY <1>2 DEF Submit, TypeOK, JobStates, ProcessInv, cleanupVars
    <2>2. Keeps(j)
      BY <1>2 DEF Submit, TypeOK, Keeps, Accounts, Holding, cleanupVars
    <2> QED
      BY <2>1, <2>2, KeepsInv
  <1>3. CASE Start(j)
    <2>1. tries[j] + 1 \in 0..MaxTries
      BY <1>3, FaultsAssumption DEF Start, TriesInv, TypeOK
    <2>2. TypeOK' /\ ProcessInv'
      BY <1>3, <2>1 DEF Start, TypeOK, JobStates, ProcessInv, cleanupVars
    <2>3. Keeps(j)
      BY <1>3 DEF Start, TypeOK, Keeps, Accounts, Holding, cleanupVars
    <2> QED
      BY <2>2, <2>3, KeepsInv
  <1>4. CASE Download(j)
    <2>1. CASE Input[j] \in objects
      <3> DEFINE n == IF j \in Designs THEN Models ELSE 1
      <3>1. n \in 0..(Models + 1) /\ (n > 0 \/ (j \in Designs /\ Higgsfield))
        BY JobsAssumption
      <3> HIDE DEF n
      <3>2. /\ pc[j] = "download"
            /\ files' = files \cup {Input[j]}
            /\ left' = [left EXCEPT ![j] = n]
            /\ pc' = [pc EXCEPT ![j] = Backend(j, n)]
            /\ UNCHANGED <<account, objects, sent, tries, spawned, orphans,
                           stopped, kept, cleanupVars, doomed, faults>>
        BY <1>4, <2>1 DEF Download, n
      <3>3. \/ Backend(j, n) = "generate" /\ n > 0
            \/ Backend(j, n) = "higgsfield" /\ j \in Designs
        BY <3>1 DEF Backend
      <3>4. TypeOK'
        BY <1>1, <3>1, <3>2, <3>3 DEF TypeOK, JobStates, cleanupVars
      <3>5. ProcessInv'
        BY <3>1, <3>2, <3>3 DEF TypeOK, ProcessInv, Designs
      <3>6. Keeps(j)
        BY <3>2, <3>3 DEF TypeOK, Keeps, Accounts, Holding, cleanupVars
      <3> QED
        BY <3>4, <3>5, <3>6, KeepsInv
    <2>2. CASE Input[j] \notin objects
      <3>1. /\ pc[j] = "download" /\ pc' = [pc EXCEPT ![j] = "ended"]
            /\ UNCHANGED <<account, objects, files, sent, tries, left, spawned,
                           orphans, stopped, kept, cleanupVars, doomed, faults>>
        BY <1>4, <2>2 DEF Download
      <3>2. TypeOK'
        BY <3>1 DEF TypeOK, JobStates, cleanupVars
      <3>3. ProcessInv'
        BY <3>1 DEF TypeOK, ProcessInv, Designs
      <3>4. Keeps(j)
        BY <3>1 DEF TypeOK, Keeps, Accounts, Holding, cleanupVars
      <3> QED
        BY <3>2, <3>3, <3>4, KeepsInv
    <2> QED
      BY <2>1, <2>2
  <1>5. CASE TryFails(j)
    <2>1. left[j] > 0 /\ left[j] \in Nat
      BY <1>5 DEF TryFails, ProcessInv, TypeOK
    <2>2. \/ Backend(j, left[j] - 1) = "generate" /\ left[j] - 1 > 0
          \/ Backend(j, left[j] - 1) = "higgsfield" /\ j \in Designs
          \/ Backend(j, left[j] - 1) = "finish"
      BY <2>1 DEF Backend
    <2>3. TypeOK'
      BY <1>5, <2>1, <2>2, JobsAssumption
      DEF TryFails, TypeOK, JobStates, cleanupVars
    <2>4. ProcessInv'
      BY <1>5, <2>1, <2>2 DEF TryFails, TypeOK, ProcessInv
    <2>5. Keeps(j)
      BY <1>5, <2>2
      DEF TryFails, TypeOK, Keeps, Accounts, Holding, cleanupVars
    <2> QED
      BY <2>3, <2>4, <2>5, KeepsInv
  <1>6. CASE TrySucceeds(j)
    <2>1. TypeOK'
      BY <1>6, JobsAssumption DEF TrySucceeds, TypeOK, JobStates, cleanupVars
    <2>2. ProcessInv' /\ Keeps(j)
      BY <1>6
      DEF TrySucceeds, TypeOK, ProcessInv, Keeps, Accounts, Holding, cleanupVars
    <2> QED
      BY <2>1, <2>2, KeepsInv
  <1>7. CASE Spawn(j)
    <2>1. j \in Designs
      BY <1>7 DEF Spawn, ProcessInv
    <2>2. TypeOK'
      BY <1>7, <2>1 DEF Spawn, TypeOK, JobStates, cleanupVars
    <2>3. ProcessInv'
      BY <1>7, <2>1 DEF Spawn, TypeOK, ProcessInv, Designs
    <2>4. Keeps(j)
      BY <1>7
      DEF Spawn, TypeOK, Keeps, Accounts, Holding, cleanupVars
    <2> QED
      BY <2>2, <2>3, <2>4, KeepsInv
  <1>8. CASE ProcessEnds(j) \/ HiggsfieldTimeout(j)
    <2>1. /\ spawned' = spawned \ {j}
          /\ orphans' \in {orphans, orphans \ {j}}
          /\ pc' = [pc EXCEPT ![j] = IF pc[j] = "waiting" THEN "finish" ELSE pc[j]]
          /\ faults' \in 0..MaxFaults
          /\ UNCHANGED <<account, objects, files, sent, tries, left, stopped,
                         kept, cleanupVars, doomed>>
      BY <1>8, FaultsAssumption DEF ProcessEnds, HiggsfieldTimeout, Kill, TypeOK
    <2>2. TypeOK'
      BY <2>1 DEF TypeOK, JobStates, cleanupVars
    <2>3. ProcessInv'
      BY <2>1 DEF TypeOK, ProcessInv
    <2>4. Keeps(j)
      BY <2>1 DEF TypeOK, Keeps, Accounts, Holding, cleanupVars
    <2> QED
      BY <2>2, <2>3, <2>4, KeepsInv
  <1>9. CASE Finish(j) \/ UnlinkFails(j) \/ Return(j)
    <2>1. TypeOK'
      BY <1>1, <1>9, FaultsAssumption
      DEF Finish, UnlinkFails, Return, TempFiles, TypeOK, JobStates, cleanupVars
    <2>2. ProcessInv'
      <3>1. /\ pc[j] # "waiting" /\ UNCHANGED <<spawned, orphans, stopped, left>>
            /\ \/ pc' = [pc EXCEPT ![j] = "returning"]
               \/ pc' = [pc EXCEPT ![j] = "ended"]
        BY <1>9 DEF Finish, UnlinkFails, Return
      <3> QED
        BY <3>1 DEF TypeOK, ProcessInv, Designs
    <2>3. Keeps(j)
      <3>1. CASE Finish(j)
        BY <1>1, <3>1
        DEF Finish, TempFiles, TypeOK, Keeps, Accounts, cleanupVars
      <3>2. CASE UnlinkFails(j)
        BY <3>2 DEF UnlinkFails, TypeOK, Keeps, Accounts, cleanupVars
      <3>3. CASE Return(j)
        BY <3>3 DEF Return, TypeOK, Keeps, Accounts, Holding, cleanupVars
      <3> QED
        BY <1>9, <3>1, <3>2, <3>3
    <2> QED
      BY <2>1, <2>2, <2>3, KeepsInv
  <1>10. CASE JobTimeout(j)
    <2>1. pc[j] = "waiting" => j \in Designs
      BY DEF ProcessInv
    <2>2. TypeOK'
      BY <1>10, <2>1, FaultsAssumption, JobsAssumption
      DEF JobTimeout, TypeOK, JobStates, cleanupVars
    <2>3. ProcessInv'
      <3>1. CASE pc[j] = "download"
        BY <1>10, <3>1 DEF JobTimeout, TypeOK, ProcessInv, Designs
      <3>2. CASE pc[j] # "download"
        BY <1>10, <3>2 DEF JobTimeout, TypeOK, ProcessInv, Designs
      <3> QED
        BY <3>1, <3>2
    <2>4. Keeps(j)
      BY <1>10
      DEF JobTimeout, TypeOK, Keeps, Accounts, Holding, cleanupVars
    <2> QED
      BY <2>2, <2>3, <2>4, KeepsInv
  <1>11. CASE StrayDownload(j)
    <2>1. j \in stopped
      BY <1>11 DEF StrayDownload, ProcessInv
    <2> QED
      BY <1>1, <1>11, <2>1, KeepsInv
      DEF StrayDownload, TypeOK, JobStates, ProcessInv, Keeps, Accounts,
          cleanupVars
  <1> QED
    BY <1>2, <1>3, <1>4, <1>5, <1>6, <1>7, <1>8, <1>9, <1>10, <1>11 DEF JobStep

\* A crash leaves files, but no process and no job at work.
LEMMA CrashInv ==
    ASSUME IInv, WorkerCrash
    PROVE  IInv'
  <1> USE DEF WorkerCrash, Running, IInv
  <1>1. TypeOK'
    BY FaultsAssumption, JobsAssumption
    DEF TypeOK, JobStates, CleanupStates, CanFail, Cleaning
  <1>2. TriesInv' /\ ListInv' /\ ProcessInv'
    BY DEF TriesInv, ListInv, ProcessInv, TypeOK, Cleaning
  <1>3. FileInv'
    <2>1. \A j \in Jobs : Accounts(j) => Accounts(j)'
      BY DEF Accounts, Holding, TypeOK
    <2> QED
      BY <2>1 DEF FileInv
  <1>4. LossExplained'
    BY DEF LossExplained, TypeOK
  <1> QED
    BY <1>1, <1>2, <1>3, <1>4

LEMMA NextIInv == IInv /\ [Next]_vars => IInv'
  <1> SUFFICES ASSUME IInv, [Next]_vars PROVE IInv'
    OBVIOUS
  <1>1. CASE Next
    BY <1>1, ApiInv, CleanupInv, JobInv, CrashInv DEF Next
  <1>2. CASE UNCHANGED vars
    BY <1>2, QuietInv
    DEF vars, jobVars, cleanupVars, IInv, TypeOK, TriesInv, ListInv, Quiet
  <1> QED
    BY <1>1, <1>2

THEOREM Invariance == Spec => []IInv
  BY InitIInv, NextIInv, PTL DEF Spec

-----------------------------------------------------------------------------
(***************************************************************************)
(* The results.                                                            *)
(***************************************************************************)

\* Types; cleanup runs only for a deleted account and has only keys of its
\* prefix at hand.
THEOREM TypeCorrect == Spec => []TypeOK
  BY Invariance, PTL DEF IInv

\* Whatever is cancelled, killed, delivered again or not removed, every file in
\* the upload directory and every Higgsfield process is accounted for by a job.
THEOREM LeftoversHaveJobs == Spec => []LeftoversAccounted
  <1>1. IInv => LeftoversAccounted
    BY DEF IInv, FileInv, ProcessInv, LeftoversAccounted, Accounts, Holding
  <1> QED
    BY <1>1, Invariance, PTL

\* A job of a live account loses its input to nothing but a design with the
\* same input that has returned.
THEOREM LossesHaveDesigns == Spec => []LossExplained
  BY Invariance, PTL DEF IInv
=============================================================================
