------------------------------- MODULE UserFiles -------------------------------
(***************************************************************************)
(* A user's objects in R2 and files in the upload directory: uploads, the  *)
(* temporary input files of the worker's jobs and the providers that read  *)
(* them, and cleanup_user_data_task, which removes objects and files after *)
(* the account was deleted.                                                *)
(*                                                                         *)
(* Uploads are authorised by the token alone and finish whenever they do;  *)
(* a presigned URL takes any number of PUTs; its expiry is left out.       *)
(* A job downloads its input into the user's directory under the name of   *)
(* the object, so jobs with the same input share one file, and each design *)
(* removes it before it returns.  A design tries the fal models in turn,   *)
(* each of which uploads the file again, and then the Higgsfield program.  *)
(* Cleanup lists, deletes and carries on after errors.  R2 is configured;  *)
(* API and worker share the directory.  A run that an error ends before    *)
(* its download touches no file and is left out.                           *)
(***************************************************************************)
EXTENDS Naturals, FiniteSets

CONSTANTS
    Keys,         \* object keys in R2 that requests of the user refer to
    Shared,       \* the discover catalog's, outside the user's prefixes
    Presigned,    \* those below object-replace/<user>/, not below <user>/
    Uploads,
    KeyOf,        \* [Uploads -> Keys \ Shared], one fresh key per upload
    Jobs,         \* requests with a job
    Replacements, \* the object replacements among them
    Input,        \* [Jobs -> Keys]
    Models,       \* fal models a design is tried with; none: Higgsfield only
    Higgsfield,   \* whether Higgsfield is enabled
    Faults,       \* what may fail: "api", "crash", "timeout", "storage"
    MaxTries,     \* arq's max_tries: runs of one job
    MaxFaults     \* bound on failures

Designs == Jobs \ Replacements

ASSUME KeysAssumption ==
    /\ Shared \subseteq Keys
    /\ Presigned \subseteq Keys \ Shared
    /\ KeyOf \in [Uploads -> Keys \ Shared]
ASSUME JobsAssumption ==
    /\ Replacements \subseteq Jobs
    /\ Input \in [Jobs -> Keys]
    /\ Models \in Nat
    /\ Higgsfield \in BOOLEAN
    /\ Models > 0 \/ Higgsfield
ASSUME FaultsAssumption ==
    /\ Faults \subseteq {"api", "crash", "timeout", "storage"}
    /\ MaxTries \in Nat \ {0}
    /\ MaxFaults \in Nat

VARIABLES
    account, \* "live" or "deleted"
    objects, \* keys in R2
    files,   \* files in the user's directory, by the key they came from
    sent,    \* uploads that are over, or have their presigned URL
    \* jobs
    pc,
    tries,   \* runs of each job
    left,    \* fal models a job at work has still to try
    spawned, \* jobs with a Higgsfield process that runs
    orphans, \* those among them that were cancelled while it ran
    stopped, \* history: jobs that died at work, or were cancelled while their
             \* download was under way
    kept,    \* history: designs that returned and could not remove their file
    \* the cleanup job
    cleanup,
    cleanups, \* its runs
    prefix,  \* the prefix it works on
    todo,    \* listed keys it has still to delete
    doomed,  \* history: the user's objects when the account was deleted
    gaps,    \* history: an error of R2 or of the disk was passed over
    faults   \* failures so far

jobVars == <<pc, tries, left, spawned, orphans, stopped, kept>>
cleanupVars == <<cleanup, cleanups, prefix, todo, gaps>>
vars == <<account, objects, files, sent, jobVars, cleanupVars, doomed,
          faults>>

JobStates == {"none", "queued", "download", "stray", "generate", "higgsfield",
              "waiting", "finish",
              "returning", \* the finally block is over
              "ended",
              "dropped"}   \* over without a finally block that knew its file
CleanupStates == {"none", "enqueue", "queued", "list", "delete", "rmtree",
                  "done", "lost"}

\* The keys cleanup lists: <user>/ first, then object-replace/<user>/.
Prefixes_First == {1}
Prefixes == {1, 2}
Under(n) == IF n = 2 THEN Presigned ELSE Keys \ (Shared \cup Presigned)

\* Files a job removes in its finally block: its own input, if temporary.
TempFiles_WholeDirectory(j) == IF j \in Designs THEN Keys ELSE {}
TempFiles(j) == IF j \in Designs THEN {Input[j]} ELSE {}

CanFail(kind) == kind \in Faults /\ faults < MaxFaults

-----------------------------------------------------------------------------

Init ==
    /\ account = "live"
    /\ objects = Shared
    /\ files = {}
    /\ sent = {}
    /\ pc = [j \in Jobs |-> "none"]
    /\ tries = [j \in Jobs |-> 0]
    /\ left = [j \in Jobs |-> 0]
    /\ spawned = {}
    /\ orphans = {}
    /\ stopped = {}
    /\ kept = {}
    /\ cleanup = "none"
    /\ cleanups = 0
    /\ prefix = 1
    /\ todo = {}
    /\ doomed = {}
    /\ gaps = FALSE
    /\ faults = 0

Goto(j, state) == pc' = [pc EXCEPT ![j] = state]

-----------------------------------------------------------------------------
(***************************************************************************)
(* Requests to the API.                                                    *)
(***************************************************************************)

\* No upload asks whether the account still exists.
Upload(u) ==
    /\ u \notin sent
    /\ KeyOf[u] \notin Presigned
    /\ sent' = sent \cup {u}
    /\ objects' = objects \cup {KeyOf[u]}
    /\ UNCHANGED <<account, files, jobVars, cleanupVars, doomed, faults>>

\* Only a URL is made; the client uploads without the API.
CreateUpload(u) ==
    /\ u \notin sent
    /\ KeyOf[u] \in Presigned
    /\ sent' = sent \cup {u}
    /\ UNCHANGED <<account, objects, files, jobVars, cleanupVars, doomed,
                   faults>>

\* What is put after the account's deletion is no longer what it had then.
Put(u) ==
    /\ u \in sent
    /\ KeyOf[u] \in Presigned
    /\ objects' = objects \cup {KeyOf[u]}
    /\ doomed' = doomed \ {KeyOf[u]}
    /\ UNCHANGED <<account, files, sent, jobVars, cleanupVars, faults>>

\* The input has to be in R2, and the row needs the account.
Submit(j) ==
    /\ pc[j] = "none"
    /\ account = "live"
    /\ Input[j] \in objects
    /\ Goto(j, "queued")
    /\ UNCHANGED <<account, objects, files, sent, tries, left, spawned, orphans,
                   stopped, kept, cleanupVars, doomed, faults>>

\* The commit that deletes the account and its requests.
DeleteAccount ==
    /\ account = "live"
    /\ account' = "deleted"
    /\ doomed' = objects \ Shared
    /\ cleanup' = "enqueue"
    /\ UNCHANGED <<objects, files, sent, jobVars, cleanups, prefix, todo, gaps,
                   faults>>

Enqueue ==
    /\ cleanup = "enqueue"
    /\ cleanup' = "queued"
    /\ UNCHANGED <<account, objects, files, sent, jobVars, cleanups, prefix,
                   todo, doomed, gaps, faults>>

\* Redis refuses the job or the process dies; the account is gone already.
EnqueueFails ==
    /\ cleanup = "enqueue"
    /\ CanFail("api")
    /\ faults' = faults + 1
    /\ cleanup' = "lost"
    /\ UNCHANGED <<account, objects, files, sent, jobVars, cleanups, prefix,
                   todo, doomed, gaps>>

-----------------------------------------------------------------------------
(***************************************************************************)
(* Jobs of requests.                                                       *)
(***************************************************************************)

\* arq counts the run.  The row is gone with the account.
Start(j) ==
    /\ pc[j] = "queued"
    /\ tries' = [tries EXCEPT ![j] = @ + 1]
    /\ Goto(j, IF account = "live" THEN "download" ELSE "ended")
    /\ UNCHANGED <<account, objects, files, sent, left, spawned, orphans,
                   stopped, kept, cleanupVars, doomed, faults>>

\* Where a job goes when n fal models are left.
Backend(j, n) ==
    IF n > 0 THEN "generate" ELSE
    IF j \in Designs /\ Higgsfield THEN "higgsfield" ELSE "finish"

Download(j) ==
    /\ pc[j] = "download"
    /\ IF Input[j] \in objects
       THEN LET n == IF j \in Designs THEN Models ELSE 1 IN
            /\ files' = files \cup {Input[j]}
            /\ left' = [left EXCEPT ![j] = n]
            /\ Goto(j, Backend(j, n))
       ELSE Goto(j, "ended") /\ UNCHANGED <<files, left>>
    /\ UNCHANGED <<account, objects, sent, tries, spawned, orphans, stopped,
                   kept, cleanupVars, doomed, faults>>

\* A fal model fails, or finds no file: the next one is tried, in the end
\* Higgsfield.
TryFails(j) ==
    /\ pc[j] = "generate"
    /\ left' = [left EXCEPT ![j] = left[j] - 1]
    /\ Goto(j, Backend(j, left[j] - 1))
    /\ UNCHANGED <<account, objects, files, sent, tries, spawned, orphans,
                   stopped, kept, cleanupVars, doomed, faults>>

\* It uploaded the file and answered.  A replacement reads its file into
\* memory once, before its models.
TrySucceeds(j) ==
    /\ pc[j] = "generate"
    /\ Input[j] \in files
    /\ left' = [left EXCEPT ![j] = 0]
    /\ Goto(j, "finish")
    /\ UNCHANGED <<account, objects, files, sent, tries, spawned, orphans,
                   stopped, kept, cleanupVars, doomed, faults>>

\* A process is given the path of the file and awaited.
Spawn(j) ==
    /\ pc[j] = "higgsfield"
    /\ spawned' = spawned \cup {j}
    /\ Goto(j, "waiting")
    /\ UNCHANGED <<account, objects, files, sent, tries, left, orphans, stopped,
                   kept, cleanupVars, doomed, faults>>

\* A process ends, waited for or not.
ProcessEnds(j) ==
    /\ j \in spawned
    /\ spawned' = spawned \ {j}
    /\ orphans' = orphans \ {j}
    /\ Goto(j, IF pc[j] = "waiting" THEN "finish" ELSE pc[j])
    /\ UNCHANGED <<account, objects, files, sent, tries, left, stopped, kept,
                   cleanupVars, doomed, faults>>

\* Higgsfield's own timeout kills the process.
Kill_Forgotten(j) == UNCHANGED spawned
Kill(j) == spawned' = spawned \ {j}

HiggsfieldTimeout(j) ==
    /\ pc[j] = "waiting"
    /\ CanFail("timeout")
    /\ faults' = faults + 1
    /\ Kill(j)
    /\ Goto(j, "finish")
    /\ UNCHANGED <<account, objects, files, sent, tries, left, orphans, stopped,
                   kept, cleanupVars, doomed>>

\* The finally block.
Finish(j) ==
    /\ pc[j] = "finish"
    /\ files' = files \ TempFiles(j)
    /\ kept' = kept \ {j}
    /\ Goto(j, "returning")
    /\ UNCHANGED <<account, objects, sent, tries, left, spawned, orphans,
                   stopped, cleanupVars, doomed, faults>>

\* _cleanup_temp_file logs an OSError and returns.
UnlinkFails(j) ==
    /\ pc[j] = "finish"
    /\ j \in Designs
    /\ CanFail("storage")
    /\ faults' = faults + 1
    /\ kept' = kept \cup {j}
    /\ Goto(j, "returning")
    /\ UNCHANGED <<account, objects, files, sent, tries, left, spawned, orphans,
                   stopped, cleanupVars, doomed>>

\* arq records the job as done.
Return(j) ==
    /\ pc[j] = "returning"
    /\ Goto(j, "ended")
    /\ UNCHANGED <<account, objects, files, sent, tries, left, spawned, orphans,
                   stopped, kept, cleanupVars, doomed, faults>>

\* arq cancels the task.  The finally block runs, but a download under way
\* goes on in its thread, its file not yet known as temporary, and nothing
\* stops a Higgsfield process.
JobTimeout(j) ==
    /\ pc[j] \in {"download", "generate", "higgsfield", "waiting"}
    /\ CanFail("timeout")
    /\ faults' = faults + 1
    /\ left' = [left EXCEPT ![j] = 0]
    /\ orphans' = IF pc[j] = "waiting" THEN orphans \cup {j} ELSE orphans
    /\ stopped' = IF pc[j] = "download" THEN stopped \cup {j} ELSE stopped
    /\ Goto(j, IF pc[j] = "download" THEN "stray" ELSE "finish")
    /\ UNCHANGED <<account, objects, files, sent, tries, spawned, kept,
                   cleanupVars, doomed>>

StrayDownload(j) ==
    /\ pc[j] = "stray"
    /\ files' = IF Input[j] \in objects THEN files \cup {Input[j]} ELSE files
    /\ Goto(j, "dropped")
    /\ UNCHANGED <<account, objects, sent, tries, left, spawned, orphans,
                   stopped, kept, cleanupVars, doomed, faults>>

JobStep(j) ==
    \/ Start(j) \/ Download(j) \/ Finish(j) \/ Return(j) \/ StrayDownload(j)
    \/ TryFails(j) \/ TrySucceeds(j) \/ Spawn(j) \/ ProcessEnds(j)

-----------------------------------------------------------------------------
(***************************************************************************)
(* cleanup_user_data_task.                                                 *)
(***************************************************************************)

NextPrefix ==
    IF prefix + 1 \in Prefixes
    THEN cleanup' = "list" /\ prefix' = prefix + 1
    ELSE cleanup' = "rmtree" /\ UNCHANGED prefix

CleanupStart ==
    /\ cleanup = "queued"
    /\ cleanup' = "list"
    /\ cleanups' = cleanups + 1
    /\ prefix' = 1
    /\ todo' = {}
    /\ UNCHANGED <<account, objects, files, sent, jobVars, doomed, gaps,
                   faults>>

List ==
    /\ cleanup = "list"
    /\ todo' = objects \cap Under(prefix)
    /\ cleanup' = "delete"
    /\ UNCHANGED <<account, objects, files, sent, jobVars, cleanups, prefix,
                   doomed, gaps, faults>>

ListFails ==
    /\ cleanup = "list"
    /\ CanFail("storage")
    /\ faults' = faults + 1
    /\ gaps' = TRUE
    /\ NextPrefix
    /\ UNCHANGED <<account, objects, files, sent, jobVars, cleanups, todo,
                   doomed>>

DeleteNext ==
    /\ cleanup = "delete"
    /\ \E k \in todo :
        /\ objects' = objects \ {k}
        /\ todo' = todo \ {k}
    /\ UNCHANGED <<account, files, sent, jobVars, cleanup, cleanups, prefix,
                   doomed, gaps, faults>>

\* An error of the HEAD request counts as an object that is not there.
DeleteFails ==
    /\ cleanup = "delete"
    /\ CanFail("storage")
    /\ \E k \in todo : todo' = todo \ {k}
    /\ faults' = faults + 1
    /\ gaps' = TRUE
    /\ UNCHANGED <<account, objects, files, sent, jobVars, cleanup, cleanups,
                   prefix, doomed>>

PrefixDone ==
    /\ cleanup = "delete"
    /\ todo = {}
    /\ NextPrefix
    /\ UNCHANGED <<account, objects, files, sent, jobVars, cleanups, todo,
                   doomed, gaps, faults>>

RemoveDirectory ==
    /\ cleanup = "rmtree"
    /\ files' = {}
    /\ cleanup' = "done"
    /\ UNCHANGED <<account, objects, sent, jobVars, cleanups, prefix, todo,
                   doomed, gaps, faults>>

\* rmtree stops at the first file it cannot remove.
RemoveFails ==
    /\ cleanup = "rmtree"
    /\ CanFail("storage")
    /\ \E rest \in SUBSET files : files' = rest
    /\ faults' = faults + 1
    /\ gaps' = TRUE
    /\ cleanup' = "done"
    /\ UNCHANGED <<account, objects, sent, jobVars, cleanups, prefix, todo,
                   doomed>>

Cleaning == cleanup \in {"list", "delete", "rmtree"}

CleanupTimeout ==
    /\ Cleaning
    /\ CanFail("timeout")
    /\ faults' = faults + 1
    /\ cleanup' = "lost"
    /\ UNCHANGED <<account, objects, files, sent, jobVars, cleanups, prefix,
                   todo, doomed, gaps>>

CleanupStep ==
    CleanupStart \/ List \/ DeleteNext \/ PrefixDone \/ RemoveDirectory

-----------------------------------------------------------------------------

Running(j) ==
    pc[j] \in {"download", "generate", "higgsfield", "waiting", "finish",
               "returning"}

\* The worker process dies and its container with it, threads and processes
\* included; arq delivers its jobs again, but none more than MaxTries times.
WorkerCrash ==
    /\ CanFail("crash")
    /\ Cleaning \/ \E j \in Jobs : Running(j)
    /\ faults' = faults + 1
    /\ pc' = [j \in Jobs |->
                IF Running(j) /\ tries[j] < MaxTries THEN "queued" ELSE
                IF Running(j) \/ pc[j] = "stray" THEN "dropped" ELSE pc[j]]
    /\ stopped' = stopped \cup {j \in Jobs : Running(j)}
    /\ left' = [j \in Jobs |-> 0]
    /\ spawned' = {}
    /\ orphans' = {}
    /\ kept' = {j \in kept : ~Running(j)}
    /\ cleanup' = IF ~Cleaning THEN cleanup ELSE
                  IF cleanups < MaxTries THEN "queued" ELSE "lost"
    /\ UNCHANGED <<account, objects, files, sent, tries, cleanups, prefix, todo,
                   doomed, gaps>>

Next ==
    \/ \E u \in Uploads : Upload(u) \/ CreateUpload(u) \/ Put(u)
    \/ \E j \in Jobs :
        \/ Submit(j) \/ JobStep(j)
        \/ HiggsfieldTimeout(j) \/ UnlinkFails(j) \/ JobTimeout(j)
    \/ DeleteAccount \/ Enqueue \/ EnqueueFails
    \/ CleanupStep
    \/ ListFails \/ DeleteFails \/ RemoveFails \/ CleanupTimeout
    \/ WorkerCrash

Spec == Init /\ [][Next]_vars

\* The API process runs on, and so does the worker with the cleanup; nobody has
\* to upload or submit, and the jobs beside it may hang.
FairSpec == Spec /\ WF_vars(Enqueue) /\ WF_vars(CleanupStep)

-----------------------------------------------------------------------------

\* Types; cleanup only ever runs for a deleted account and holds keys of the
\* prefix it is at.
TypeOK ==
    /\ account \in {"live", "deleted"}
    /\ objects \subseteq Keys
    /\ files \subseteq Keys
    /\ sent \subseteq Uploads
    /\ pc \in [Jobs -> JobStates]
    /\ tries \in [Jobs -> 0..MaxTries]
    /\ left \in [Jobs -> 0..(Models + 1)]
    /\ spawned \subseteq Designs
    /\ orphans \subseteq Designs
    /\ stopped \subseteq Jobs
    /\ kept \subseteq Designs
    /\ cleanup \in CleanupStates
    /\ cleanups \in 0..MaxTries
    /\ prefix \in {1, 2}
    /\ todo \subseteq Under(prefix)
    /\ doomed \subseteq Keys \ Shared
    /\ gaps \in BOOLEAN
    /\ faults \in 0..MaxFaults
    /\ cleanup # "none" => account = "deleted"

\* What a job leaves behind is accounted for.  Every file in the directory
\* belongs to a job that has downloaded it and is at work, to a replacement,
\* which never removes its input, to a design whose removal failed, or to a job
\* that died or was cancelled in its download; a process runs for a job that
\* waits for it or was cancelled while it did.
LeftoversAccounted ==
    /\ \A f \in files : \E j \in Jobs :
        /\ Input[j] = f
        /\ \/ pc[j] \in {"generate", "higgsfield", "waiting", "finish"}
           \/ j \in Replacements /\ pc[j] \in {"returning", "ended"}
           \/ j \in kept
           \/ j \in stopped
    /\ \A j \in spawned : pc[j] = "waiting" \/ j \in orphans

\* While the account lives, a job at work has its input file, unless another
\* design with the same input has returned and removed the file they share.
LossExplained ==
    account = "live" =>
        \A j \in Jobs : pc[j] \in {"generate", "higgsfield", "waiting"} =>
            \/ Input[j] \in files
            \/ \E k \in Designs \ {j} :
                  /\ Input[k] = Input[j]
                  /\ pc[k] \in {"returning", "ended"}
                  /\ k \notin kept

\* Every object the user had when the account was deleted goes in the end,
\* wherever the worker dies and whatever is put meanwhile, unless the job was
\* never queued, arq cancelled it or gave it up after MaxTries runs, or an
\* error was passed over.
DeletedAccountErased ==
    account = "deleted"
        ~> (cleanup = "lost" \/ gaps \/ doomed \cap objects = {})
=============================================================================
