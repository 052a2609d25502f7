---------------------------- MODULE ManifestBatch ----------------------------
(***************************************************************************)
(* generate_seedream_manifest.py: a batch that makes one image for each    *)
(* row of a CSV manifest, run again and again until it exits with 0.       *)
(*                                                                         *)
(* Rows are worked on one after the other.  A row is tried several times:  *)
(* the Higgsfield CLI is called, its result is downloaded to a temporary   *)
(* file, and that replaces the output file.  The outcome is appended to a  *)
(* log, which every run starts from nothing.  With --resume a row whose    *)
(* output file exists is skipped; with --limit only the first rows are     *)
(* worked on.  A run can be stopped at any point, and files outlive it.    *)
(* Two runs never share an output directory at a time.                     *)
(***************************************************************************)
EXTENDS Naturals, Sequences

CONSTANTS
    Rows,      \* number of rows, in the order of the file
    Asset,     \* [1..Rows -> asset ids]
    Ratio,     \* [1..Rows -> aspect ratios]
    Allowed,   \* ratios the model supports
    Fallback,  \* supported ratios used in place of others, by those others
    Attempts,  \* --retries, plus one
    None,      \* there is no such file
    Partial,   \* a file that was created and not completely written
    MaxFaults  \* bound on failed attempts, refused starts and stopped runs

ASSUME RowsAssumption ==
    Rows \in Nat \ {0} /\ Attempts \in Nat \ {0} /\ MaxFaults \in Nat
ASSUME FileAssumption == None # Partial /\ {None, Partial} \cap (1..Rows) = {}

VARIABLES
    files,   \* output files, by path: the row whose image it is
    temps,   \* their temporary files, <path>.tmp
    log,     \* outcomes in run-manifest.jsonl, of rows 1, 2, ...
    exit,    \* how the last run ended, "running" if it did not, "none" before
    \* the run
    pc,
    limit,   \* rows it works on, --limit
    resume,  \* --resume
    row,     \* the row it is at
    attempt,
    outcome, \* of that row
    faults

runVars == <<pc, limit, resume, row, attempt, outcome>>
vars == <<files, temps, log, exit, pc, limit, resume, row, attempt, outcome,
          faults>>

\* The folder is named after the ratio asked for, not the one generated.
Path(i) == <<Ratio[i], Asset[i]>>
Paths == {Path(i) : i \in 1..Rows}

\* _generation_aspect_ratio finds a ratio for the row, or raises.
Supported(i) ==
    \/ Ratio[i] \in Allowed
    \/ Ratio[i] \in DOMAIN Fallback /\ Fallback[Ratio[i]] \in Allowed

Outcomes == {"success", "skipped", "failed"}
Contents == (1..Rows) \cup {None, Partial}

-----------------------------------------------------------------------------

Init ==
    /\ files = [p \in Paths |-> None]
    /\ temps = [p \in Paths |-> None]
    /\ log = <<>>
    /\ exit = "none"
    /\ pc = "idle"
    /\ limit = Rows
    /\ resume = FALSE
    /\ row = 1
    /\ attempt = 1
    /\ outcome = "failed"
    /\ faults = 0

Fault == faults < MaxFaults /\ faults' = faults + 1

Exit(code) == exit' = code /\ pc' = "idle"

\* The log is truncated once the CLI is ready and the CSV has been read.
Start(again, rows) ==
    /\ pc = "idle"
    /\ exit' = "running"
    /\ pc' = "row"
    /\ limit' = rows
    /\ resume' = again
    /\ row' = 1
    /\ log' = <<>>
    /\ UNCHANGED <<files, temps, attempt, outcome, faults>>

\* The CLI is missing or not logged in, or a row of the CSV is malformed.
StartFails ==
    /\ pc = "idle"
    /\ Fault
    /\ Exit("2")
    /\ UNCHANGED <<files, temps, log, limit, resume, row, attempt, outcome>>

\* An unsupported ratio ends the run and leaves the rows behind it alone.
BeginRow_TempCounts ==
    /\ pc = "row"
    /\ row <= limit
    /\ attempt' = 1
    /\ IF ~Supported(row)
       THEN Exit("2") /\ UNCHANGED outcome
       ELSE /\ UNCHANGED exit
            /\ IF resume /\ (files[Path(row)] # None \/ temps[Path(row)] # None)
               THEN pc' = "record" /\ outcome' = "skipped"
               ELSE pc' = "generate" /\ UNCHANGED outcome
    /\ UNCHANGED <<files, temps, log, limit, resume, row, faults>>

BeginRow ==
    /\ pc = "row"
    /\ row <= limit
    /\ attempt' = 1
    /\ IF ~Supported(row)
       THEN Exit("2") /\ UNCHANGED outcome
       ELSE /\ UNCHANGED exit
            /\ IF resume /\ files[Path(row)] # None
               THEN pc' = "record" /\ outcome' = "skipped"
               ELSE pc' = "generate" /\ UNCHANGED outcome
    /\ UNCHANGED <<files, temps, log, limit, resume, row, faults>>

\* The CLI exits with 0 and its JSON names a result.
Generate ==
    /\ pc = "generate"
    /\ pc' = "download"
    /\ UNCHANGED <<files, temps, log, exit, limit, resume, row, attempt,
                   outcome, faults>>

\* The result is in memory; the temporary file is created (or emptied) ...
Download ==
    /\ pc = "download"
    /\ temps' = [temps EXCEPT ![Path(row)] = Partial]
    /\ pc' = "write"
    /\ UNCHANGED <<files, log, exit, limit, resume, row, attempt, outcome,
                   faults>>

\* ... written ...
Write ==
    /\ pc = "write"
    /\ temps' = [temps EXCEPT ![Path(row)] = row]
    /\ pc' = "replace"
    /\ UNCHANGED <<files, log, exit, limit, resume, row, attempt, outcome,
                   faults>>

\* ... and moved over the output file in one step.
Replace_KeepsExisting ==
    /\ pc = "replace"
    /\ files' = [files EXCEPT ![Path(row)] = IF @ = None THEN row ELSE @]
    /\ temps' = [temps EXCEPT ![Path(row)] = None]
    /\ outcome' = "success"
    /\ pc' = "record"
    /\ UNCHANGED <<log, exit, limit, resume, row, attempt, faults>>

Replace_BeforeWritten ==
    /\ pc \in {"write", "replace"}
    /\ files' = [files EXCEPT ![Path(row)] = temps[Path(row)]]
    /\ temps' = [temps EXCEPT ![Path(row)] = None]
    /\ outcome' = "success"
    /\ pc' = "record"
    /\ UNCHANGED <<log, exit, limit, resume, row, attempt, faults>>

Replace ==
    /\ pc = "replace"
    /\ files' = [files EXCEPT ![Path(row)] = temps[Path(row)]]
    /\ temps' = [temps EXCEPT ![Path(row)] = None]
    /\ outcome' = "success"
    /\ pc' = "record"
    /\ UNCHANGED <<log, exit, limit, resume, row, attempt, faults>>

\* The CLI fails or runs into its timeout, its answer names no result, the
\* download fails or is empty, or the disk does not take the file.
AttemptFails ==
    /\ pc \in {"generate", "download", "write", "replace"}
    /\ Fault
    /\ IF attempt < Attempts
       THEN pc' = "generate" /\ attempt' = attempt + 1 /\ UNCHANGED outcome
       ELSE pc' = "record" /\ outcome' = "failed" /\ UNCHANGED attempt
    /\ UNCHANGED <<files, temps, log, exit, limit, resume, row>>

Record ==
    /\ pc = "record"
    /\ log' = Append(log, outcome)
    /\ row' = row + 1
    /\ pc' = "row"
    /\ UNCHANGED <<files, temps, exit, limit, resume, attempt, outcome, faults>>

Failed == \E i \in DOMAIN log : log[i] = "failed"

Finish_LastRowDecides ==
    /\ pc = "row"
    /\ row > limit
    /\ Exit(IF outcome = "failed" THEN "1" ELSE "0")
    /\ UNCHANGED <<files, temps, log, limit, resume, row, attempt, outcome,
                   faults>>

Finish ==
    /\ pc = "row"
    /\ row > limit
    /\ Exit(IF Failed THEN "1" ELSE "0")
    /\ UNCHANGED <<files, temps, log, limit, resume, row, attempt, outcome,
                   faults>>

\* Ctrl-C (130), an error of the log file (2), or a kill; the retry loop does
\* not catch the first and nothing is tidied up.
Stop ==
    /\ pc # "idle"
    /\ Fault
    /\ Exit("130") \/ Exit("killed") \/ (pc = "record" /\ Exit("2"))
    /\ UNCHANGED <<files, temps, log, limit, resume, row, attempt, outcome>>

RunStep ==
    \/ BeginRow \/ Generate \/ Download \/ Write \/ Replace
    \/ Record \/ Finish

Next ==
    \/ \E again \in BOOLEAN, rows \in 1..Rows : Start(again, rows)
    \/ RunStep
    \/ StartFails \/ AttemptFails \/ Stop

Spec == Init /\ [][Next]_vars

\* A run goes on by itself, and whoever runs the batch repeats the command for
\* the whole manifest, with or without --resume and between other runs.
FairSpec ==
    /\ Spec
    /\ WF_vars(RunStep)
    /\ SF_vars(\E again \in BOOLEAN : Start(again, Rows))

-----------------------------------------------------------------------------

TypeOK ==
    /\ files \in [Paths -> Contents]
    /\ temps \in [Paths -> Contents]
    /\ log \in Seq(Outcomes)
    /\ exit \in {"none", "running", "0", "1", "2", "130", "killed"}
    /\ pc \in {"idle", "row", "generate", "download", "write", "replace",
               "record"}
    /\ limit \in 1..Rows
    /\ resume \in BOOLEAN
    /\ row \in 1..(Rows + 1)
    /\ attempt \in 1..Attempts
    /\ outcome \in Outcomes
    /\ faults \in 0..MaxFaults
    /\ Len(log) = row - 1

\* Wherever runs were stopped, an output file is a whole image of a row that
\* belongs at its path: --resume may trust a file for being there.
FilesAreWhole ==
    \A p \in Paths : files[p] # None =>
        files[p] \in 1..Rows /\ Path(files[p]) = p

\* A row logged as a success has its own image on disk, or that of a later
\* row with the same asset id and ratio.
LogMatchesDisk ==
    \A i \in DOMAIN log : log[i] = "success" =>
        \E j \in i..Rows : Path(j) = Path(i) /\ files[Path(i)] = j

\* Exit code 0, "all rows succeeded or were skipped": none is missing in the
\* log, and each has an image at its path, its own or that of a row it shares
\* the path with, whatever earlier runs left behind.
ZeroMeansDone ==
    exit = "0" =>
        /\ Len(log) = limit
        /\ \A i \in 1..limit : log[i] # "failed" /\ files[Path(i)] # None

\* A batch that is repeated completes the rows in front of the first one with
\* an unsupported ratio, with or without --resume: a row that has its path for
\* itself gets its own image.  Rows with the same asset id and ratio share one
\* file, which is left to one of them; the others end without an image.
BatchCompletes ==
    <>(\A i \in 1..Rows :
          (\A j \in 1..i : Supported(j)) =>
              \E j \in 1..Rows : Path(j) = Path(i) /\ files[Path(i)] = j)
=============================================================================
