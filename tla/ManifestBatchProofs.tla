-------------------------- MODULE ManifestBatchProofs --------------------------
(***************************************************************************)
(* Proofs about ManifestBatch, for any number of rows, any assignment of   *)
(* assets and ratios to them, and any number of runs and faults.           *)
(***************************************************************************)
EXTENDS ManifestBatch, TLAPS

-----------------------------------------------------------------------------
(***************************************************************************)
(* The inductive invariant.                                                *)
(***************************************************************************)

\* A run past its start is marked as running, and works on a row it was asked
\* for.
RunInv ==
    /\ pc # "idle" => exit = "running" /\ row <= limit + 1
    /\ pc \notin {"idle", "row"} => row <= limit

\* What is about to be moved is the whole image of the row.
TempInv == pc = "replace" => temps[Path(row)] = row

\* The outcome about to be recorded is true of the disk.
OutcomeInv ==
    pc = "record" =>
        /\ outcome = "success" => files[Path(row)] = row
        /\ outcome = "skipped" => files[Path(row)] # None

\* A row that was skipped had a file, and files never go away.
SkippedInv ==
    \A i \in DOMAIN log : log[i] = "skipped" => files[Path(i)] # None

IInv ==
    /\ TypeOK /\ RunInv /\ TempInv /\ OutcomeInv
    /\ SkippedInv /\ FilesAreWhole /\ LogMatchesDisk /\ ZeroMeansDone

LEMMA InitIInv == Init => IInv
  <1> SUFFICES ASSUME Init PROVE IInv
    OBVIOUS
  <1>1. log = <<>> /\ Len(log) = 0 /\ DOMAIN log = {} /\ log \in Seq(Outcomes)
    BY DEF Init
  <1>2. TypeOK
    <2>1. files \in [Paths -> Contents] /\ temps \in [Paths -> Contents]
      BY DEF Init, Contents
    <2>2. row \in 1..(Rows + 1) /\ attempt \in 1..Attempts
            /\ limit \in 1..Rows /\ faults \in 0..MaxFaults
            /\ Len(log) = row - 1
      BY <1>1, RowsAssumption DEF Init
    <2> QED
      BY <2>1, <2>2, <1>1 DEF Init, TypeOK, Outcomes
  <1>3. RunInv /\ TempInv /\ OutcomeInv
    BY DEF Init, RunInv, TempInv, OutcomeInv
  <1>4. SkippedInv /\ FilesAreWhole /\ LogMatchesDisk /\ ZeroMeansDone
    BY <1>1 DEF Init, SkippedInv, FilesAreWhole, LogMatchesDisk, ZeroMeansDone
  <1> QED
    BY <1>2, <1>3, <1>4 DEF IInv

-----------------------------------------------------------------------------
(***************************************************************************)
(* Steps.                                                                  *)
(***************************************************************************)

\* The row a run works on has a path.
LEMMA RowPath ==
    ASSUME TypeOK, RunInv, pc \notin {"idle", "row"}
    PROVE  row \in 1..Rows /\ Path(row) \in Paths
  BY RowsAssumption DEF TypeOK, RunInv, Paths

\* Steps that leave the output files and the log alone keep what the log says
\* of the files; they only have to keep the rest.
LEMMA LogInv ==
    ASSUME IInv, UNCHANGED <<files, log, limit>>, exit' = "0" => exit = "0"
    PROVE  SkippedInv' /\ FilesAreWhole' /\ LogMatchesDisk' /\ ZeroMeansDone'
  BY DEF IInv, SkippedInv, FilesAreWhole, LogMatchesDisk, ZeroMeansDone

\* A new run keeps the invariant: it forgets the old log.
LEMMA StartInv ==
    ASSUME IInv, NEW again \in BOOLEAN, NEW rows \in 1..Rows,
           Start(again, rows)
    PROVE  IInv'
  <1> USE DEF IInv, Start
  <1>1. TypeOK'
    BY RowsAssumption DEF TypeOK, Outcomes
  <1>2. RunInv' /\ TempInv' /\ OutcomeInv'
    BY DEF RunInv, TempInv, OutcomeInv, TypeOK
  <1>3. SkippedInv' /\ FilesAreWhole' /\ LogMatchesDisk' /\ ZeroMeansDone'
    BY DEF SkippedInv, FilesAreWhole, LogMatchesDisk, ZeroMeansDone
  <1> QED
    BY <1>1, <1>2, <1>3

\* So does a start that is refused, and stopping a run.
LEMMA EndInv ==
    ASSUME IInv, StartFails \/ Stop
    PROVE  IInv'
  <1>1. /\ exit' \in {"2", "130", "killed"}
        /\ pc' = "idle"
        /\ faults' \in 0..MaxFaults
        /\ UNCHANGED <<files, temps, log, limit, resume, row, attempt, outcome>>
    BY RowsAssumption DEF StartFails, Stop, Fault, Exit, IInv, TypeOK
  <1>2. TypeOK'
    BY <1>1 DEF IInv, TypeOK
  <1>3. RunInv' /\ TempInv' /\ OutcomeInv'
    BY <1>1 DEF IInv, RunInv, TempInv, OutcomeInv
  <1>4. SkippedInv' /\ FilesAreWhole' /\ LogMatchesDisk' /\ ZeroMeansDone'
    BY <1>1, LogInv
  <1> QED
    BY <1>2, <1>3, <1>4 DEF IInv

\* Turning to a row: it is skipped only if its file is there.
LEMMA BeginRowInv ==
    ASSUME IInv, BeginRow
    PROVE  IInv'
  <1> USE DEF IInv, BeginRow, Exit
  <1>1. TypeOK'
    BY RowsAssumption DEF TypeOK, Outcomes
  <1>2. RunInv' /\ TempInv' /\ OutcomeInv'
    BY DEF RunInv, TempInv, OutcomeInv, TypeOK
  <1>3. SkippedInv' /\ FilesAreWhole' /\ LogMatchesDisk' /\ ZeroMeansDone'
    BY LogInv DEF RunInv
  <1> QED
    BY <1>1, <1>2, <1>3

\* Generation, download and the temporary file, and a failed attempt.
LEMMA WorkInv ==
    ASSUME IInv, Generate \/ Download \/ Write \/ AttemptFails
    PROVE  IInv'
  <1>1. /\ pc \in {"generate", "download", "write", "replace"}
        /\ UNCHANGED <<files, log, exit, limit, resume, row>>
    BY DEF Generate, Download, Write, AttemptFails
  <1>2. row \in 1..Rows /\ Path(row) \in Paths
    BY <1>1, RowPath DEF IInv
  <1>3. TypeOK'
    BY <1>1, <1>2, RowsAssumption
    DEF IInv, TypeOK, Generate, Download, Write, AttemptFails, Fault,
        Contents, Outcomes
  <1>4. TempInv'
    BY <1>1, <1>2
    DEF IInv, TypeOK, TempInv, Path, Generate, Download, Write, AttemptFails
  <1>5. RunInv' /\ OutcomeInv'
    BY <1>1
    DEF IInv, RunInv, OutcomeInv, Generate, Download, Write, AttemptFails
  <1>6. SkippedInv' /\ FilesAreWhole' /\ LogMatchesDisk' /\ ZeroMeansDone'
    BY <1>1, LogInv
  <1> QED
    BY <1>3, <1>4, <1>5, <1>6 DEF IInv

\* Moving the image into place: the rows logged before it with the same path
\* find the image of a later row there.
LEMMA ReplaceInv ==
    ASSUME IInv, Replace
    PROVE  IInv'
  <1>1. /\ pc = "replace"
        /\ temps[Path(row)] = row
        /\ files' = [files EXCEPT ![Path(row)] = row]
        /\ temps' = [temps EXCEPT ![Path(row)] = None]
        /\ outcome' = "success"
        /\ pc' = "record"
        /\ UNCHANGED <<log, exit, limit, resume, row, attempt, faults>>
    BY DEF Replace, IInv, TempInv
  <1>2. row \in 1..Rows /\ Path(row) \in Paths
    BY <1>1, RowPath DEF IInv
  <1>3. files \in [Paths -> Contents] /\ Len(log) = row - 1
        /\ DOMAIN log = 1..(row - 1)
    BY <1>2 DEF IInv, TypeOK
  <1>4. TypeOK'
    BY <1>1, <1>2 DEF IInv, TypeOK, Contents, Outcomes
  <1>5. RunInv' /\ TempInv' /\ OutcomeInv'
    BY <1>1, <1>2, <1>3 DEF IInv, RunInv, TempInv, OutcomeInv, Path
  <1>6. \A p \in Paths : files'[p] = IF p = Path(row) THEN row ELSE files[p]
    BY <1>1, <1>3
  <1>7. \A i \in DOMAIN log : i \in 1..Rows /\ i <= row /\ Path(i) \in Paths
    BY <1>2, <1>3, RowsAssumption DEF Paths
  <1>8. FilesAreWhole'
    BY <1>2, <1>6 DEF IInv, FilesAreWhole
  <1>9. SkippedInv'
    BY <1>1, <1>2, <1>6, <1>7, FileAssumption DEF IInv, SkippedInv
  <1>10. LogMatchesDisk'
    <2> SUFFICES ASSUME NEW i \in DOMAIN log, log[i] = "success"
                 PROVE  \E j \in i..Rows : Path(j) = Path(i)
                                            /\ files'[Path(i)] = j
      BY <1>1 DEF LogMatchesDisk, Path
    <2>1. CASE Path(i) = Path(row)
      BY <2>1, <1>2, <1>6, <1>7
    <2>2. CASE Path(i) # Path(row)
      BY <2>2, <1>6, <1>7 DEF IInv, LogMatchesDisk
    <2> QED
      BY <2>1, <2>2
  <1>11. ZeroMeansDone'
    BY <1>1 DEF IInv, RunInv, ZeroMeansDone
  <1> QED
    BY <1>4, <1>5, <1>8, <1>9, <1>10, <1>11 DEF IInv

\* Recording an outcome adds a true line to the log.
LEMMA RecordInv ==
    ASSUME IInv, Record
    PROVE  IInv'
  <1>1. /\ pc = "record" /\ pc' = "row"
        /\ log' = Append(log, outcome)
        /\ row' = row + 1
        /\ UNCHANGED <<files, temps, exit, limit, resume, attempt, outcome,
                       faults>>
    BY DEF Record
  <1>2. row \in 1..Rows /\ Path(row) \in Paths
    BY <1>1, RowPath DEF IInv
  <1>3. log \in Seq(Outcomes) /\ Len(log) = row - 1 /\ outcome \in Outcomes
    BY DEF IInv, TypeOK
  <1>4. /\ log' \in Seq(Outcomes) /\ Len(log') = row
        /\ DOMAIN log' = 1..row /\ DOMAIN log = 1..(row - 1)
        /\ log'[row] = outcome
        /\ \A i \in DOMAIN log : log'[i] = log[i]
    BY <1>1, <1>2, <1>3
  <1>5. TypeOK'
    BY <1>1, <1>2, <1>4, RowsAssumption DEF IInv, TypeOK
  <1>6. RunInv' /\ TempInv' /\ OutcomeInv'
    BY <1>1, <1>2 DEF IInv, TypeOK, RunInv, TempInv, OutcomeInv
  <1>7. \A i \in DOMAIN log' : i = row \/ i \in DOMAIN log
    BY <1>2, <1>4
  <1>8. SkippedInv'
    BY <1>1, <1>4, <1>7 DEF IInv, SkippedInv, OutcomeInv, Path
  <1>9. LogMatchesDisk'
    BY <1>1, <1>2, <1>4, <1>7 DEF IInv, LogMatchesDisk, OutcomeInv, Path
  <1>10. FilesAreWhole' /\ ZeroMeansDone'
    BY <1>1 DEF IInv, RunInv, FilesAreWhole, ZeroMeansDone, Path
  <1> QED
    BY <1>5, <1>6, <1>8, <1>9, <1>10 DEF IInv

\* The end of a run: with no failure in the log, each of its rows has a file.
LEMMA FinishInv ==
    ASSUME IInv, Finish
    PROVE  IInv'
  <1>1. /\ pc = "row" /\ row > limit
        /\ exit' = IF Failed THEN "1" ELSE "0"
        /\ pc' = "idle"
        /\ UNCHANGED <<files, temps, log, limit, resume, row, attempt, outcome,
                       faults>>
    BY DEF Finish, Exit
  <1>2. row = limit + 1 /\ Len(log) = limit /\ DOMAIN log = 1..limit
    BY <1>1 DEF IInv, TypeOK, RunInv
  <1>3. TypeOK' /\ RunInv' /\ TempInv' /\ OutcomeInv'
    BY <1>1 DEF IInv, TypeOK, RunInv, TempInv, OutcomeInv
  <1>4. SkippedInv' /\ FilesAreWhole' /\ LogMatchesDisk'
    BY <1>1 DEF IInv, SkippedInv, FilesAreWhole, LogMatchesDisk, Path
  <1>5. ZeroMeansDone'
    <2> SUFFICES ASSUME ~Failed, NEW i \in 1..limit
                 PROVE  log[i] # "failed" /\ files[Path(i)] # None
      BY <1>1, <1>2 DEF ZeroMeansDone, Path
    <2>1. log[i] \in {"success", "skipped"}
      BY <1>2 DEF Failed, IInv, TypeOK, Outcomes
    <2>2. CASE log[i] = "success"
      BY <2>2, <1>2, FileAssumption DEF IInv, LogMatchesDisk, TypeOK
    <2>3. CASE log[i] = "skipped"
      BY <2>3, <1>2 DEF IInv, SkippedInv
    <2> QED
      BY <2>1, <2>2, <2>3
  <1> QED
    BY <1>3, <1>4, <1>5 DEF IInv

LEMMA NextIInv == IInv /\ [Next]_vars => IInv'
  <1> SUFFICES ASSUME IInv, [Next]_vars PROVE IInv'
    OBVIOUS
  <1>1. CASE \E again \in BOOLEAN, rows \in 1..Rows : Start(again, rows)
    BY <1>1, StartInv
  <1>2. CASE StartFails \/ Stop
    BY <1>2, EndInv
  <1>3. CASE BeginRow
    BY <1>3, BeginRowInv
  <1>4. CASE Generate \/ Download \/ Write \/ AttemptFails
    BY <1>4, WorkInv
  <1>5. CASE Replace
    BY <1>5, ReplaceInv
  <1>6. CASE Record
    BY <1>6, RecordInv
  <1>7. CASE Finish
    BY <1>7, FinishInv
  <1>8. CASE UNCHANGED vars
    BY <1>8
    DEF vars, IInv, TypeOK, RunInv, TempInv, OutcomeInv, SkippedInv,
        FilesAreWhole, LogMatchesDisk, ZeroMeansDone, Path
  <1> QED
    BY <1>1, <1>2, <1>3, <1>4, <1>5, <1>6, <1>7, <1>8 DEF Next, RunStep

LEMMA Invariance == Spec => []IInv
  BY InitIInv, NextIInv, PTL DEF Spec

-----------------------------------------------------------------------------
(***************************************************************************)
(* The theorems.                                                           *)
(***************************************************************************)

\* Every variable keeps its type; the log has a line for each row the run is
\* done with.
THEOREM TypeCorrect == Spec => []TypeOK
  BY Invariance, PTL DEF IInv

\* However many runs were stopped or failed, and wherever: no output file is
\* partial, and none has the image of another asset or ratio.
THEOREM WholeFiles == Spec => []FilesAreWhole
  BY Invariance, PTL DEF IInv

\* A success in the log is an image on disk.
THEOREM TrueLog == Spec => []LogMatchesDisk
  BY Invariance, PTL DEF IInv

\* Exit code 0 means that no row of the run lacks its image.
THEOREM HonestExit == Spec => []ZeroMeansDone
  BY Invariance, PTL DEF IInv
=============================================================================
