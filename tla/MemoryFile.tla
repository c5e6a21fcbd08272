----------------------------- MODULE MemoryFile -----------------------------
(***************************************************************************)
(* The default long-term memory (memory/filememory), as the expiry loop of *)
(* SessionHistory and the dashboard use it: one text file for each key,    *)
(* rewritten from a copy that was read up to 90 seconds earlier, and a log *)
(* of the changes in the database.  No lock protects the file.             *)
(*                                                                         *)
(* A text is the set of what it tells: what a file of the directory told   *)
(* before, turns, by number, and edits the user made on the dashboard.     *)
(***************************************************************************)
EXTENDS SessionHistory

CONSTANTS
  Dirs,       \* storage directories the settings may name
  OldDirs,    \* those that held memory files before the program was started
  MaxEdits,   \* bound of the saves from the dashboard
  FileFaults  \* which of "disk", "log" may fail

ASSUME DirsAssumption == Dirs # {} /\ OldDirs \subseteq Dirs
ASSUME MaxEditsAssumption == MaxEdits \in Nat
\* A disk or a log that fails is one way in which a summary fails.
ASSUME FileFaultsAssumption ==
  /\ FileFaults \subseteq {"disk", "log"}
  /\ FileFaults # {} => "summary" \in Faults

VARIABLES
  dir,      \* Settings.MemoryStorageDir
  file,     \* the files
  writer,   \* the two writers: place, file, text read, text to write
  page,     \* the text the dashboard shows for a key
  edits,    \* saves from the dashboard so far
  logged,   \* memory_update_logs: what the recorded texts tell, together
  unlogged  \* history: what was found in a file, or was written, and for which
            \* no record was made

fileVars   == <<dir, file, writer, page, edits, logged, unlogged>>
memoryVars == <<sessionVars, fileVars>>

Writers == {"summary", "dashboard"}
Places  == {"idle", "asking", "ready", "open", "written"}
Paths   == Keys \X Dirs
Found   == 0   \* what a file told before the program knew of it
Texts   == SUBSET (Found..(MaxTurns + MaxEdits))

Blank == {}
NoPath == << >>
Idle  == [at |-> "idle", path |-> NoPath, before |-> Blank, after |-> Blank]
Edit  == MaxTurns + edits + 1

\* What a session adds to a text.
Told(s) == {t.id : t \in s.turns}

DiskMayFail == "disk" \in FileFaults
LogMayFail  == "log" \in FileFaults

MemoryInit ==
  /\ Init
  /\ dir \in Dirs
  /\ file = [p \in Paths |-> IF p[2] \in OldDirs THEN {Found} ELSE Blank]
  /\ writer = [x \in Writers |-> Idle]
  /\ page = [k \in Keys |-> Blank]
  /\ edits = 0
  /\ logged = {}
  /\ unlogged = {Found}

-----------------------------------------------------------------------------
(* Rewriting a file: os.WriteFile truncates it first.                      *)

\* Mutant: the writer keeps what it has read.
KeepsText(x, ok) ==
  /\ writer' = [writer EXCEPT ![x].at = "idle"]
  /\ IF x = "summary" THEN HandOver(ok) ELSE UNCHANGED sessionVars
\* The writer returns to its caller; for the expiry loop that is the end of
\* UpdateFromSession.
Return(x, ok) ==
  /\ writer' = [writer EXCEPT ![x] = Idle]
  /\ IF x = "summary" THEN HandOver(ok) ELSE UNCHANGED sessionVars

Truncate(x) ==
  /\ writer[x].at = "ready"
  /\ file' = [file EXCEPT ![writer[x].path] = Blank]
  /\ writer' = [writer EXCEPT ![x].at = "open"]
  /\ UNCHANGED <<sessionVars, dir, page, edits, logged, unlogged>>

\* Two writers that hold the file open each write from its beginning: of a
\* longer text that is there already, the end remains.
Fill(x) ==
  /\ writer[x].at = "open"
  /\ \E tail \in {Blank, file[writer[x].path]} :
       file' = [file EXCEPT ![writer[x].path] = writer[x].after \cup tail]
  /\ writer' = [writer EXCEPT ![x].at = "written"]
  /\ UNCHANGED <<sessionVars, dir, page, edits, logged, unlogged>>

OpenFails(x) ==
  /\ DiskMayFail
  /\ writer[x].at = "ready"
  /\ Return(x, FALSE)
  /\ UNCHANGED <<dir, file, page, edits, logged, unlogged>>

\* The disk is full: part of the text, or none of it, is in the file.
WriteFails(x) ==
  /\ DiskMayFail
  /\ writer[x].at = "open"
  /\ \E part \in SUBSET writer[x].after :
       /\ file' = [file EXCEPT ![writer[x].path] = @ \cup part]
       /\ unlogged' = unlogged \cup part
  /\ Return(x, FALSE)
  /\ UNCHANGED <<dir, page, edits, logged>>

\* Mutant: the dashboard's save is not logged.
LogsSummaries(x) == IF x = "summary" THEN writer[x].before \cup writer[x].after
                                     ELSE Blank
\* The record holds both texts.
LogRecord(x) == writer[x].before \cup writer[x].after

AppendUpdateLog(x) ==
  /\ writer[x].at = "written"
  /\ logged' = logged \cup LogRecord(x)
  /\ Return(x, TRUE)
  /\ UNCHANGED <<dir, file, page, edits, unlogged>>

\* The insert fails: the file has changed all the same, and the loop will hand
\* over the session again.
LogFails(x) ==
  /\ LogMayFail
  /\ writer[x].at = "written"
  /\ unlogged' = unlogged \cup writer[x].after
  /\ Return(x, FALSE)
  /\ UNCHANGED <<dir, file, page, edits, logged>>

Rewrite(x) == Truncate(x) \/ Fill(x) \/ AppendUpdateLog(x)

-----------------------------------------------------------------------------
(* UpdateFromSession.                                                      *)

ReadMemory ==
  /\ writer["summary"].at = "idle"
  /\ todo # << >>
  /\ Head(todo).turns # {}
  /\ LET path == <<Head(todo).key, dir>>
     IN  writer' = [writer EXCEPT !["summary"] =
                      [at |-> "asking", path |-> path,
                       before |-> file[path], after |-> file[path]]]
  /\ UNCHANGED <<sessionVars, dir, file, page, edits, logged, unlogged>>

ReadFails ==
  /\ DiskMayFail
  /\ writer["summary"].at = "idle"
  /\ HandOver(FALSE)
  /\ UNCHANGED fileVars

\* The model answers with a new text, in which it may have kept or dropped
\* anything,
SummaryChanges ==
  /\ writer["summary"].at = "asking"
  /\ \E after \in SUBSET (writer["summary"].before \cup Told(Head(todo))) :
       /\ after # writer["summary"].before
       /\ writer' = [writer EXCEPT !["summary"].at = "ready",
                                   !["summary"].after = after]
  /\ UNCHANGED <<sessionVars, dir, file, page, edits, logged, unlogged>>

\* or with the old one, which is neither written nor logged,
SummarySkipped ==
  /\ writer["summary"].at = "asking"
  /\ Return("summary", TRUE)
  /\ UNCHANGED <<dir, file, page, edits, logged, unlogged>>

\* or not at all.
SummaryFails ==
  /\ "summary" \in Faults
  /\ writer["summary"].at = "asking"
  /\ Return("summary", FALSE)
  /\ UNCHANGED <<dir, file, page, edits, logged, unlogged>>

-----------------------------------------------------------------------------
(* The dashboard: handleMemoryFile and handleMemorySettings.               *)

LoadPage(k) ==
  /\ page' = [page EXCEPT ![k] = file[<<k, dir>>]]
  /\ UNCHANGED <<sessionVars, dir, file, writer, edits, logged, unlogged>>

\* SaveFile: what is saved is left of the text the page shows, with or without
\* an edit.  The text that is in the file already is not written again.
SavePage(k) ==
  /\ writer["dashboard"].at = "idle"
  /\ edits < MaxEdits
  /\ edits' = edits + 1
  /\ \E text \in SUBSET (page[k] \cup {Edit}) :
       /\ page' = [page EXCEPT ![k] = text]
       /\ writer' = IF text = file[<<k, dir>>] THEN writer
                    ELSE [writer EXCEPT !["dashboard"] =
                            [at |-> "ready", path |-> <<k, dir>>,
                             before |-> file[<<k, dir>>], after |-> text]]
  /\ UNCHANGED <<sessionVars, dir, file, logged, unlogged>>

UpdateMemoryStorageDir(d) ==
  /\ d # dir
  /\ dir' = d
  /\ UNCHANGED <<sessionVars, file, writer, page, edits, logged, unlogged>>

\* The process dies; an open file stays as it is, what was written and not
\* logged stays without a record.
RestartMemory ==
  /\ Restart
  /\ writer' = [x \in Writers |-> Idle]
  /\ unlogged' = unlogged \cup
       UNION {writer[x].after : x \in {x \in Writers : writer[x].at = "written"}}
  /\ UNCHANGED <<dir, file, page, edits, logged>>

-----------------------------------------------------------------------------
SummaryStep ==
  \/ ReadMemory
  \/ SummaryChanges
  \/ SummarySkipped
  \/ Rewrite("summary")

SummaryFailure ==
  \/ ReadFails
  \/ SummaryFails
  \/ OpenFails("summary")
  \/ WriteFails("summary")
  \/ LogFails("summary")

DashboardStep ==
  \/ \E k \in Keys : LoadPage(k) \/ SavePage(k)
  \/ \E d \in Dirs : UpdateMemoryStorageDir(d)
  \/ Rewrite("dashboard")
  \/ OpenFails("dashboard")
  \/ WriteFails("dashboard")
  \/ LogFails("dashboard")

SessionStep ==
  \/ VoiceStep
  \/ SnapshotAll
  \/ \E w \in Windows : SetWindow(w)
  \/ Reset
  \/ Tick
  \/ \E at \in 0..now : Sweep(at)
  \/ SkipEmpty

MemoryNext ==
  \/ SummaryStep
  \/ SummaryFailure
  \/ DashboardStep
  \/ SessionStep /\ UNCHANGED fileVars
  \/ RestartMemory

LoopStep ==
  \/ (\E at \in 0..now : Sweep(at)) /\ UNCHANGED fileVars
  \/ SkipEmpty /\ UNCHANGED fileVars
  \/ SummaryStep
  \/ SummaryFailure

\* The expiry loop goes on, and the model, the disk and the log do not fail for
\* ever: each summary has 90 seconds, and is tried again after each sweep.
MemoryFairness ==
  /\ WF_memoryVars(LoopStep)
  /\ <>[][~SummaryFailure]_memoryVars

MemorySpec == MemoryInit /\ [][MemoryNext]_memoryVars /\ MemoryFairness

-----------------------------------------------------------------------------
(* Properties. *)

\* The types of the variables; a writer that holds a file open has a path.
MemoryTypeOK ==
  /\ SessionTypeOK
  /\ dir \in Dirs
  /\ file \in [Paths -> Texts]
  /\ writer \in [Writers -> [at : Places, path : Paths \cup {NoPath},
                             before : Texts, after : Texts]]
  /\ \A x \in Writers : writer[x].at = "idle" <=> writer[x] = Idle
  /\ page \in [Keys -> Texts]
  /\ edits \in 0..MaxEdits
  /\ logged \in Texts
  /\ unlogged \in Texts

\* What waits for its summary gets it, or is lost in a crash, however often the
\* model, the disk and the log fail before.
EndedIsSummarised ==
  (TurnsOf(WaitingSessions) # {}) ~> (TurnsOf(WaitingSessions) = {})

\* Whatever two writers, a stale page, a full disk or a crash have made of the
\* file, what a text once told is still in a file, or in the log, or is about
\* to be logged; only an insert that fails or never happens hides it, and what
\* was in the directory before.
LostTextIsInLog ==
  [][\A p \in Paths : \A i \in file[p] :
       \/ \E q \in Paths : i \in file'[q]
       \/ i \in logged'
       \/ \E x \in Writers : writer'[x].at = "written" /\ i \in writer'[x].after
       \/ i \in unlogged']_memoryVars

=============================================================================
