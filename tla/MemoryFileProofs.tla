-------------------------- MODULE MemoryFileProofs --------------------------
(***************************************************************************)
(* Theorems about MemoryFile, for any number of keys, directories, turns   *)
(* and edits, and every choice of faults.                                  *)
(*                                                                         *)
(* The memory is the service that SessionHistory hands its sessions to and *)
(* knows only by its answer: every step of MemoryFile is one of            *)
(* SessionHistory, or none, so that its theorems hold here, too.           *)
(***************************************************************************)
EXTENDS MemoryFile, SessionHistoryProofs

-----------------------------------------------------------------------------
(* The refinement. *)

LEMMA MemoryStepIsSessionStep ==
  ASSUME [MemoryNext]_memoryVars
  PROVE  [SessionNext]_sessionVars
<1>1. CASE UNCHANGED memoryVars
  BY <1>1 DEF memoryVars
<1>2. ASSUME NEW x \in Writers, NEW ok \in BOOLEAN, Return(x, ok),
             ok \/ "summary" \in Faults
      PROVE  [SessionNext]_sessionVars
  BY <1>2 DEF Return, SessionNext
<1>3. CASE SummaryStep
  BY <1>2, <1>3 DEF SummaryStep, ReadMemory, SummaryChanges, SummarySkipped, Rewrite,
     Truncate, Fill, AppendUpdateLog, Writers
<1>4. CASE SummaryFailure
  <2>1. "summary" \in Faults
    BY <1>4, FileFaultsAssumption DEF SummaryFailure, ReadFails, SummaryFails, OpenFails, WriteFails,
       LogFails, DiskMayFail, LogMayFail
  <2>2. CASE ReadFails
    BY <2>1, <2>2 DEF ReadFails, SessionNext
  <2>3. CASE SummaryFails \/ OpenFails("summary") \/ WriteFails("summary") \/ LogFails("summary")
    BY <1>2, <2>1, <2>3 DEF SummaryFails, OpenFails, WriteFails, LogFails, Writers
  <2> QED BY <1>4, <2>2, <2>3 DEF SummaryFailure
<1>5. CASE DashboardStep
  <2>1. UNCHANGED sessionVars
    BY <1>5 DEF DashboardStep, LoadPage, SavePage, UpdateMemoryStorageDir, Rewrite, Truncate,
       Fill, AppendUpdateLog, OpenFails, WriteFails, LogFails, Return
  <2> QED BY <2>1
<1>6. CASE SessionStep
  BY <1>6 DEF SessionStep, SessionNext, Environment
<1>7. CASE RestartMemory
  BY <1>7 DEF RestartMemory, SessionNext, Environment
<1> QED BY <1>1, <1>3, <1>4, <1>5, <1>6, <1>7 DEF MemoryNext

\* With the file, its two writers and the log in the place of an answer that
\* comes at once, the windows and the expiry loop behave as SessionHistory says.
THEOREM MemoryImplementsSession == MemorySpec => SessionSpec
<1>1. MemoryInit => Init
  BY DEF MemoryInit
<1>2. [MemoryNext]_memoryVars => [SessionNext]_sessionVars
  BY MemoryStepIsSessionStep
<1> QED BY <1>1, <1>2, PTL DEF MemorySpec, SessionSpec

-----------------------------------------------------------------------------
(* The types. *)

\* The loop calls UpdateFromSession and waits: until it returns, the session
\* it is about stays the first of the list.
LoopWaits ==
  writer["summary"].at # "idle" => todo # << >> /\ Head(todo).turns # {}

\* A writer that is not idle has a path.
MemoryInv ==
  /\ SessionInv
  /\ MemoryTypeOK
  /\ LoopWaits
  /\ \A x \in Writers : writer[x].at # "idle" => writer[x].path \in Paths

WriterStates == [at : Places, path : Paths \cup {NoPath}, before : Texts, after : Texts]

LEMMA IdleWriter == Idle \in WriterStates /\ Idle.at = "idle" /\ Blank \in Texts
BY DEF Idle, WriterStates, Places, NoPath, Blank, Texts

LEMMA ToldIsText ==
  ASSUME NEW s \in Sessions
  PROVE  Told(s) \in Texts
BY BoundsAssumption, MaxEditsAssumption DEF Told, Sessions, Turns, Texts, Found

\* What one step of a writer may leave: idle, or a place with a path and texts.
LEMMA WriterMoves ==
  ASSUME MemoryInv, NEW x \in Writers, NEW w \in WriterStates,
         writer' = [writer EXCEPT ![x] = w],
         \/ w = Idle
         \/ w.at # "idle" /\ w.path \in Paths
  PROVE  /\ writer' \in [Writers -> WriterStates]
         /\ \A y \in Writers : writer'[y].at = "idle" <=> writer'[y] = Idle
         /\ \A y \in Writers : writer'[y].at # "idle" => writer'[y].path \in Paths
<1>1. writer \in [Writers -> WriterStates]
  BY DEF MemoryInv, MemoryTypeOK, WriterStates
<1>2. \A y \in Writers : writer'[y] = IF y = x THEN w ELSE writer[y]
  BY <1>1
<1> QED BY <1>1, <1>2, IdleWriter DEF MemoryInv, MemoryTypeOK

WritersFine ==
  /\ writer \in [Writers -> WriterStates]
  /\ \A x \in Writers : writer[x].at = "idle" <=> writer[x] = Idle
  /\ \A x \in Writers : writer[x].at # "idle" => writer[x].path \in Paths

FilesFine ==
  /\ dir \in Dirs
  /\ file \in [Paths -> Texts]
  /\ page \in [Keys -> Texts]
  /\ edits \in 0..MaxEdits
  /\ logged \in Texts
  /\ unlogged \in Texts

LEMMA TextsUnion ==
  ASSUME NEW a \in Texts, NEW b \in Texts
  PROVE  a \cup b \in Texts
BY DEF Texts

LEMMA WriterTypes ==
  ASSUME MemoryInv, NEW x \in Writers
  PROVE  writer[x] \in WriterStates
BY DEF MemoryInv, MemoryTypeOK, WriterStates

LEMMA ReturnFine ==
  ASSUME MemoryInv, NEW x \in Writers, NEW ok \in BOOLEAN, Return(x, ok)
  PROVE  WritersFine'
<1>1. writer' = [writer EXCEPT ![x] = Idle]
  BY DEF Return
<1> QED BY <1>1, IdleWriter, WriterMoves DEF WritersFine

LEMMA RewriteFine ==
  ASSUME MemoryInv, NEW x \in Writers,
         Rewrite(x) \/ OpenFails(x) \/ WriteFails(x) \/ LogFails(x)
  PROVE  WritersFine' /\ FilesFine'
<1>0. /\ writer[x] \in WriterStates /\ FilesFine
      /\ writer[x].at # "idle" => writer[x].path \in Paths
  BY WriterTypes DEF MemoryInv, MemoryTypeOK, FilesFine
<1>1. ASSUME Truncate(x) PROVE WritersFine' /\ FilesFine'
  <2>1. PICK w : w = [writer[x] EXCEPT !.at = "open"]
    OBVIOUS
  <2>2. w \in WriterStates /\ w.at # "idle" /\ w.path \in Paths
    BY <1>0, <1>1, <2>1 DEF Truncate, WriterStates, Places
  <2>3. writer' = [writer EXCEPT ![x] = w]
    BY <1>1, <2>1 DEF Truncate
  <2>4. WritersFine'
    BY <2>2, <2>3, WriterMoves DEF WritersFine
  <2>5. FilesFine'
    BY <1>0, <1>1, IdleWriter DEF Truncate, FilesFine
  <2> QED BY <2>4, <2>5
<1>2. ASSUME Fill(x) PROVE WritersFine' /\ FilesFine'
  <2>1. PICK w : w = [writer[x] EXCEPT !.at = "written"]
    OBVIOUS
  <2>2. w \in WriterStates /\ w.at # "idle" /\ w.path \in Paths
    BY <1>0, <1>2, <2>1 DEF Fill, WriterStates, Places
  <2>3. writer' = [writer EXCEPT ![x] = w]
    BY <1>2, <2>1 DEF Fill
  <2>4. WritersFine'
    BY <2>2, <2>3, WriterMoves DEF WritersFine
  <2>5. PICK tail \in {Blank, file[writer[x].path]} :
          file' = [file EXCEPT ![writer[x].path] = writer[x].after \cup tail]
    BY <1>2 DEF Fill
  <2>6. tail \in Texts /\ writer[x].after \in Texts
    BY <1>0, <1>2, IdleWriter DEF Fill, FilesFine, WriterStates
  <2>7. file' \in [Paths -> Texts]
    BY <1>0, <2>5, <2>6, TextsUnion DEF FilesFine
  <2> QED BY <1>0, <1>2, <2>4, <2>7 DEF Fill, FilesFine
<1>3. ASSUME AppendUpdateLog(x) PROVE WritersFine' /\ FilesFine'
  <2>1. LogRecord(x) \in Texts
    BY <1>0, TextsUnion DEF LogRecord, WriterStates
  <2>2. FilesFine'
    BY <1>0, <1>3, <2>1, TextsUnion DEF AppendUpdateLog, FilesFine
  <2> QED BY <1>3, <2>2, ReturnFine DEF AppendUpdateLog
<1>4. ASSUME OpenFails(x) \/ WriteFails(x) PROVE WritersFine' /\ FilesFine'
  <2>1. CASE OpenFails(x)
    BY <1>0, <2>1, ReturnFine DEF OpenFails, FilesFine
  <2>2. CASE WriteFails(x)
    <3>1. PICK part \in SUBSET writer[x].after :
            /\ file' = [file EXCEPT ![writer[x].path] = @ \cup part]
            /\ unlogged' = unlogged \cup part
      BY <2>2 DEF WriteFails
    <3>2. part \in Texts
      BY <1>0 DEF WriterStates, Texts
    <3>3. file' \in [Paths -> Texts] /\ unlogged' \in Texts
      BY <1>0, <3>1, <3>2, TextsUnion DEF FilesFine
    <3> QED BY <1>0, <2>2, <3>3, ReturnFine DEF WriteFails, FilesFine
  <2> QED BY <1>4, <2>1, <2>2
<1>5. ASSUME LogFails(x) PROVE WritersFine' /\ FilesFine'
  <2>1. writer[x].after \in Texts
    BY <1>0 DEF WriterStates
  <2>2. FilesFine'
    BY <1>0, <1>5, <2>1, TextsUnion DEF LogFails, FilesFine
  <2> QED BY <1>5, <2>2, ReturnFine DEF LogFails
<1> QED BY <1>1, <1>2, <1>3, <1>4, <1>5 DEF Rewrite

LEMMA SummaryFine ==
  ASSUME MemoryInv, ReadMemory \/ SummaryChanges \/ SummarySkipped \/ SummaryFails
  PROVE  WritersFine' /\ FilesFine'
<1> DEFINE x == "summary"
<1>0. /\ x \in Writers /\ writer[x] \in WriterStates /\ FilesFine
      /\ writer[x].at # "idle" => writer[x].path \in Paths
      /\ todo # << >> => Head(todo) \in Sessions
  BY WriterTypes DEF MemoryInv, MemoryTypeOK, SessionTypeOK, FilesFine, Writers
<1>1. ASSUME ReadMemory PROVE WritersFine' /\ FilesFine'
  <2>1. PICK p : p = <<Head(todo).key, dir>>
    OBVIOUS
  <2>2. PICK w : w = [at |-> "asking", path |-> p, before |-> file[p], after |-> file[p]]
    OBVIOUS
  <2>3. p \in Paths
    BY <1>0, <1>1, <2>1 DEF ReadMemory, Paths, FilesFine, Sessions
  <2>4. w \in WriterStates /\ w.at # "idle" /\ w.path \in Paths
    BY <1>0, <2>2, <2>3 DEF WriterStates, Places, FilesFine
  <2>5. writer' = [writer EXCEPT ![x] = w]
    BY <1>1, <2>1, <2>2 DEF ReadMemory
  <2>6. WritersFine'
    BY <1>0, <2>4, <2>5, WriterMoves DEF WritersFine
  <2> QED BY <1>0, <1>1, <2>6 DEF ReadMemory, FilesFine
<1>2. ASSUME SummaryChanges PROVE WritersFine' /\ FilesFine'
  <2>1. PICK after \in SUBSET (writer[x].before \cup Told(Head(todo))) :
          writer' = [writer EXCEPT ![x].at = "ready", ![x].after = after]
    BY <1>2 DEF SummaryChanges
  <2>2. PICK w : w = [writer[x] EXCEPT !.at = "ready", !.after = after]
    OBVIOUS
  <2>3. writer' = [writer EXCEPT ![x] = w]
    BY <1>0, <2>1, <2>2 DEF MemoryInv, MemoryTypeOK
  <2>4. after \in Texts
    <3>1. writer[x].before \in Texts /\ Told(Head(todo)) \in Texts
      BY <1>0, <1>2, ToldIsText DEF SummaryChanges, WriterStates, MemoryInv, LoopWaits
    <3> QED BY <3>1 DEF Texts
  <2>5. w \in WriterStates /\ w.at # "idle" /\ w.path \in Paths
    BY <1>0, <1>2, <2>2, <2>4 DEF SummaryChanges, WriterStates, Places
  <2>6. WritersFine'
    BY <1>0, <2>3, <2>5, WriterMoves DEF WritersFine
  <2> QED BY <1>0, <1>2, <2>6 DEF SummaryChanges, FilesFine
<1>3. ASSUME SummarySkipped \/ SummaryFails PROVE WritersFine' /\ FilesFine'
  BY <1>0, <1>3, ReturnFine DEF SummarySkipped, SummaryFails, FilesFine
<1> QED BY <1>1, <1>2, <1>3

LEMMA DashboardFine ==
  ASSUME MemoryInv, \/ \E k \in Keys : LoadPage(k) \/ SavePage(k)
                    \/ \E d \in Dirs : UpdateMemoryStorageDir(d)
  PROVE  WritersFine' /\ FilesFine'
<1> USE BoundsAssumption, MaxEditsAssumption
<1>0. FilesFine /\ WritersFine
  BY DEF MemoryInv, MemoryTypeOK, FilesFine, WritersFine, WriterStates
<1>1. ASSUME NEW k \in Keys, LoadPage(k) PROVE WritersFine' /\ FilesFine'
  <2>1. file[<<k, dir>>] \in Texts
    BY <1>0 DEF FilesFine, Paths
  <2> QED BY <1>0, <1>1, <2>1 DEF LoadPage, FilesFine, WritersFine
<1>2. ASSUME NEW k \in Keys, SavePage(k) PROVE WritersFine' /\ FilesFine'
  <2>1. PICK text \in SUBSET (page[k] \cup {Edit}) :
          /\ page' = [page EXCEPT ![k] = text]
          /\ writer' = IF text = file[<<k, dir>>] THEN writer
                       ELSE [writer EXCEPT !["dashboard"] =
                               [at |-> "ready", path |-> <<k, dir>>,
                                before |-> file[<<k, dir>>], after |-> text]]
    BY <1>2 DEF SavePage
  <2>2. text \in Texts
    <3>1. page[k] \in Texts /\ {Edit} \in Texts
      BY <1>0, <1>2 DEF SavePage, FilesFine, Edit, Texts, Found
    <3> QED BY <3>1 DEF Texts
  <2>3. page' \in [Keys -> Texts] /\ edits' \in 0..MaxEdits
    BY <1>0, <1>2, <2>1, <2>2 DEF SavePage, FilesFine
  <2>4. FilesFine'
    BY <1>0, <1>2, <2>3 DEF SavePage, FilesFine
  <2>5. PICK p : p = <<k, dir>>
    OBVIOUS
  <2>6. PICK w : w = [at |-> "ready", path |-> p, before |-> file[p], after |-> text]
    OBVIOUS
  <2>7. p \in Paths
    BY <1>0, <2>5 DEF Paths, FilesFine
  <2>8. w \in WriterStates /\ w.at # "idle" /\ w.path \in Paths
    BY <1>0, <2>2, <2>6, <2>7 DEF WriterStates, Places, FilesFine
  <2>9. CASE writer' = [writer EXCEPT !["dashboard"] = w]
    <3>1. "dashboard" \in Writers
      BY DEF Writers
    <3> QED BY <2>4, <2>8, <2>9, <3>1, WriterMoves DEF WritersFine
  <2>10. CASE writer' = writer
    BY <1>0, <2>4, <2>10 DEF WritersFine, WriterStates
  <2> QED BY <2>1, <2>4, <2>5, <2>6, <2>9, <2>10
<1>3. ASSUME NEW d \in Dirs, UpdateMemoryStorageDir(d) PROVE WritersFine' /\ FilesFine'
  BY <1>0, <1>3 DEF UpdateMemoryStorageDir, FilesFine, WritersFine
<1> QED BY <1>1, <1>2, <1>3

LEMMA RestartFine ==
  ASSUME MemoryInv, RestartMemory
  PROVE  WritersFine' /\ FilesFine'
<1>1. FilesFine /\ writer \in [Writers -> WriterStates]
  BY DEF MemoryInv, MemoryTypeOK, FilesFine, WriterStates
<1>2. \A x \in Writers : writer[x].after \in Texts
  BY <1>1 DEF WriterStates
<1>3. unlogged' \in Texts
  BY <1>1, <1>2 DEF RestartMemory, FilesFine, Texts
<1>4. FilesFine'
  BY <1>1, <1>3 DEF RestartMemory, FilesFine
<1>5. WritersFine'
  BY IdleWriter DEF RestartMemory, WritersFine
<1> QED BY <1>4, <1>5

LEMMA FilesStayFine ==
  ASSUME MemoryInv, [MemoryNext]_memoryVars
  PROVE  WritersFine' /\ FilesFine'
<1>0. FilesFine /\ WritersFine
  BY DEF MemoryInv, MemoryTypeOK, FilesFine, WritersFine, WriterStates
<1>1. CASE UNCHANGED fileVars
  BY <1>0, <1>1 DEF fileVars, FilesFine, WritersFine
<1>2. CASE SummaryStep
  BY <1>2, SummaryFine, RewriteFine DEF SummaryStep, Writers
<1>3. CASE SummaryFailure
  BY <1>1, <1>3, SummaryFine, RewriteFine DEF SummaryFailure, ReadFails, Writers
<1>4. CASE DashboardStep
  BY <1>4, DashboardFine, RewriteFine DEF DashboardStep, Writers
<1>5. CASE RestartMemory
  BY <1>5, RestartFine
<1> QED BY <1>1, <1>2, <1>3, <1>4, <1>5 DEF MemoryNext, memoryVars

LEMMA LoopGoesOnWaiting ==
  ASSUME MemoryInv, [MemoryNext]_memoryVars
  PROVE  LoopWaits'
<1>0. /\ writer \in [Writers -> WriterStates] /\ "summary" \in Writers
      /\ "dashboard" \in Writers /\ LoopWaits
  BY DEF MemoryInv, MemoryTypeOK, WriterStates, Writers
<1>1. CASE writer'["summary"] = Idle
  BY <1>1, IdleWriter DEF LoopWaits
<1>2. CASE todo' = todo /\ writer'["summary"] = writer["summary"]
  BY <1>0, <1>2 DEF LoopWaits
<1>3. ASSUME NEW x \in Writers, NEW ok \in BOOLEAN, Return(x, ok) PROVE LoopWaits'
  <2>1. CASE x = "summary"
    BY <1>0, <1>1, <1>3, <2>1 DEF Return
  <2>2. CASE x = "dashboard"
    BY <1>0, <1>2, <1>3, <2>2 DEF Return, sessionVars
  <2> QED BY <2>1, <2>2 DEF Writers
<1>4. ASSUME NEW x \in Writers, Rewrite(x) \/ OpenFails(x) \/ WriteFails(x) \/ LogFails(x) PROVE LoopWaits'
  <2>1. CASE Truncate(x) \/ Fill(x)
    <3>1. todo' = todo
      BY <2>1 DEF Truncate, Fill, sessionVars
    <3>2. writer["summary"].at # "idle" \/ writer'["summary"] = writer["summary"]
      BY <1>0, <2>1 DEF Truncate, Fill
    <3> QED BY <1>0, <3>1, <3>2 DEF LoopWaits
  <2>2. CASE AppendUpdateLog(x) \/ OpenFails(x) \/ WriteFails(x) \/ LogFails(x)
    BY <1>3, <2>2 DEF AppendUpdateLog, OpenFails, WriteFails, LogFails
  <2> QED BY <1>4, <2>1, <2>2 DEF Rewrite
<1>5. CASE ReadMemory \/ SummaryChanges
  <2>1. todo' = todo
    BY <1>5 DEF ReadMemory, SummaryChanges, sessionVars
  <2>2. CASE ReadMemory
    BY <2>1, <2>2 DEF ReadMemory, LoopWaits
  <2>3. CASE SummaryChanges
    BY <1>0, <2>1, <2>3 DEF SummaryChanges, LoopWaits
  <2> QED BY <1>5, <2>2, <2>3
<1>6. CASE SummarySkipped \/ SummaryFails
  BY <1>0, <1>3, <1>6 DEF SummarySkipped, SummaryFails
<1>7. CASE ReadFails
  <2>1. writer' = writer /\ writer["summary"].at = "idle"
    BY <1>7 DEF ReadFails, fileVars
  <2> QED BY <2>1 DEF LoopWaits
<1>8. CASE \/ \E k \in Keys : LoadPage(k) \/ SavePage(k)
           \/ \E d \in Dirs : UpdateMemoryStorageDir(d)
  <2>1. todo' = todo
    BY <1>8 DEF LoadPage, SavePage, UpdateMemoryStorageDir, sessionVars
  <2>2. writer'["summary"] = writer["summary"]
    BY <1>0, <1>8 DEF LoadPage, SavePage, UpdateMemoryStorageDir
  <2> QED BY <1>2, <2>1, <2>2
<1>9. CASE SessionStep /\ UNCHANGED fileVars
  <2>1. writer' = writer
    BY <1>9 DEF fileVars
  <2>2. CASE todo' = todo
    BY <1>2, <2>1, <2>2
  <2>3. CASE todo = << >> \/ (todo # << >> /\ Head(todo).turns = {})
    BY <1>0, <2>1, <2>3 DEF LoopWaits
  <2>4. ASSUME todo' # todo
        PROVE  todo = << >> \/ (todo # << >> /\ Head(todo).turns = {})
    BY <1>9, <2>4 DEF SessionStep, VoiceStep, BeginTurn, StoreTurn, DropTurn, SnapshotAll,
       SetWindow, Reset, Tick, Sweep, SkipEmpty, loopVars
  <2> QED BY <2>2, <2>3, <2>4
<1>10. CASE RestartMemory
  BY <1>0, <1>1, <1>10 DEF RestartMemory
<1>11. CASE UNCHANGED memoryVars
  BY <1>2, <1>11 DEF memoryVars, sessionVars, fileVars
<1> QED BY <1>0, <1>4, <1>5, <1>6, <1>7, <1>8, <1>9, <1>10, <1>11
        DEF MemoryNext, SummaryStep, SummaryFailure, DashboardStep

LEMMA MemoryInvPreserved ==
  ASSUME MemoryInv, [MemoryNext]_memoryVars
  PROVE  MemoryInv'
<1>1. SessionInv'
  BY MemoryStepIsSessionStep, SessionInvPreserved DEF MemoryInv
<1>2. WritersFine' /\ FilesFine' /\ LoopWaits'
  BY FilesStayFine, LoopGoesOnWaiting
<1>3. SessionTypeOK'
  BY <1>1 DEF SessionInv
<1> QED BY <1>1, <1>2, <1>3 DEF MemoryInv, MemoryTypeOK, WritersFine, FilesFine, WriterStates

LEMMA MemoryInitially ==
  ASSUME MemoryInit
  PROVE  MemoryInv
<1>1. SessionInv
  BY SessionInitially DEF MemoryInit
<1>2. /\ writer \in [Writers -> WriterStates] /\ "summary" \in Writers
      /\ \A x \in Writers : writer[x] = Idle
  BY IdleWriter DEF MemoryInit, Writers
<1>3. FilesFine
  <2>1. {Found} \in Texts
    BY BoundsAssumption, MaxEditsAssumption DEF Texts, Found
  <2> QED BY <2>1, IdleWriter, MaxEditsAssumption DEF MemoryInit, FilesFine, Blank
<1>4. SessionTypeOK
  BY <1>1 DEF SessionInv
<1> QED BY <1>1, <1>2, <1>3, <1>4, IdleWriter
        DEF MemoryInv, MemoryTypeOK, FilesFine, WriterStates, LoopWaits

THEOREM MemoryInvariance == MemorySpec => []MemoryInv
<1>1. MemoryInit => MemoryInv
  BY MemoryInitially
<1>2. MemoryInv /\ [MemoryNext]_memoryVars => MemoryInv'
  BY MemoryInvPreserved
<1> QED BY <1>1, <1>2, PTL DEF MemorySpec

\* The variables of the file, its writers and the log keep their types.
THEOREM MemoryTypes == MemorySpec => []MemoryTypeOK
<1>1. MemoryInv => MemoryTypeOK
  BY DEF MemoryInv
<1> QED BY <1>1, MemoryInvariance, PTL

\* The session that is being summarised stays the first of the loop's list.
THEOREM LoopWaitsForSummary == MemorySpec => []LoopWaits
<1>1. MemoryInv => LoopWaits
  BY DEF MemoryInv
<1> QED BY <1>1, MemoryInvariance, PTL

-----------------------------------------------------------------------------
(* What a text tells. *)

\* What was written to a file is recorded: in the log, or by the writer that
\* has yet to log it, or its record was lost.
Recorded ==
  logged \cup unlogged \cup
    UNION {writer[x].after : x \in {x \in Writers : writer[x].at = "written"}}

TextsRecorded == \A p \in Paths : file[p] \subseteq Recorded

LEMMA ReturnsRecorded ==
  ASSUME MemoryInv, NEW x \in Writers, NEW ok \in BOOLEAN, Return(x, ok), TextsRecorded,
         \A p \in Paths : file'[p] \subseteq file[p] \cup unlogged',
         logged \cup unlogged \subseteq logged' \cup unlogged',
         writer[x].at = "written" => writer[x].after \subseteq logged' \cup unlogged'
  PROVE  TextsRecorded' /\ Recorded \subseteq Recorded'
<1>1. /\ writer' = [writer EXCEPT ![x] = Idle]
      /\ writer \in [Writers -> WriterStates]
  BY DEF Return, MemoryInv, MemoryTypeOK, WriterStates
<1>2. \A y \in Writers : writer'[y] = IF y = x THEN Idle ELSE writer[y]
  BY <1>1
<1>3. Recorded \subseteq Recorded'
  BY <1>2 DEF Recorded
<1>4. unlogged' \subseteq Recorded'
  BY DEF Recorded
<1> QED BY <1>3, <1>4 DEF TextsRecorded

LEMMA TextsStayRecorded ==
  ASSUME MemoryInv, TextsRecorded, [MemoryNext]_memoryVars
  PROVE  TextsRecorded' /\ Recorded \subseteq Recorded'
<1>0. writer \in [Writers -> WriterStates] /\ file \in [Paths -> Texts]
  BY DEF MemoryInv, MemoryTypeOK, WriterStates
<1>1. ASSUME NEW x \in Writers, Truncate(x) PROVE TextsRecorded' /\ Recorded \subseteq Recorded'
  <2>1. \A y \in Writers : /\ writer'[y].after = writer[y].after
                           /\ writer[y].at = "written" => writer'[y].at = "written"
    BY <1>0, <1>1 DEF Truncate, WriterStates
  <2>2. logged' = logged /\ unlogged' = unlogged
    BY <1>1 DEF Truncate
  <2>3. Recorded \subseteq Recorded'
    BY <2>1, <2>2 DEF Recorded
  <2>4. \A p \in Paths : file'[p] \subseteq file[p]
    BY <1>0, <1>1 DEF Truncate, Blank
  <2> QED BY <2>3, <2>4 DEF TextsRecorded
<1>2. ASSUME NEW x \in Writers, Fill(x) PROVE TextsRecorded' /\ Recorded \subseteq Recorded'
  <2>1. /\ \A y \in Writers : /\ writer'[y].after = writer[y].after
                              /\ writer[y].at = "written" => writer'[y].at = "written"
        /\ writer'[x].at = "written"
    BY <1>0, <1>2 DEF Fill, WriterStates
  <2>2. logged' = logged /\ unlogged' = unlogged
    BY <1>2 DEF Fill
  <2>3. Recorded \subseteq Recorded' /\ writer[x].after \subseteq Recorded'
    BY <2>1, <2>2 DEF Recorded
  <2>4. \A p \in Paths : file'[p] \subseteq file[p] \cup writer[x].after
    BY <1>0, <1>2 DEF Fill, Blank
  <2> QED BY <2>3, <2>4 DEF TextsRecorded
<1>3. ASSUME NEW x \in Writers, AppendUpdateLog(x) \/ OpenFails(x) \/ WriteFails(x) \/ LogFails(x)
      PROVE  TextsRecorded' /\ Recorded \subseteq Recorded'
  <2>1. CASE AppendUpdateLog(x)
    BY <2>1, ReturnsRecorded DEF AppendUpdateLog, LogRecord
  <2>2. CASE WriteFails(x)
    <3>1. PICK part \in SUBSET writer[x].after :
            /\ file' = [file EXCEPT ![writer[x].path] = @ \cup part]
            /\ unlogged' = unlogged \cup part
      BY <2>2 DEF WriteFails
    <3>2. \A p \in Paths : file'[p] \subseteq file[p] \cup unlogged'
      BY <1>0, <3>1
    <3> QED BY <2>2, <3>1, <3>2, ReturnsRecorded DEF WriteFails
  <2>4. CASE OpenFails(x)
    BY <2>4, ReturnsRecorded DEF OpenFails
  <2>3. CASE LogFails(x)
    BY <2>3, ReturnsRecorded DEF LogFails
  <2> QED BY <1>3, <2>1, <2>2, <2>3, <2>4
<1>4. CASE SummarySkipped \/ SummaryFails
  BY <1>4, ReturnsRecorded DEF SummarySkipped, SummaryFails, Writers
<1>5. CASE \/ ReadMemory \/ SummaryChanges
           \/ \E k \in Keys : LoadPage(k) \/ SavePage(k)
           \/ \E d \in Dirs : UpdateMemoryStorageDir(d)
  <2>1. file' = file /\ logged' = logged /\ unlogged' = unlogged
    BY <1>5 DEF ReadMemory, SummaryChanges, LoadPage, SavePage, UpdateMemoryStorageDir
  <2>2. \A y \in Writers : writer[y].at = "written" => writer'[y] = writer[y]
    BY <1>0, <1>5 DEF ReadMemory, SummaryChanges, LoadPage, SavePage, UpdateMemoryStorageDir
  <2>3. Recorded \subseteq Recorded'
    BY <2>1, <2>2 DEF Recorded
  <2> QED BY <2>1, <2>3 DEF TextsRecorded
<1>6. CASE UNCHANGED fileVars
  BY <1>6 DEF fileVars, TextsRecorded, Recorded
<1>7. CASE RestartMemory
  <2>1. file' = file /\ Recorded \subseteq Recorded'
    BY <1>7 DEF RestartMemory, Recorded
  <2> QED BY <2>1 DEF TextsRecorded
<1> QED BY <1>1, <1>2, <1>3, <1>4, <1>5, <1>6, <1>7
        DEF MemoryNext, memoryVars, SummaryStep, SummaryFailure, ReadFails, DashboardStep,
            Rewrite, Writers

\* What a text once told is not lost without a trace: it is still in a file, in
\* the log, or about to be logged, unless an insert failed or never happened.
THEOREM LostTextsAreInLog == MemorySpec => LostTextIsInLog
<1> DEFINE Kept == \A p \in Paths : \A i \in file[p] :
                     \/ \E q \in Paths : i \in file'[q]
                     \/ i \in logged'
                     \/ \E x \in Writers : writer'[x].at = "written" /\ i \in writer'[x].after
                     \/ i \in unlogged'
<1>1. MemoryInit => TextsRecorded
  <2> SUFFICES ASSUME MemoryInit, NEW p \in Paths PROVE file[p] \subseteq Recorded
    BY DEF TextsRecorded
  <2>1. file[p] \subseteq {Found} /\ unlogged = {Found}
    BY DEF MemoryInit, Blank
  <2> QED BY <2>1 DEF Recorded
<1>2. MemoryInv /\ TextsRecorded /\ [MemoryNext]_memoryVars => TextsRecorded'
  BY TextsStayRecorded
<1>3. ASSUME MemoryInv, TextsRecorded, [MemoryNext]_memoryVars
      PROVE  [Kept]_memoryVars
  <2>1. Recorded \subseteq Recorded'
    BY <1>3, TextsStayRecorded
  <2> QED BY <1>3, <2>1 DEF TextsRecorded, Recorded
<1> QED BY <1>1, <1>2, <1>3, MemoryInvariance, PTL DEF MemorySpec, LostTextIsInLog

=============================================================================
