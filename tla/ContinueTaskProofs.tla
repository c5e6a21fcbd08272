------------------------- MODULE ContinueTaskProofs -------------------------
(***************************************************************************)
(* Theorems about ContinueTask, for any set of tasks and artifacts.        *)
(*                                                                         *)
(* The run functions are clients of the task manager: every step of        *)
(* ContinueTask is a step of TaskManager, or none, so that what is proved  *)
(* of the manager holds with them.  What they add is proved here: who was  *)
(* told to stop when, which process it may leave behind, and what the      *)
(* Claude records hold at which stage.                                     *)
(***************************************************************************)
EXTENDS ContinueTask, TaskManagerProofs

-----------------------------------------------------------------------------
(* The invariants. *)

\* A run that has not been told to stop, and may still act.
Stopped(t) == pc[t] \in {"spawned", "executing"} => t \in ctxDone

\* The run of a task that is no longer active was told to stop.
EndedIsStopped ==
  \A t \in TaskIDs : ~IsActiveTaskState(mem.state[t]) => Stopped(t)

\* A task is given a source when it is submitted, and the source was before it.
SourcesWereFirst ==
  /\ \A t \in TaskIDs : pc[t] = "none" => source[t] = NoSource
  /\ \A t \in TaskIDs : source[t] # NoSource => pc[source[t]] # "none"
  /\ \A t \in TaskIDs : stage[t] \in ContinuationStages => source[t] # NoSource

\* From the interruption on, the source of a continuation has been stopped.
StoppedStages == {"probe", "reread", "supersede", "resume", "returned"} \cup ClaudeStages

SourceIsStopped ==
  \A t \in TaskIDs :
    source[t] # NoSource /\ stage[t] \in StoppedStages => Stopped(source[t])

\* A run has one artifact in hand, and only while it imports.
StagedAtImport ==
  /\ \A a \in staged : stage[Owner[a]] = "import"
  /\ \A a, b \in staged : Owner[a] = Owner[b] => a = b

ChainInv ==
  /\ SourcesWereFirst
  /\ SourceIsStopped
  /\ StagedAtImport

ContinueInv ==
  /\ ContinueTypeOK
  /\ Inv
  /\ FileInv
  /\ EndedIsStopped
  /\ ChainInv

\* A task that completed has returned from its run function.
CompletedHasReturned ==
  \A t \in TaskIDs : mem.state[t] = "completed" => stage[t] = "returned"

\* A goroutine that ends leaves its task active only when it was interrupted.
GoneIsEnded ==
  \A t \in TaskIDs :
    /\ pc[t] \in {"clearing", "clearingQuiet", "notifying", "gone"}
    /\ IsActiveTaskState(mem.state[t])
    => t \in ctxDone

\* The artifacts are imported after the process has exited.
ProcMatchesStage ==
  \A t \in TaskIDs : stage[t] \in {"import", "complete", "returned"} => proc[t] = "exited"

\* Neither the run of a task nor the process it leaves behind goes on.
Quiet(t) == Stopped(t) /\ (proc[t] = "alive" => t \in ctxDone)

\* While a continuation is on its way its source is quiet if it is still
\* active; from the takeover, or from finding it completed, it is quiet.
QuietStages == {"supersede", "resume", "returned"} \cup ClaudeStages

SourceIsQuiet ==
  \A t \in TaskIDs :
    /\ source[t] # NoSource
    /\ \/ stage[t] \in {"probe", "reread"} /\ IsActiveTaskState(mem.state[source[t]])
       \/ stage[t] \in QuietStages
    => Quiet(source[t])

ProcInv ==
  /\ CompletedHasReturned
  /\ GoneIsEnded
  /\ ProcMatchesStage
  /\ SourceIsQuiet

\* What the Claude record of a task holds at each stage, as long as the records
\* are not reset.
RecordMatchesStage ==
  \A t \in TaskIDs :
    /\ stage[t] \in (ClaudeStages \ {"start"}) \cup {"returned"} => HasRecord(t)
    /\ stage[t] \in {"report", "stream", "import", "complete", "returned"} => HasSession(t)
    /\ stage[t] = "returned" => claude[t].status = "completed"

\* A source has a session from the day it got a continuation.
SourcesHaveSessions ==
  \A t \in TaskIDs : source[t] # NoSource => HasSession(source[t])

SupersededIsSource ==
  \A s \in TaskIDs : mem.state[s] = "superseded" => \E t \in TaskIDs : source[t] = s

SessionsInv ==
  /\ ~wiping
  /\ RecordMatchesStage
  /\ SourcesHaveSessions
  /\ SupersededIsSource
  /\ StoppedIsTakenOver

-----------------------------------------------------------------------------
(* The steps of the manager, as the run functions and their surroundings   *)
(* take them.                                                              *)

\* Everything but a takeover, and nothing at all.
PlainStep ==
  \/ \E t \in TaskIDs : \/ Submit(t) \/ CancelLatest(t) \/ CancelNotifies(t)
                        \/ GoroutineStep(t) \/ InterruptTask(t)
  \/ ReporterStep
  \/ ReportStep
  \/ Reset
  \/ UNCHANGED managerVars

TakeOver(t) == At(t, "supersede") /\ source[t] \in TaskIDs /\ MarkTaskSuperseded(source[t])

LEMMA SourceIsTask ==
  ASSUME ContinueTypeOK, SourcesWereFirst, NEW t \in TaskIDs
  PROVE  /\ stage[t] \in ContinuationStages => source[t] \in TaskIDs
         /\ source[t] # NoSource <=> source[t] \in TaskIDs
BY ContinueAssumption DEF ContinueTypeOK, SourcesWereFirst, NoSource

LEMMA ContinuationStepsManager ==
  ASSUME ContinueInv, NEW t \in TaskIDs, ContinuationStep(t)
  PROVE  PlainStep \/ TakeOver(t)
<1>1. CASE LookUpSource(t) \/ ProbeSession(t) \/ RereadSource(t) \/ GetSession(t)
  BY <1>1 DEF LookUpSource, ProbeSession, RereadSource, GetSession, PlainStep
<1>2. CASE InterruptSource(t)
  <2>1. source[t] \in TaskIDs
    BY <1>2, SourceIsTask DEF InterruptSource, At, ContinueInv, ChainInv, ContinuationStages
  <2> QED BY <1>2, <2>1 DEF InterruptSource, PlainStep
<1>3. CASE SupersedeSource(t)
  <2>1. source[t] \in TaskIDs
    BY <1>3, SourceIsTask DEF SupersedeSource, At, ContinueInv, ChainInv, ContinuationStages
  <2> QED BY <1>3, <2>1 DEF SupersedeSource, TakeOver, PlainStep
<1> QED BY <1>1, <1>2, <1>3 DEF ContinuationStep

LEMMA ClaudeStepsManager ==
  ASSUME NEW t \in TaskIDs, ClaudeStep(t)
  PROVE  PlainStep
<1>1. CASE ReportLine(t)
  BY <1>1 DEF ReportLine, PlainStep, ReporterStep
<1>2. CASE \/ StartRecord(t) \/ AttachSession(t) \/ MarkRunning(t) \/ ExecClaude(t)
           \/ InitLine(t) \/ AssistantLine(t) \/ BadLine(t) \/ EndOfOutput(t)
           \/ ImportEnds(t) \/ CompleteRecord(t)
  BY <1>2 DEF StartRecord, AttachSession, MarkRunning, ExecClaude, InitLine, AssistantLine,
     BadLine, EndOfOutput, ImportEnds, CompleteRecord, PlainStep
<1> QED BY <1>1, <1>2 DEF ClaudeStep

LEMMA ManagerSteps ==
  ASSUME ContinueInv, [ContinueNext]_continueVars
  PROVE  PlainStep \/ \E t \in TaskIDs : TakeOver(t)
<1>1. ASSUME NEW t \in TaskIDs,
             \/ SubmitComplexTask(t) \/ AroundRun(t) \/ RunReturns(t)
             \/ ProcessExits(t) \/ ProcessKilled(t)
             \/ \E s \in TaskIDs : SubmitContinueTask(t, s)
      PROVE  PlainStep
  BY <1>1 DEF SubmitComplexTask, SubmitContinueTask, AroundRun, RunReturns, ProcessExits,
     ProcessKilled, PlainStep, GoroutineStep
<1>2. ASSUME NEW a \in ArtifactIDs, ImportArtifact(a) \/ ImportRegisters(a) PROVE PlainStep
  BY <1>2 DEF ImportArtifact, ImportRegisters, PlainStep, ReporterStep
<1>3. CASE UserStep
  BY <1>3 DEF UserStep, PlainStep, ReportStep
<1>4. CASE ResetTasks \/ ResetClaude
  BY <1>4 DEF ResetTasks, ResetClaude, PlainStep
<1>5. CASE UNCHANGED continueVars
  BY <1>5 DEF continueVars, managerVars, PlainStep
<1> QED BY <1>1, <1>2, <1>3, <1>4, <1>5, ContinuationStepsManager, ClaudeStepsManager
        DEF ContinueNext, TaskStep

LEMMA NoOtherFaults == "save" \notin Faults /\ "disk" \notin Faults /\ "crash" \notin Faults
BY ContinueAssumption

LEMMA ManagerStepsRefine ==
  ASSUME ContinueInv, [ContinueNext]_continueVars
  PROVE  [Next]_managerVars
<1>1. CASE PlainStep
  BY <1>1, ContinueAssumption DEF PlainStep, Next, TakeOverStep
<1>2. CASE \E t \in TaskIDs : TakeOver(t)
  BY <1>2, ContinueAssumption DEF TakeOver, Next, TakeOverStep
<1> QED BY <1>1, <1>2, ManagerSteps

\* A process is started by its run function, and then ends.
LEMMA ProcMoves ==
  ASSUME ContinueTypeOK, [ContinueNext]_continueVars, NEW t \in TaskIDs
  PROVE  \/ proc'[t] = proc[t]
         \/ ExecClaude(t) /\ MayExec(t)
         \/ proc[t] = "alive" /\ proc'[t] \in {"exited", "killed"}
<1>1. CASE proc' = proc
  BY <1>1
<1>2. CASE proc' # proc
  <2>1. PICK u \in TaskIDs : ExecClaude(u) \/ ProcessExits(u) \/ ProcessKilled(u)
    BY <1>2
    DEF ContinueNext, TaskStep, ContinuationStep, ClaudeStep, SubmitComplexTask,
        SubmitContinueTask, LookUpSource, InterruptSource, ProbeSession, RereadSource,
        SupersedeSource, GetSession, StartRecord, AttachSession, MarkRunning, InitLine,
        AssistantLine, ReportLine, BadLine, EndOfOutput, ImportEnds, CompleteRecord,
        ImportArtifact, ImportRegisters, UserStep, ResetTasks, ResetClaude, AroundRun, RunReturns,
        continueVars
  <2> QED BY <1>2, <2>1 DEF ExecClaude, ProcessExits, ProcessKilled, ContinueTypeOK
<1> QED BY <1>1, <1>2

-----------------------------------------------------------------------------
(* Stopping. *)

\* No step of the manager but a restart takes a cancellation back, and only
\* Submit starts a goroutine.
LEMMA StoppedStays ==
  ASSUME TypeOK, [Next]_managerVars, NEW t \in TaskIDs, pc[t] # "none"
  PROVE  pc'[t] # "none" /\ (Stopped(t) => Stopped(t)') /\ ctxDone \subseteq ctxDone'
<1> USE DEF Stopped, TypeOK
<1> DEFINE Goal == pc'[t] # "none" /\ (Stopped(t) => Stopped(t)') /\ ctxDone \subseteq ctxDone'
<1>1. ASSUME NEW u \in TaskIDs, Submit(u) \/ StartTask(u) PROVE Goal
  BY <1>1 DEF Submit, StartTask
<1>2. ASSUME NEW u \in TaskIDs,
             RunFails(u) \/ RecordFailure(u) \/ RecordCompletion(u) \/ ClearCancel(u)
               \/ NotifyResultReportReady(u)
      PROVE  Goal
  BY <1>2 DEF RunFails, RecordFailure, RecordCompletion, ClearCancel, NotifyResultReportReady,
     AfterClearing
<1>3. ASSUME NEW u \in TaskIDs,
             CancelLatest(u) \/ CancelNotifies(u) \/ InterruptTask(u) \/ MarkTaskSuperseded(u)
      PROVE  Goal
  BY <1>3 DEF CancelLatest, CancelNotifies, InterruptTask, MarkTaskSuperseded, CancelContext
<1>4. CASE ReporterStep \/ ReportStep
  <2>1. pc' = pc /\ ctxDone' = ctxDone
    BY <1>4 DEF ReporterStep, ReportStep, ReporterUpdate, StageArtifact, RegisterArtifact,
       MarkResultReported, MarkArtifactDeliveriesNoChannel, MarkArtifactDeliveryDelivered,
       MarkArtifactDeliveryFailed, MarkArtifactDelivery
  <2> QED BY <2>1
<1>5. CASE Reset
  BY <1>5 DEF Reset, CancelAllContexts
<1>6. CASE UNCHANGED managerVars
  BY <1>6 DEF managerVars
<1> QED BY <1>1, <1>2, <1>3, <1>4, <1>5, <1>6, NoOtherFaults
        DEF Next, GoroutineStep, TakeOverStep, Restart

\* Neither the run of a task nor its report changes the state of a task.
LEMMA ReportsKeepStates ==
  ASSUME TypeOK, ReporterStep \/ ReportStep
  PROVE  mem'.state = mem.state
<1>1. ASSUME NEW ids, MarkResultReported(ids) PROVE mem'.state = mem.state
  BY <1>1 DEF MarkResultReported, UpdateState, TypeOK, Snapshots
<1>2. ASSUME NEW as, MarkArtifactDeliveriesNoChannel(as) PROVE mem'.state = mem.state
  BY <1>2 DEF MarkArtifactDeliveriesNoChannel, UpdateState, TypeOK, Snapshots
<1>3. ASSUME NEW a, NEW status, MarkArtifactDelivery(a, status) PROVE mem'.state = mem.state
  BY <1>3 DEF MarkArtifactDelivery, UpdateState, TypeOK, Snapshots
<1>4. ASSUME NEW a, RegisterArtifact(a) PROVE mem'.state = mem.state
  BY <1>4 DEF RegisterArtifact, UpdateState, TypeOK, Snapshots
<1>5. ASSUME NEW u \in TaskIDs, ReporterUpdate(u) PROVE mem'.state = mem.state
  BY <1>5, UpdateTaskCases DEF ReporterUpdate
<1>6. ASSUME NEW a, StageArtifact(a) PROVE mem'.state = mem.state
  BY <1>6 DEF StageArtifact
<1> QED BY <1>1, <1>2, <1>3, <1>4, <1>5, <1>6
    DEF ReporterStep, ReportStep, MarkArtifactDeliveryDelivered, MarkArtifactDeliveryFailed

\* Who cancels a task, takes it over or wipes it tells its run to stop.
LEMMA EndedStep ==
  ASSUME Inv, Inv', EndedIsStopped,
         PlainStep \/ \E u \in TaskIDs : MarkTaskSuperseded(u) /\ Stopped(u)
  PROVE  EndedIsStopped'
<1>0. /\ TypeOK /\ CancelTableExact
      /\ mem.state \in [TaskIDs -> TaskStates \cup {NoTask}]
  BY DEF Inv, RunInv, TypeOK, Snapshots
<1> SUFFICES ASSUME NEW t \in TaskIDs, ~IsActiveTaskState(mem'.state[t]),
                    pc'[t] \in {"spawned", "executing"}
             PROVE  t \in ctxDone'
  BY DEF EndedIsStopped, Stopped
<1>1. CASE /\ ~IsActiveTaskState(mem.state[t]) /\ pc[t] \in {"spawned", "executing"}
           /\ ctxDone \subseteq ctxDone'
  BY <1>1 DEF EndedIsStopped, Stopped
<1>2. ASSUME NEW u \in TaskIDs, Submit(u) PROVE t \in ctxDone'
  <2>1. mem'.state = [mem.state EXCEPT ![u] = "accepted"]
    BY <1>0, <1>2 DEF Submit, UpdateState, Enter, TypeOK, Snapshots
  <2>2. t # u
    BY <1>0, <2>1 DEF IsActiveTaskState
  <2>3. mem'.state[t] = mem.state[t] /\ pc'[t] = pc[t] /\ ctxDone' = ctxDone
    BY <1>0, <1>2, <2>1, <2>2 DEF Submit, TypeOK
  <2> QED BY <1>1, <2>3
<1>3. ASSUME NEW u \in TaskIDs, StartTask(u) PROVE t \in ctxDone'
  <2>1. \/ mem' = mem
        \/ MayStart(u) /\ mem' = Enter(u, "running")
    BY <1>3, UpdateTaskCases DEF StartTask
  <2>2. Enter(u, "running").state = [mem.state EXCEPT ![u] = "running"]
    BY <1>0 DEF Enter, TypeOK, Snapshots
  <2>3. mem'.state[t] = mem.state[t]
    BY <1>0, <2>1, <2>2 DEF IsActiveTaskState
  <2>4. pc[t] \in {"spawned", "executing"} /\ ctxDone' = ctxDone
    BY <1>0, <1>3 DEF StartTask, TypeOK
  <2> QED BY <1>1, <2>3, <2>4
<1>4. ASSUME NEW u \in TaskIDs, RecordFailure(u) \/ RecordCompletion(u) PROVE t \in ctxDone'
  <2>1. /\ t # u /\ pc'[t] = pc[t] /\ ctxDone' = ctxDone
    BY <1>0, <1>4 DEF RecordFailure, RecordCompletion, TypeOK
  <2>2. mem' = mem \/ mem' = Conclude(u, "failed") \/ mem' = Conclude(u, "completed")
    BY <1>4, UpdateTaskCases DEF RecordFailure, RecordCompletion
  <2>3. ASSUME NEW s PROVE Conclude(u, s).state[t] = mem.state[t]
    <3>1. Conclude(u, s).state = [mem.state EXCEPT ![u] = s]
      BY <1>0, ConcludeFields
    <3> QED BY <1>0, <2>1, <3>1
  <2>4. mem'.state[t] = mem.state[t]
    BY <2>2, <2>3
  <2> QED BY <1>1, <2>1, <2>4
<1>5. ASSUME NEW u \in TaskIDs,
             RunFails(u) \/ ClearCancel(u) \/ NotifyResultReportReady(u)
               \/ CancelNotifies(u) \/ InterruptTask(u)
      PROVE  t \in ctxDone'
  <2>1. mem' = mem /\ ctxDone \subseteq ctxDone'
    BY <1>5 DEF RunFails, ClearCancel, NotifyResultReportReady, CancelNotifies, InterruptTask,
       CancelContext
  <2>2. pc[t] \in {"spawned", "executing"}
    BY <1>0, <1>5 DEF RunFails, ClearCancel, NotifyResultReportReady, CancelNotifies,
       InterruptTask, AfterClearing, TypeOK
  <2> QED BY <1>1, <2>1, <2>2
<1>6. ASSUME NEW u \in TaskIDs, CancelLatest(u) PROVE t \in ctxDone'
  <2>1. pc' = pc /\ ctxDone \subseteq ctxDone' /\ (u \in cancels => u \in ctxDone')
    BY <1>6 DEF CancelLatest, CancelContext
  <2>2. mem' = Conclude(u, "canceled")
    BY <1>6 DEF CancelLatest, UpdateState
  <2>3. CASE t = u
    BY <1>0, <2>1, <2>3 DEF CancelTableExact, Live
  <2>4. CASE t # u
    <3>1. mem'.state = [mem.state EXCEPT ![u] = "canceled"]
      BY <1>0, <2>2, ConcludeFields
    <3>2. mem'.state[t] = mem.state[t]
      BY <1>0, <2>4, <3>1
    <3>3. ~IsActiveTaskState(mem.state[t])
      BY <3>2
    <3> QED BY <1>1, <2>1, <3>3
  <2> QED BY <2>3, <2>4
<1>7. CASE ReporterStep \/ ReportStep
  <2>1. pc' = pc /\ ctxDone' = ctxDone
    BY <1>7 DEF ReporterStep, ReportStep, ReporterUpdate, StageArtifact, RegisterArtifact,
       MarkResultReported, MarkArtifactDeliveriesNoChannel, MarkArtifactDeliveryDelivered,
       MarkArtifactDeliveryFailed, MarkArtifactDelivery
  <2>2. mem'.state = mem.state
    BY <1>0, <1>7, ReportsKeepStates
  <2> QED BY <1>1, <2>1, <2>2
<1>8. CASE Reset
  <2>1. t \in cancels \/ t \in ctxDone
    BY <1>0, <1>8 DEF Reset, CancelTableExact, Live
  <2> QED BY <1>8, <2>1 DEF Reset, CancelAllContexts
<1>9. CASE UNCHANGED managerVars
  BY <1>1, <1>9 DEF managerVars
<1>10. ASSUME NEW u \in TaskIDs, MarkTaskSuperseded(u), Stopped(u) PROVE t \in ctxDone'
  <2>1. pc' = pc /\ ctxDone' = ctxDone
    BY <1>10 DEF MarkTaskSuperseded
  <2>2. CASE t = u
    BY <1>10, <2>1, <2>2 DEF Stopped
  <2>3. CASE t # u
    <3>1. [mem EXCEPT !.state[u] = "superseded", !.pending = @ \ {u}].state[t] = mem.state[t]
      BY <1>0, <2>3 DEF TypeOK, Snapshots
    <3>2. mem'.state[t] = mem.state[t]
      BY <1>10, <3>1, UpdateTaskCases DEF MarkTaskSuperseded
    <3> QED BY <1>1, <2>1, <3>2
  <2> QED BY <2>2, <2>3
<1> QED BY <1>2, <1>3, <1>4, <1>5, <1>6, <1>7, <1>8, <1>9, <1>10 DEF PlainStep, GoroutineStep
-----------------------------------------------------------------------------
(* Types. *)

\* What the two kinds of writes to a record do.
LEMMA WriteTypes ==
  ASSUME ContinueTypeOK, NEW t \in TaskIDs
  PROVE  /\ \A st \in ClaudeStatuses :
              /\ SetStatus(t, st) => claude' \in [TaskIDs -> Records]
              /\ SetStatus(t, st) => \A u \in TaskIDs : HasSession(u)' = HasSession(u)
              /\ SetStatus(t, st) => \A u \in TaskIDs : HasRecord(u) <=> HasRecord(u)'
              /\ SetStatus(t, st) /\ HasRecord(t) => claude'[t].status = st
              /\ SetStatus(t, st) => \A u \in TaskIDs \ {t} : claude'[u] = claude[u]
         /\ SetSession(t) => claude' \in [TaskIDs -> Records]
         /\ SetSession(t) =>
              \A u \in TaskIDs : /\ claude'[u].status = claude[u].status
                                 /\ HasSession(u) => HasSession(u)'
         /\ SetSession(t) => \A u \in TaskIDs : HasRecord(u) <=> HasRecord(u)'
         /\ SetSession(t) /\ HasRecord(t) => HasSession(t)'
         /\ SetSession(t) => \A u \in TaskIDs \ {t} : claude'[u] = claude[u]
<1> USE DEF ContinueTypeOK, Records, ClaudeStatuses, HasRecord, HasSession, NoRecord,
        MutateExisting
<1>1. \A u \in TaskIDs : /\ claude[u].status \in ClaudeStatuses \cup {"none"}
                         /\ claude[u].session \in BOOLEAN
                         /\ claude[u] = [status |-> claude[u].status,
                                         session |-> claude[u].session]
  OBVIOUS
<1>0. ASSUME NEW r \in Records, NEW st \in ClaudeStatuses
      PROVE  /\ [r EXCEPT !.status = st] \in Records
             /\ [r EXCEPT !.status = st].status = st
             /\ [r EXCEPT !.status = st].session = r.session
             /\ [r EXCEPT !.session = TRUE] \in Records
             /\ [r EXCEPT !.session = TRUE].status = r.status
             /\ [r EXCEPT !.session = TRUE].session = TRUE
  OBVIOUS
<1>2. ASSUME NEW st \in ClaudeStatuses, SetStatus(t, st)
      PROVE  /\ claude' \in [TaskIDs -> Records]
             /\ \A u \in TaskIDs : HasSession(u)' = HasSession(u)
             /\ \A u \in TaskIDs : HasRecord(u) <=> HasRecord(u)'
             /\ HasRecord(t) => claude'[t].status = st
             /\ \A u \in TaskIDs \ {t} : claude'[u] = claude[u]
  <2>1. CASE ~HasRecord(t)
    BY <1>2, <2>1 DEF SetStatus
  <2>2. CASE HasRecord(t)
    <3>1. PICK r \in Records : /\ claude' = [claude EXCEPT ![t] = r]
                              /\ r.status = st
                              /\ r.session = claude[t].session
      BY <1>0, <1>2, <2>2 DEF SetStatus
    <3>2. r # NoRecord
      BY <3>1
    <3> QED BY <2>2, <3>1, <3>2
  <2> QED BY <2>1, <2>2
<1>3. ASSUME SetSession(t)
      PROVE  /\ claude' \in [TaskIDs -> Records]
             /\ \A u \in TaskIDs : /\ claude'[u].status = claude[u].status
                                   /\ HasSession(u) => HasSession(u)'
             /\ \A u \in TaskIDs : HasRecord(u) <=> HasRecord(u)'
             /\ HasRecord(t) => HasSession(t)'
             /\ \A u \in TaskIDs \ {t} : claude'[u] = claude[u]
  <2>1. CASE ~HasRecord(t)
    BY <1>3, <2>1 DEF SetSession
  <2>2. CASE HasRecord(t)
    <3>1. PICK r \in Records : /\ claude' = [claude EXCEPT ![t] = r]
                              /\ r.status = claude[t].status
                              /\ r.session = TRUE
      BY <1>0, <1>3, <2>2 DEF SetSession
    <3>2. r # NoRecord
      BY <3>1
    <3> QED BY <2>2, <3>1, <3>2
  <2> QED BY <2>1, <2>2
<1> QED BY <1>2, <1>3

LEMMA StartTypes ==
  ASSUME ContinueTypeOK, NEW t \in TaskIDs, StartRecord(t)
  PROVE  /\ claude' \in [TaskIDs -> Records]
         /\ HasRecord(t)'
         /\ \A u \in TaskIDs : HasSession(u)' = HasSession(u)
         /\ \A u \in TaskIDs \ {t} : claude'[u] = claude[u]
<1> USE DEF ContinueTypeOK, Records, ClaudeStatuses, HasRecord, HasSession, NoRecord
<1>1. ASSUME NEW r \in Records
      PROVE  /\ [r EXCEPT !.status = "accepted"] \in Records
             /\ [r EXCEPT !.status = "accepted"].status = "accepted"
             /\ [r EXCEPT !.status = "accepted"].session = r.session
  OBVIOUS
<1>2. PICK r \in Records : /\ claude' = [claude EXCEPT ![t] = r]
                           /\ r.status = "accepted"
                           /\ r.session = claude[t].session
  BY <1>1 DEF StartRecord
<1>3. r # NoRecord
  BY <1>2
<1> QED BY <1>2, <1>3

LEMMA ContinueTypeStep ==
  ASSUME ContinueTypeOK, TypeOK', [ContinueNext]_continueVars
  PROVE  ContinueTypeOK'
<1> USE DEF ContinueTypeOK, Stages, ContinuationStages, ClaudeStages, ProcStates, Goto
<1>0. "accepted" \in ClaudeStatuses /\ "running" \in ClaudeStatuses
      /\ "completed" \in ClaudeStatuses /\ "failed" \in ClaudeStatuses
  BY DEF ClaudeStatuses
<1>1. ASSUME NEW t \in TaskIDs, SubmitComplexTask(t) PROVE ContinueTypeOK'
  BY <1>1 DEF SubmitComplexTask
<1>2. ASSUME NEW t \in TaskIDs, NEW s \in TaskIDs, SubmitContinueTask(t, s)
      PROVE  ContinueTypeOK'
  BY <1>2 DEF SubmitContinueTask
<1>3. ASSUME NEW t \in TaskIDs, ContinuationStep(t) PROVE ContinueTypeOK'
  <2>1. CASE LookUpSource(t) \/ RereadSource(t)
    BY <2>1 DEF LookUpSource, RereadSource, AfterGetTask
  <2>2. CASE InterruptSource(t) \/ ProbeSession(t) \/ SupersedeSource(t) \/ GetSession(t)
    BY <2>2 DEF InterruptSource, ProbeSession, SupersedeSource, GetSession
  <2> QED BY <1>3, <2>1, <2>2 DEF ContinuationStep
<1>4. ASSUME NEW t \in TaskIDs, ClaudeStep(t) PROVE ContinueTypeOK'
  <2>1. CASE StartRecord(t)
    BY <2>1, StartTypes DEF StartRecord
  <2>2. CASE AttachSession(t) \/ InitLine(t)
    BY <2>2, WriteTypes DEF AttachSession, InitLine
  <2>3. CASE MarkRunning(t)
    BY <1>0, <2>3, WriteTypes DEF MarkRunning
  <2>4. CASE ExecClaude(t) \/ AssistantLine(t)
    BY <2>4 DEF ExecClaude, AssistantLine
  <2>5. CASE ReportLine(t)
    BY <1>0, <2>5, WriteTypes DEF ReportLine
  <2>6. CASE BadLine(t)
    BY <1>0, <2>6, WriteTypes DEF BadLine
  <2>7. CASE EndOfOutput(t)
    BY <1>0, <2>7, WriteTypes DEF EndOfOutput
  <2>8. CASE ImportEnds(t)
    BY <1>0, <2>8, WriteTypes DEF ImportEnds
  <2>9. CASE CompleteRecord(t)
    BY <1>0, <2>9, WriteTypes DEF CompleteRecord, CompletesRecord
  <2> QED BY <1>4, <2>1, <2>2, <2>3, <2>4, <2>5, <2>6, <2>7, <2>8, <2>9 DEF ClaudeStep
<1>5. ASSUME NEW t \in TaskIDs, ProcessExits(t) \/ ProcessKilled(t) PROVE ContinueTypeOK'
  BY <1>5 DEF ProcessExits, ProcessKilled
<1>6. ASSUME NEW t \in TaskIDs, AroundRun(t) \/ RunReturns(t) PROVE ContinueTypeOK'
  BY <1>6 DEF AroundRun, RunReturns
<1>7. ASSUME NEW a \in ArtifactIDs, ImportArtifact(a) PROVE ContinueTypeOK'
  BY <1>7 DEF ImportArtifact
<1>8. ASSUME NEW a \in ArtifactIDs, ImportRegisters(a) PROVE ContinueTypeOK'
  <2>1. Owner[a] \in TaskIDs
    BY TaskManagerAssumption
  <2> QED BY <1>0, <1>8, <2>1, WriteTypes DEF ImportRegisters
<1>9. CASE UserStep \/ ResetTasks
  BY <1>9 DEF UserStep, ResetTasks
<1>10. CASE ResetClaude
  BY <1>10 DEF ResetClaude, Records, NoRecord
<1>11. CASE UNCHANGED continueVars
  BY <1>11 DEF continueVars
<1> QED BY <1>1, <1>2, <1>3, <1>4, <1>5, <1>6, <1>7, <1>8, <1>9, <1>10, <1>11
        DEF ContinueNext, TaskStep

-----------------------------------------------------------------------------
(* The invariant of the chain. *)

\* Stages move on the source side and on the Claude side, and end in a failure;
\* a source, once stopped, stays stopped.
LEMMA StagesMove ==
  ASSUME ContinueInv, [Next]_managerVars, source' = source,
         \A u \in TaskIDs :
           \/ stage'[u] = stage[u]
           \/ stage'[u] = "failed"
           \/ source[u] = NoSource /\ stage'[u] \notin ContinuationStages
           \/ source[u] \in TaskIDs /\ stage'[u] \notin StoppedStages
           \/ source[u] \in TaskIDs /\ Stopped(source[u])'
           \/ /\ stage[u] \in StoppedStages
              /\ stage'[u] \in ContinuationStages => stage[u] \in ContinuationStages
  PROVE  SourcesWereFirst' /\ SourceIsStopped'
<1> USE DEF ContinueInv, ChainInv
<1>1. TypeOK /\ ContinueTypeOK
  BY DEF ContinueTypeOK
<1>2. \A u \in TaskIDs : pc[u] # "none" => pc'[u] # "none" /\ (Stopped(u) => Stopped(u)')
  BY <1>1, StoppedStays
<1>3. \A u \in TaskIDs : source[u] # NoSource <=> source[u] \in TaskIDs
  BY <1>1, SourceIsTask
<1>4. ASSUME NEW u \in TaskIDs, source[u] # NoSource, stage[u] \in StoppedStages
      PROVE  Stopped(source[u])'
  <2>1. PICK s \in TaskIDs : s = source[u]
    BY <1>3, <1>4
  <2>2. Stopped(s) /\ pc[s] # "none"
    BY <1>4, <2>1 DEF SourceIsStopped, SourcesWereFirst
  <2>3. Stopped(s)'
    BY <1>2, <2>2
  <2>4. source'[u] = s
    BY <2>1
  <2> QED BY <2>1, <2>3 DEF Stopped
<1>5. SourcesWereFirst'
  <2>1. ASSUME NEW u \in TaskIDs, pc'[u] = "none" PROVE source'[u] = NoSource
    BY <1>2, <2>1 DEF SourcesWereFirst
  <2>2. ASSUME NEW u \in TaskIDs, source'[u] # NoSource PROVE pc'[source'[u]] # "none"
    BY <1>2, <1>3, <2>2 DEF SourcesWereFirst
  <2>3. ASSUME NEW u \in TaskIDs, stage'[u] \in ContinuationStages PROVE source'[u] # NoSource
    BY <1>3, <2>3 DEF SourcesWereFirst, ContinuationStages
  <2> QED BY <2>1, <2>2, <2>3 DEF SourcesWereFirst
<1>6. ASSUME NEW u \in TaskIDs, source'[u] # NoSource, stage'[u] \in StoppedStages
      PROVE  Stopped(source[u])'
  <2>1. stage'[u] # "failed" /\ source[u] # NoSource
    BY <1>6 DEF StoppedStages, ClaudeStages
  <2> QED BY <1>3, <1>4, <1>6, <2>1
<1> QED BY <1>5, <1>6 DEF SourceIsStopped, Stopped

\* The steps that leave the staged artifacts alone.
LEMMA StagedStays ==
  ASSUME FileInv, ContinueTypeOK, StagedAtImport, staged' = staged, NEW t \in TaskIDs,
         NEW st, stage' = [stage EXCEPT ![t] = st], stage[t] # "import" \/ RunIsBetweenCalls(t)
  PROVE  StagedAtImport'
<1>1. \A a \in staged : Owner[a] \in TaskIDs /\ Owner[a] # t
  BY TaskManagerAssumption DEF FileInv, StagedAtImport, RunIsBetweenCalls, TypeOK
<1> QED BY <1>1 DEF StagedAtImport, ContinueTypeOK

LEMMA StagedStep ==
  ASSUME ContinueInv, [ContinueNext]_continueVars
  PROVE  StagedAtImport'
<1>0. FileInv /\ ContinueTypeOK /\ StagedAtImport /\ TypeOK
  BY DEF ContinueInv, ChainInv, ContinueTypeOK
<1>1. ASSUME NEW t \in TaskIDs,
             SubmitComplexTask(t) \/ \E s \in TaskIDs : SubmitContinueTask(t, s)
      PROVE  StagedAtImport'
  <2>1. staged' = staged /\ pc[t] = "none"
    BY <1>1 DEF SubmitComplexTask, SubmitContinueTask, Submit
  <2>2. \A a \in staged : Owner[a] \in TaskIDs /\ Owner[a] # t
    BY <1>0, <2>1, TaskManagerAssumption DEF FileInv, TypeOK
  <2>3. PICK st : stage' = [stage EXCEPT ![t] = st]
    BY <1>1 DEF SubmitComplexTask, SubmitContinueTask, Goto
  <2> QED BY <1>0, <2>1, <2>2, <2>3 DEF StagedAtImport, ContinueTypeOK
<1>2. ASSUME NEW t \in TaskIDs, ContinuationStep(t) PROVE StagedAtImport'
  <2>1. staged' = staged
    BY <1>2 DEF ContinuationStep, LookUpSource, InterruptSource, ProbeSession, RereadSource,
       SupersedeSource, GetSession, InterruptTask, MarkTaskSuperseded, managerVars
  <2>2. stage[t] # "import"
    BY <1>2 DEF ContinuationStep, LookUpSource, InterruptSource, ProbeSession, RereadSource,
       SupersedeSource, GetSession, At
  <2>3. PICK st : stage' = [stage EXCEPT ![t] = st]
    BY <1>2 DEF ContinuationStep, LookUpSource, InterruptSource, ProbeSession, RereadSource,
       SupersedeSource, GetSession, Goto
  <2> QED BY <1>0, <2>1, <2>2, <2>3, StagedStays
<1>3. ASSUME NEW t \in TaskIDs, ClaudeStep(t) PROVE StagedAtImport'
  <2>1. staged' = staged
    BY <1>3 DEF ClaudeStep, StartRecord, AttachSession, MarkRunning, ExecClaude, InitLine,
       AssistantLine, ReportLine, BadLine, EndOfOutput, ImportEnds, CompleteRecord,
       ReporterUpdate, managerVars
  <2>2. stage[t] # "import" \/ RunIsBetweenCalls(t)
    BY <1>3 DEF ClaudeStep, StartRecord, AttachSession, MarkRunning, ExecClaude, InitLine,
       AssistantLine, ReportLine, BadLine, EndOfOutput, ImportEnds, CompleteRecord, At
  <2>3. PICK st : stage' = [stage EXCEPT ![t] = st]
    BY <1>3 DEF ClaudeStep, StartRecord, AttachSession, MarkRunning, ExecClaude, InitLine,
       AssistantLine, ReportLine, BadLine, EndOfOutput, ImportEnds, CompleteRecord, Goto
  <2> QED BY <1>0, <2>1, <2>2, <2>3, StagedStays
<1>4. ASSUME NEW a \in ArtifactIDs, ImportArtifact(a) PROVE StagedAtImport'
  <2>1. stage' = stage /\ staged' = staged \cup {a} /\ stage[Owner[a]] = "import"
    BY <1>4 DEF ImportArtifact, StageArtifact, At
  <2>2. \A b \in staged : Owner[b] # Owner[a]
    BY <1>4 DEF ImportArtifact, StageArtifact, RunIsBetweenCalls
  <2> QED BY <1>0, <2>1, <2>2 DEF StagedAtImport
<1>5. ASSUME NEW a \in ArtifactIDs, ImportRegisters(a) PROVE StagedAtImport'
  <2>1. /\ a \in staged /\ staged' = staged \ {a} /\ Owner[a] \in TaskIDs
        /\ stage' = stage \/ \E st : stage' = [stage EXCEPT ![Owner[a]] = st]
    BY <1>5, TaskManagerAssumption DEF ImportRegisters, RegisterArtifact, Goto
  <2>2. \A b \in staged' : Owner[b] \in TaskIDs /\ Owner[b] # Owner[a]
    BY <1>0, <2>1, TaskManagerAssumption DEF StagedAtImport, TypeOK
  <2>3. \A b \in staged' : stage'[Owner[b]] = stage[Owner[b]]
    BY <1>0, <2>1, <2>2 DEF ContinueTypeOK
  <2> QED BY <1>0, <2>1, <2>3 DEF StagedAtImport
<1>6. ASSUME \/ UserStep \/ ResetTasks \/ ResetClaude \/ UNCHANGED continueVars
             \/ \E t \in TaskIDs : \/ AroundRun(t) \/ RunReturns(t)
                                   \/ ProcessExits(t) \/ ProcessKilled(t)
      PROVE  StagedAtImport'
  <2>1. staged' = staged /\ stage' = stage
    <3>1. CASE UserStep \/ ResetTasks \/ ResetClaude \/ UNCHANGED continueVars
      BY <3>1 DEF UserStep, ResetTasks, ResetClaude, Reset, CancelLatest, CancelNotifies,
         MarkResultReported, continueVars, managerVars
    <3>2. ASSUME NEW t \in TaskIDs,
                 AroundRun(t) \/ RunReturns(t) \/ ProcessExits(t) \/ ProcessKilled(t)
          PROVE  staged' = staged /\ stage' = stage
      BY <3>2 DEF AroundRun, RunReturns, ProcessExits, ProcessKilled, StartTask, RunFails,
         RecordFailure, RecordCompletion, ClearCancel, NotifyResultReportReady, managerVars
    <3> QED BY <1>6, <3>1, <3>2
  <2> QED BY <1>0, <2>1 DEF StagedAtImport
<1> QED BY <1>1, <1>2, <1>3, <1>4, <1>5, <1>6 DEF ContinueNext, TaskStep

\* InterruptTask reaches the run of its task, or finds that it was reached.
LEMMA InterruptStops ==
  ASSUME Inv, EndedIsStopped, NEW s \in TaskIDs,
         \/ InterruptTask(s)
         \/ ~IsActiveTaskState(mem.state[s]) /\ UNCHANGED managerVars
  PROVE  Stopped(s)'
<1>1. CASE InterruptTask(s)
  BY <1>1 DEF InterruptTask, CancelContext, Inv, RunInv, CancelTableExact, Live, TypeOK, Stopped
<1>2. CASE ~IsActiveTaskState(mem.state[s]) /\ UNCHANGED managerVars
  BY <1>2 DEF EndedIsStopped, Stopped, managerVars
<1> QED BY <1>1, <1>2

LEMMA SubmitContinueChain ==
  ASSUME ContinueInv, NEW t \in TaskIDs, NEW s \in TaskIDs, SubmitContinueTask(t, s)
  PROVE  SourcesWereFirst' /\ SourceIsStopped'
<1>0. TypeOK /\ ContinueTypeOK /\ SourcesWereFirst /\ SourceIsStopped
  BY DEF ContinueInv, ChainInv, ContinueTypeOK
<1>1. /\ pc[t] = "none" /\ pc[s] # "none" /\ ctxDone' = ctxDone
      /\ source' = [source EXCEPT ![t] = s] /\ stage' = [stage EXCEPT ![t] = "lookup"]
  BY DEF SubmitContinueTask, Submit, Goto
<1>2. PICK p \in {"spawned", "gone"} : pc' = [pc EXCEPT ![t] = p]
  BY DEF SubmitContinueTask, Submit
<1>3. \A u \in TaskIDs : source[u] # NoSource <=> source[u] \in TaskIDs
  BY <1>0, SourceIsTask
<1>4. s # NoSource /\ "lookup" \notin StoppedStages
  BY ContinueAssumption DEF NoSource, StoppedStages, ClaudeStages
<1>5. SourcesWereFirst'
  <2>1. \A u \in TaskIDs : pc'[u] = "none" => pc[u] = "none" /\ u # t
    BY <1>0, <1>2 DEF TypeOK
  <2>2. \A u \in TaskIDs : u # t => source'[u] = source[u] /\ stage'[u] = stage[u]
    BY <1>0, <1>1 DEF ContinueTypeOK
  <2>3. source'[t] = s
    BY <1>0, <1>1 DEF ContinueTypeOK
  <2>4. ASSUME NEW u \in TaskIDs, source'[u] # NoSource PROVE pc'[source'[u]] # "none"
    BY <1>0, <1>1, <1>3, <2>1, <2>2, <2>3, <2>4 DEF SourcesWereFirst
  <2> QED BY <1>0, <1>4, <2>1, <2>2, <2>3, <2>4 DEF SourcesWereFirst
<1>6. ASSUME NEW u \in TaskIDs, source'[u] # NoSource, stage'[u] \in StoppedStages
      PROVE  Stopped(source[u])' 
  <2>1. u # t /\ source'[u] = source[u] /\ stage'[u] = stage[u]
    BY <1>0, <1>1, <1>4, <1>6 DEF ContinueTypeOK
  <2>2. PICK v \in TaskIDs : v = source[u]
    BY <1>3, <1>6, <2>1
  <2>3. Stopped(v) /\ v # t
    BY <1>0, <1>1, <1>6, <2>1, <2>2 DEF SourceIsStopped, SourcesWereFirst
  <2>4. pc'[v] = pc[v]
    BY <1>0, <1>2, <2>3 DEF TypeOK
  <2> QED BY <1>1, <2>1, <2>2, <2>3, <2>4 DEF Stopped
<1> QED BY <1>5, <1>6 DEF SourceIsStopped, Stopped

LEMMA ContinuationChain ==
  ASSUME ContinueInv, [Next]_managerVars, NEW t \in TaskIDs, ContinuationStep(t)
  PROVE  SourcesWereFirst' /\ SourceIsStopped'
<1> USE DEF ContinuationStep, Goto, At, ContinueTypeOK
<1>0. ContinueTypeOK /\ SourcesWereFirst /\ EndedIsStopped /\ Inv
  BY DEF ContinueInv, ChainInv
<1>1. source' = source /\ stage[t] \in ContinuationStages
  BY DEF LookUpSource, InterruptSource, ProbeSession, RereadSource, SupersedeSource, GetSession,
     ContinuationStages
<1>2. PICK s \in TaskIDs : s = source[t]
  BY <1>0, <1>1, SourceIsTask
<1>3. CASE LookUpSource(t)
  <2>1. \/ stage' = [stage EXCEPT ![t] = "interrupt"]
        \/ stage' = [stage EXCEPT ![t] = "failed"]
        \/ mem.state[s] = "completed" /\ stage' = [stage EXCEPT ![t] = "resume"]
    <3>1. PICK st : stage' = [stage EXCEPT ![t] = st] /\ st = AfterGetTask(source[t], "interrupt")
      BY <1>3 DEF LookUpSource
    <3>2. st = AfterGetTask(s, "interrupt")
      BY <1>2, <3>1
    <3>3. st = "interrupt" \/ st = "failed" \/ (mem.state[s] = "completed" /\ st = "resume")
      BY <3>2 DEF AfterGetTask
    <3> QED BY <3>1, <3>3
  <2>2. mem.state[s] = "completed" => Stopped(s)
    BY <1>0 DEF EndedIsStopped, IsActiveTaskState
  <2>3. Stopped(s) => Stopped(s)'
    BY <1>3 DEF LookUpSource, managerVars, Stopped
  <2>4. stage'[t] \notin StoppedStages \/ Stopped(s)'
    BY <1>0, <2>1, <2>2, <2>3 DEF StoppedStages, ClaudeStages
  <2>5. stage'[t] \notin StoppedStages \/ Stopped(source[t])'
    BY <1>1, <1>2, <2>4 DEF Stopped
  <2>6. \A u \in TaskIDs : u # t => stage'[u] = stage[u]
    BY <1>0, <2>1
  <2> QED BY <1>1, <1>2, <2>5, <2>6, StagesMove
<1>4. CASE InterruptSource(t)
  <2>1. Stopped(s)'
    BY <1>0, <1>2, <1>4, InterruptStops DEF InterruptSource
  <2>2. Stopped(source[t])'
    BY <1>1, <1>2, <2>1 DEF Stopped
  <2>3. \A u \in TaskIDs : u # t => stage'[u] = stage[u]
    BY <1>0, <1>4 DEF InterruptSource
  <2> QED BY <1>1, <1>2, <2>2, <2>3, StagesMove
<1>5. CASE ProbeSession(t) \/ RereadSource(t) \/ SupersedeSource(t) \/ GetSession(t)
  <2>1. stage[t] \in StoppedStages
    BY <1>5 DEF ProbeSession, RereadSource, SupersedeSource, GetSession, StoppedStages
  <2>2. \A u \in TaskIDs : u # t => stage'[u] = stage[u]
    BY <1>0, <1>5 DEF ProbeSession, RereadSource, SupersedeSource, GetSession
  <2> QED BY <1>1, <2>1, <2>2, StagesMove
<1> QED BY <1>3, <1>4, <1>5

LEMMA ChainStep ==
  ASSUME ContinueInv, [ContinueNext]_continueVars
  PROVE  ChainInv'
<1>0. ContinueTypeOK /\ [Next]_managerVars
  BY ManagerStepsRefine DEF ContinueInv
<1> USE DEF ContinueTypeOK
<1>1. ASSUME NEW t \in TaskIDs, SubmitComplexTask(t) PROVE SourcesWereFirst' /\ SourceIsStopped'
  <2>1. source[t] = NoSource
    BY <1>1 DEF SubmitComplexTask, Submit, ContinueInv, ChainInv, SourcesWereFirst
  <2>2. source' = source /\ stage' = [stage EXCEPT ![t] = "start"]
    BY <1>1 DEF SubmitComplexTask, Goto
  <2>3. stage'[t] \notin ContinuationStages /\ \A u \in TaskIDs : u # t => stage'[u] = stage[u]
    BY <1>0, <2>2 DEF ContinuationStages
  <2> QED BY <1>0, <2>1, <2>2, <2>3, StagesMove
<1>2. ASSUME NEW t \in TaskIDs, ClaudeStep(t) PROVE SourcesWereFirst' /\ SourceIsStopped'
  <2>1. source' = source /\ stage[t] \in ClaudeStages
    BY <1>2 DEF ClaudeStep, StartRecord, AttachSession, MarkRunning, ExecClaude, InitLine,
       AssistantLine, ReportLine, BadLine, EndOfOutput, ImportEnds, CompleteRecord, At,
       ClaudeStages
  <2>2. PICK st \in (ClaudeStages \cup {"returned", "failed"}) : stage' = [stage EXCEPT ![t] = st]
    BY <1>2 DEF ClaudeStep, StartRecord, AttachSession, MarkRunning, ExecClaude, InitLine,
       AssistantLine, ReportLine, BadLine, EndOfOutput, ImportEnds, CompleteRecord, Goto,
       ClaudeStages
  <2>3. /\ stage[t] \in StoppedStages /\ stage'[t] \notin ContinuationStages
        /\ \A u \in TaskIDs : u # t => stage'[u] = stage[u]
    BY <1>0, <2>1, <2>2 DEF StoppedStages, ContinuationStages, ClaudeStages
  <2> QED BY <1>0, <2>1, <2>3, StagesMove
<1>3. ASSUME NEW a \in ArtifactIDs, ImportArtifact(a) \/ ImportRegisters(a)
      PROVE  SourcesWereFirst' /\ SourceIsStopped'
  <2>1. /\ source' = source
        /\ stage' = stage \/ stage' = [stage EXCEPT ![Owner[a]] = "failed"]
    BY <1>3 DEF ImportArtifact, ImportRegisters, Goto
  <2>2. \A u \in TaskIDs : stage'[u] = stage[u] \/ stage'[u] = "failed"
    BY <1>0, <2>1, TaskManagerAssumption
  <2> QED BY <1>0, <2>1, <2>2, StagesMove
<1>4. ASSUME \/ UserStep \/ ResetTasks \/ ResetClaude \/ UNCHANGED continueVars
             \/ \E t \in TaskIDs : \/ AroundRun(t) \/ RunReturns(t)
                                   \/ ProcessExits(t) \/ ProcessKilled(t)
      PROVE  SourcesWereFirst' /\ SourceIsStopped'
  <2>1. source' = source /\ stage' = stage
    BY <1>4 DEF UserStep, ResetTasks, ResetClaude, AroundRun, RunReturns, ProcessExits,
       ProcessKilled, continueVars
  <2> QED BY <1>0, <2>1, StagesMove
<1> QED BY <1>0, <1>1, <1>2, <1>3, <1>4, SubmitContinueChain, ContinuationChain, StagedStep
        DEF ContinueNext, TaskStep, ChainInv

-----------------------------------------------------------------------------
(* The invariant of ContinueTask, and what follows from it. *)

LEMMA ContinueInvStep ==
  ASSUME ContinueInv, [ContinueNext]_continueVars
  PROVE  ContinueInv'
<1>0. Inv /\ FileInv /\ ContinueTypeOK
  BY DEF ContinueInv
<1>1. [Next]_managerVars
  BY ManagerStepsRefine
<1>2. Inv' /\ TypeOK'
  BY <1>0, <1>1, InvStep DEF Inv
<1>3. FileInv'
  BY <1>0, <1>1, NoOtherFaults, FileInvStep
<1>4. ContinueTypeOK'
  BY <1>0, <1>2, ContinueTypeStep
<1>5. EndedIsStopped'
  <2>1. ASSUME NEW t \in TaskIDs, TakeOver(t)
        PROVE  \E u \in TaskIDs : MarkTaskSuperseded(u) /\ Stopped(u)
    <3>1. PICK s \in TaskIDs : s = source[t]
      BY <2>1 DEF TakeOver
    <3>2. MarkTaskSuperseded(s)
      BY <2>1, <3>1 DEF TakeOver
    <3>3. source[t] # NoSource /\ stage[t] \in StoppedStages
      BY <2>1, SourceIsTask DEF TakeOver, At, StoppedStages, ContinueInv, ChainInv
    <3>4. Stopped(s)
      BY <3>1, <3>3 DEF ContinueInv, ChainInv, SourceIsStopped
    <3> QED BY <3>2, <3>4
  <2> QED BY <1>0, <1>2, <2>1, ManagerSteps, EndedStep DEF ContinueInv
<1>6. ChainInv'
  BY ChainStep
<1> QED BY <1>2, <1>3, <1>4, <1>5, <1>6 DEF ContinueInv

LEMMA ContinueInvInit ==
  ASSUME ContinueInit
  PROVE  ContinueInv
<1>1. Init /\ Inv /\ TypeOK
  BY InvInit DEF ContinueInit, Inv
<1>2. FileInv
  BY <1>1 DEF Init, FileInv, ArtifactsHaveFiles, Registered, EmptySnapshot
<1>3. ContinueTypeOK
  BY <1>1 DEF ContinueInit, ContinueTypeOK, Stages, ClaudeStages, Records, NoRecord, ProcStates
<1>4. EndedIsStopped
  BY <1>1 DEF Init, EndedIsStopped, Stopped
<1>5. ChainInv
  BY <1>1, <1>3 DEF ContinueInit, Init, ChainInv, SourcesWereFirst, SourceIsStopped,
     StagedAtImport, ContinuationStages
<1> QED BY <1>1, <1>2, <1>3, <1>4, <1>5 DEF ContinueInv

\* The invariant of the tasks and their continuations: every run that is not
\* wanted any more was told to stop, a source before its continuation goes on.
THEOREM ContinueInvariance == ContinueSpec => []ContinueInv
<1>1. ContinueInit => ContinueInv
  BY ContinueInvInit
<1>2. ContinueInv /\ [ContinueNext]_continueVars => ContinueInv'
  BY ContinueInvStep
<1> QED BY <1>1, <1>2, PTL DEF ContinueSpec

\* Every variable of the run functions and the Claude side has its type.
THEOREM ContinueTypes == ContinueSpec => []ContinueTypeOK
<1>1. ContinueInv => ContinueTypeOK
  BY DEF ContinueInv
<1> QED BY <1>1, ContinueInvariance, PTL

\* The run functions use the task manager as TaskManager lets them: whatever is
\* proved of Spec holds with continuations, Claude processes and the dashboard.
THEOREM ContinueImplementsManager == ContinueSpec => Spec
<1>1. ContinueInit => Init
  BY DEF ContinueInit
<1>2. ContinueInv /\ [ContinueNext]_continueVars => [Next]_managerVars
  BY ManagerStepsRefine
<1> QED BY <1>1, <1>2, ContinueInvariance, PTL DEF ContinueSpec, Spec

\* No Claude process is started for a task that was cancelled, taken over or
\* wiped while its records were written.
THEOREM LaunchesAreWanted == ContinueSpec => LaunchesOnlyRunning
<1>1. ASSUME ContinueInv, [ContinueNext]_continueVars, NEW t \in TaskIDs,
             proc[t] = "none", proc'[t] = "alive"
      PROVE  mem.state[t] = "running"
  <2>1. ExecClaude(t) /\ MayExec(t)
    BY <1>1, ProcMoves DEF ContinueInv
  <2>2. pc[t] = "executing" /\ t \notin ctxDone
    BY <2>1 DEF ExecClaude, MayExec, At
  <2>3. mem.state[t] \in {"accepted", "running"}
    BY <1>1, <2>2 DEF ContinueInv, EndedIsStopped, Stopped, IsActiveTaskState
  <2>4. mem.state[t] \in {NoTask, "running", "canceled", "superseded"}
    BY <1>1, <2>2 DEF ContinueInv, Inv, RunInv, RunMatchesState
  <2> QED BY <2>3, <2>4 DEF NoTask
<1>2. ContinueInv /\ [ContinueNext]_continueVars =>
        [\A t \in TaskIDs :
           proc[t] = "none" /\ proc'[t] = "alive" => mem.state[t] = "running"]_continueVars
  BY <1>1
<1> QED BY <1>2, ContinueInvariance, PTL DEF ContinueSpec, LaunchesOnlyRunning

\* A Claude record that the dashboard wiped comes back only from a run that
\* starts its Claude side, never from a late write of one under way.
THEOREM WipedRecordsStayAway == ContinueSpec => ResetBlocksStaleUpdates
<1>1. ASSUME ContinueInv, [ContinueNext]_continueVars, NEW t \in TaskIDs,
             ~HasRecord(t), HasRecord(t)'
      PROVE  stage[t] = "start"
  <2>1. claude' # claude
    BY <1>1 DEF HasRecord
  <2>2. ~ResetClaude
    BY <1>1 DEF ResetClaude, HasRecord
  <2>3. ContinueTypeOK
    BY <1>1 DEF ContinueInv
  <2>4. ASSUME NEW u \in TaskIDs,
               SetSession(u) \/ \E st \in ClaudeStatuses : SetStatus(u, st)
        PROVE  FALSE
    BY <1>1, <2>3, <2>4, WriteTypes
  <2>5. ASSUME NEW u \in TaskIDs, ClaudeStep(u) PROVE stage[t] = "start"
    <3>1. StartRecord(u)
      BY <2>1, <2>4, <2>5
      DEF ClaudeStep, AttachSession, MarkRunning, ExecClaude, InitLine, AssistantLine,
      ReportLine, BadLine, EndOfOutput, ImportEnds, CompleteRecord, CompletesRecord,
      ClaudeStatuses
    <3>2. u = t
      BY <1>1, <2>3, <3>1, StartTypes DEF HasRecord
    <3> QED BY <3>1, <3>2 DEF StartRecord, At
  <2>6. ASSUME NEW a \in ArtifactIDs, ImportRegisters(a) PROVE FALSE
    BY <2>1, <2>4, <2>6, TaskManagerAssumption DEF ImportRegisters, ClaudeStatuses
  <2> QED BY <1>1, <2>1, <2>2, <2>5, <2>6
      DEF ContinueNext, TaskStep, ContinuationStep, SubmitComplexTask, SubmitContinueTask,
      LookUpSource, InterruptSource, ProbeSession, RereadSource, SupersedeSource, GetSession,
      ImportArtifact, UserStep, ResetTasks, AroundRun, RunReturns, ProcessExits, ProcessKilled,
      continueVars
<1>2. ContinueInv /\ [ContinueNext]_continueVars =>
        [\A t \in TaskIDs : ~HasRecord(t) /\ HasRecord(t)' => stage[t] = "start"]_continueVars
  BY <1>1
<1> QED BY <1>2, ContinueInvariance, PTL DEF ContinueSpec, ResetBlocksStaleUpdates

\* What TaskManager checks with failing stores and no continuations holds with
\* continuations and without failing stores: no report is forgotten, and what is
\* registered can be opened.
THEOREM ContinuationsKeepReportsAndFiles ==
  ContinueSpec => [](PendingIsAnnounced /\ ArtifactsHaveFiles)
<1>1. ContinueSpec => []PendingIsAnnounced
  BY NoOtherFaults, PendingReportsAreAnnounced, ContinueImplementsManager
<1>2. ContinueSpec => []ArtifactsHaveFiles
  BY NoOtherFaults, ArtifactsCanBeOpened, ContinueImplementsManager
<1> QED BY <1>1, <1>2, PTL

-----------------------------------------------------------------------------
(* What a step changes. *)

\* Where the state of a task goes in a step, and by which call.
LEMMA StateMoves ==
  ASSUME Inv, PlainStep, NEW t \in TaskIDs
  PROVE  \/ mem'.state[t] = mem.state[t]
         \/ Submit(t) /\ mem'.state[t] = "accepted"
         \/ mem.state[t] = "accepted" /\ mem'.state[t] = "running"
         \/ RecordCompletion(t) /\ mem'.state[t] = "completed"
         \/ mem'.state[t] \in {"failed", "canceled", NoTask}
<1>0. /\ TypeOK
      /\ mem.state \in [TaskIDs -> TaskStates \cup {NoTask}]
  BY DEF Inv, TypeOK, Snapshots
<1> DEFINE Moves == \/ mem'.state[t] = mem.state[t]
                    \/ Submit(t) /\ mem'.state[t] = "accepted"
                    \/ mem.state[t] = "accepted" /\ mem'.state[t] = "running"
                    \/ RecordCompletion(t) /\ mem'.state[t] = "completed"
                    \/ mem'.state[t] \in {"failed", "canceled", NoTask}
<1>1. ASSUME NEW u \in TaskIDs, NEW s, mem'.state = [mem.state EXCEPT ![u] = s]
      PROVE  \/ mem'.state[t] = mem.state[t]
             \/ t = u /\ mem'.state[t] = s
  BY <1>0, <1>1
<1>2. ASSUME NEW u \in TaskIDs, Submit(u) PROVE Moves
  <2>1. mem'.state = [mem.state EXCEPT ![u] = "accepted"]
    BY <1>0, <1>2 DEF Submit, UpdateState, Enter
  <2> QED BY <1>1, <1>2, <2>1
<1>3. ASSUME NEW u \in TaskIDs, StartTask(u) PROVE Moves
  <2>1. \/ mem' = mem
        \/ MayStart(u) /\ mem' = Enter(u, "running")
    BY <1>3, UpdateTaskCases DEF StartTask
  <2>2. Enter(u, "running").state = [mem.state EXCEPT ![u] = "running"]
    BY <1>0 DEF Enter
  <2>3. CASE mem' = mem
    BY <2>3
  <2>4. CASE MayStart(u) /\ mem' = Enter(u, "running")
    <3>1. mem'.state = [mem.state EXCEPT ![u] = "running"]
      BY <2>2, <2>4
    <3> QED BY <1>1, <2>4, <3>1 DEF MayStart
  <2> QED BY <2>1, <2>3, <2>4
<1>4. ASSUME NEW u \in TaskIDs, RecordFailure(u) \/ RecordCompletion(u) PROVE Moves
  <2>1. \/ mem' = mem
        \/ mem' = Conclude(u, "failed")
        \/ RecordCompletion(u) /\ mem' = Conclude(u, "completed")
    BY <1>4, UpdateTaskCases DEF RecordFailure, RecordCompletion
  <2>2. CASE mem' = mem
    BY <2>2
  <2>3. CASE mem' = Conclude(u, "failed")
    <3>1. mem'.state = [mem.state EXCEPT ![u] = "failed"]
      BY <1>0, <2>3, ConcludeFields
    <3> QED BY <1>1, <3>1
  <2>4. CASE RecordCompletion(u) /\ mem' = Conclude(u, "completed")
    <3>1. mem'.state = [mem.state EXCEPT ![u] = "completed"]
      BY <1>0, <2>4, ConcludeFields
    <3> QED BY <1>1, <2>4, <3>1
  <2> QED BY <2>1, <2>2, <2>3, <2>4
<1>5. ASSUME NEW u \in TaskIDs,
             RunFails(u) \/ ClearCancel(u) \/ NotifyResultReportReady(u)
               \/ CancelNotifies(u) \/ InterruptTask(u)
      PROVE  Moves
  BY <1>5 DEF RunFails, ClearCancel, NotifyResultReportReady, CancelNotifies, InterruptTask
<1>6. ASSUME NEW u \in TaskIDs, CancelLatest(u) PROVE Moves
  <2>1. mem' = Conclude(u, "canceled")
    BY <1>6 DEF CancelLatest, UpdateState
  <2>2. mem'.state = [mem.state EXCEPT ![u] = "canceled"]
    BY <1>0, <2>1, ConcludeFields
  <2> QED BY <1>1, <2>2
<1>7. CASE ReporterStep \/ ReportStep
  BY <1>0, <1>7, ReportsKeepStates
<1>8. CASE UNCHANGED managerVars
  BY <1>8 DEF managerVars
<1>9. CASE Reset
  BY <1>9 DEF Reset, EmptySnapshot
<1> QED BY <1>2, <1>3, <1>4, <1>5, <1>6, <1>7, <1>8, <1>9 DEF PlainStep, GoroutineStep

\* The steps a task takes itself, and the wipe, change its place and record;
\* no other step does.
OwnStep(t) ==
  \/ SubmitComplexTask(t)
  \/ \E s \in TaskIDs : SubmitContinueTask(t, s)
  \/ ContinuationStep(t)
  \/ ClaudeStep(t)
  \/ \E a \in ArtifactIDs : Owner[a] = t /\ ImportRegisters(a)

LEMMA OthersStay ==
  ASSUME ContinueTypeOK, [ContinueNext]_continueVars, NEW t \in TaskIDs, ~OwnStep(t)
  PROVE  /\ stage'[t] = stage[t] /\ source'[t] = source[t]
         /\ ResetClaude \/ claude'[t] = claude[t]
<1> USE DEF ContinueTypeOK
<1> DEFINE Same == /\ stage'[t] = stage[t] /\ source'[t] = source[t]
                   /\ ResetClaude \/ claude'[t] = claude[t]
<1>0. "running" \in ClaudeStatuses /\ "completed" \in ClaudeStatuses /\ "failed" \in ClaudeStatuses
  BY DEF ClaudeStatuses
<1>1. ASSUME NEW u \in TaskIDs \ {t}, NEW st, stage' = [stage EXCEPT ![u] = st] \/ stage' = stage
      PROVE  stage'[t] = stage[t]
  BY <1>1
<1>2. ASSUME NEW u \in TaskIDs \ {t},
             \/ SetSession(u) \/ claude' = claude \/ StartRecord(u)
             \/ \E st \in ClaudeStatuses : SetStatus(u, st)
      PROVE  claude'[t] = claude[t]
  BY <1>2, WriteTypes, StartTypes
<1>3. ASSUME NEW u \in TaskIDs \ {t}, SubmitComplexTask(u) PROVE Same
  BY <1>3 DEF SubmitComplexTask, Goto
<1>4. ASSUME NEW u \in TaskIDs \ {t}, NEW s \in TaskIDs, SubmitContinueTask(u, s) PROVE Same
  BY <1>4 DEF SubmitContinueTask, Goto
<1>5. ASSUME NEW u \in TaskIDs \ {t}, ContinuationStep(u) PROVE Same
  BY <1>5 DEF ContinuationStep, LookUpSource, InterruptSource, ProbeSession, RereadSource,
     SupersedeSource, GetSession, Goto
<1>6. ASSUME NEW u \in TaskIDs \ {t}, ClaudeStep(u) PROVE Same
  <2>1. source' = source
    BY <1>6 DEF ClaudeStep, StartRecord, AttachSession, MarkRunning, ExecClaude, InitLine,
       AssistantLine, ReportLine, BadLine, EndOfOutput, ImportEnds, CompleteRecord
  <2>2. \E st : stage' = [stage EXCEPT ![u] = st]
    BY <1>6 DEF ClaudeStep, StartRecord, AttachSession, MarkRunning, ExecClaude, InitLine,
       AssistantLine, ReportLine, BadLine, EndOfOutput, ImportEnds, CompleteRecord, Goto
  <2>3. \/ SetSession(u) \/ claude' = claude \/ StartRecord(u)
        \/ \E st \in ClaudeStatuses : SetStatus(u, st)
    BY <1>0, <1>6 DEF ClaudeStep, AttachSession, MarkRunning, ExecClaude, InitLine,
       AssistantLine, ReportLine, BadLine, EndOfOutput, ImportEnds, CompleteRecord,
       CompletesRecord
  <2> QED BY <1>1, <1>2, <2>1, <2>2, <2>3
<1>7. ASSUME NEW a \in ArtifactIDs, Owner[a] # t, ImportRegisters(a) PROVE Same
  <2>1. PICK u \in TaskIDs \ {t} : u = Owner[a]
    BY <1>7, TaskManagerAssumption
  <2>2. /\ source' = source
        /\ stage' = [stage EXCEPT ![u] = "failed"] \/ stage' = stage
        /\ claude' = claude \/ SetStatus(u, "failed")
    BY <1>7, <2>1 DEF ImportRegisters, Goto
  <2> QED BY <1>0, <1>1, <1>2, <2>2
<1>8. ASSUME \/ UserStep \/ ResetTasks \/ ResetClaude \/ UNCHANGED continueVars
             \/ \E a \in ArtifactIDs : ImportArtifact(a)
             \/ \E u \in TaskIDs : \/ AroundRun(u) \/ RunReturns(u)
                                   \/ ProcessExits(u) \/ ProcessKilled(u)
      PROVE  Same
  BY <1>8 DEF UserStep, ResetTasks, ResetClaude, ImportArtifact, AroundRun, RunReturns, ProcessExits,
     ProcessKilled, continueVars
<1>9. ASSUME NEW u \in TaskIDs,
             \/ SubmitComplexTask(u) \/ ContinuationStep(u) \/ ClaudeStep(u)
             \/ \E s \in TaskIDs : SubmitContinueTask(u, s)
      PROVE  Same
  BY <1>3, <1>4, <1>5, <1>6, <1>9 DEF OwnStep
<1>10. ASSUME NEW a \in ArtifactIDs, ImportRegisters(a) PROVE Same
  BY <1>7, <1>10 DEF OwnStep
<1> QED BY <1>8, <1>9, <1>10 DEF ContinueNext, TaskStep

\* A run function is left at its two ends only.
LEMMA RunsToItsEnd ==
  ASSUME TypeOK, [ContinueNext]_continueVars, NEW t \in TaskIDs, pc[t] = "executing"
  PROVE  \/ pc'[t] = "executing"
         \/ stage[t] = "failed" /\ pc'[t] # "clearing"
         \/ stage[t] = "returned"
<1> DEFINE Ends == \/ pc'[t] = "executing"
                   \/ stage[t] = "failed" /\ pc'[t] # "clearing"
                   \/ stage[t] = "returned"
<1>1. ASSUME NEW u \in TaskIDs, Submit(u) PROVE Ends
  BY <1>1 DEF Submit, TypeOK
<1>2. ASSUME NEW u \in TaskIDs, AroundRun(u) PROVE Ends
  BY <1>2 DEF AroundRun, StartTask, RecordFailure, ClearCancel, NotifyResultReportReady, TypeOK
<1>3. ASSUME NEW u \in TaskIDs, RunReturns(u) PROVE Ends
  BY <1>3 DEF RunReturns, RunFails, RecordCompletion, TypeOK
<1>4. ASSUME NEW u \in TaskIDs,
             ContinuationStep(u) \/ ClaudeStep(u) \/ ProcessExits(u) \/ ProcessKilled(u)
      PROVE  Ends
  BY <1>4 DEF ContinuationStep, LookUpSource, InterruptSource, ProbeSession, RereadSource,
     SupersedeSource, GetSession, InterruptTask, MarkTaskSuperseded, ClaudeStep, StartRecord,
     AttachSession, MarkRunning, ExecClaude, InitLine, AssistantLine, ReportLine,
     BadLine, EndOfOutput, ImportEnds, CompleteRecord, ReporterUpdate, ProcessExits,
     ProcessKilled, managerVars
<1>5. ASSUME \/ UserStep \/ ResetTasks \/ ResetClaude \/ UNCHANGED continueVars
             \/ \E a \in ArtifactIDs : ImportArtifact(a) \/ ImportRegisters(a)
      PROVE  Ends
  BY <1>5 DEF UserStep, ResetTasks, ResetClaude, ImportArtifact, ImportRegisters, StageArtifact,
     RegisterArtifact, CancelLatest, CancelNotifies, MarkResultReported, Reset, continueVars,
     managerVars
<1> QED BY <1>1, <1>2, <1>3, <1>4, <1>5
        DEF ContinueNext, TaskStep, SubmitComplexTask, SubmitContinueTask

LEMMA TakeOverMoves ==
  ASSUME Inv, NEW u \in TaskIDs, TakeOver(u), NEW t \in TaskIDs
  PROVE  \/ mem'.state[t] = mem.state[t]
         \/ source[u] = t /\ mem'.state[t] = "superseded"
<1>1. PICK s \in TaskIDs : s = source[u]
  BY DEF TakeOver
<1>2. MarkTaskSuperseded(s)
  BY <1>1 DEF TakeOver
<1>3. /\ mem.state \in [TaskIDs -> TaskStates \cup {NoTask}]
      /\ [mem EXCEPT !.state[s] = "superseded", !.pending = @ \ {s}].state
           = [mem.state EXCEPT ![s] = "superseded"]
  BY DEF Inv, TypeOK, Snapshots
<1>4. mem'.state = mem.state \/ mem'.state = [mem.state EXCEPT ![s] = "superseded"]
  BY <1>2, <1>3, UpdateTaskCases DEF MarkTaskSuperseded
<1> QED BY <1>1, <1>3, <1>4

\* A source is given once.
LEMMA SourceGiven ==
  ASSUME ContinueInv, [ContinueNext]_continueVars, NEW t \in TaskIDs
  PROVE  \/ source'[t] = source[t]
         \/ \E s \in TaskIDs : /\ source[t] = NoSource /\ source'[t] = s
                               /\ EarlyContinuation \/ HasSession(s)
<1>0. ContinueTypeOK /\ SourcesWereFirst
  BY DEF ContinueInv, ChainInv
<1>1. CASE ~OwnStep(t)
  BY <1>0, <1>1, OthersStay
<1>2. ASSUME NEW s \in TaskIDs, SubmitContinueTask(t, s)
      PROVE  /\ source[t] = NoSource /\ source'[t] = s
             /\ EarlyContinuation \/ HasSession(s)
  BY <1>0, <1>2 DEF SubmitContinueTask, Submit, ContinueTypeOK, SourcesWereFirst
<1>3. CASE \/ SubmitComplexTask(t) \/ ContinuationStep(t) \/ ClaudeStep(t)
           \/ \E a \in ArtifactIDs : Owner[a] = t /\ ImportRegisters(a)
  BY <1>3 DEF SubmitComplexTask, ContinuationStep, LookUpSource, InterruptSource, ProbeSession,
     RereadSource, SupersedeSource, GetSession, ClaudeStep, StartRecord, AttachSession,
     MarkRunning, ExecClaude, InitLine, AssistantLine, ReportLine, BadLine, EndOfOutput,
     ImportEnds, CompleteRecord, ImportRegisters
<1> QED BY <1>1, <1>2, <1>3 DEF OwnStep

\* A run function that has returned takes no step of its own.
LEMMA ReturnedStays ==
  ASSUME ContinueInv, [ContinueNext]_continueVars,
         NEW t \in TaskIDs, stage[t] = "returned", pc[t] # "none"
  PROVE  stage'[t] = "returned"
<1>1. ~SubmitComplexTask(t) /\ ~\E s \in TaskIDs : SubmitContinueTask(t, s)
  BY DEF SubmitComplexTask, SubmitContinueTask, Submit
<1>2. ~ContinuationStep(t)
  BY DEF ContinuationStep, LookUpSource, InterruptSource, ProbeSession, RereadSource,
     SupersedeSource, GetSession, At
<1>3. ~ClaudeStep(t)
  BY DEF ClaudeStep, StartRecord, AttachSession, MarkRunning, ExecClaude, InitLine,
     AssistantLine, ReportLine, BadLine, EndOfOutput, ImportEnds, CompleteRecord, At
<1>4. ~\E a \in ArtifactIDs : Owner[a] = t /\ ImportRegisters(a)
  BY DEF ImportRegisters, RegisterArtifact, ContinueInv, ChainInv, StagedAtImport
<1> QED BY <1>1, <1>2, <1>3, <1>4, OthersStay DEF OwnStep, ContinueInv

LEMMA CompletedStep ==
  ASSUME ContinueInv, CompletedHasReturned, [ContinueNext]_continueVars
  PROVE  CompletedHasReturned'
<1> SUFFICES ASSUME NEW t \in TaskIDs, mem'.state[t] = "completed"
             PROVE  stage'[t] = "returned"
  BY DEF CompletedHasReturned
<1>0. Inv /\ TypeOK
  BY DEF ContinueInv, ContinueTypeOK
<1>1. CASE mem.state[t] = "completed"
  <2>1. stage[t] = "returned" /\ pc[t] # "none"
    BY <1>0, <1>1 DEF CompletedHasReturned, Inv, RunInv, FreshTasks, NoTask
  <2> QED BY <2>1, ReturnedStays
<1>2. CASE RecordCompletion(t)
  <2>1. pc[t] = "executing" /\ pc'[t] = "clearing"
    BY <1>0, <1>2 DEF RecordCompletion, RunIsBetweenCalls, TypeOK
  <2>2. stage[t] = "returned"
    BY <1>0, <2>1, RunsToItsEnd
  <2> QED BY <2>1, <2>2, ReturnedStays
<1>3. ASSUME NEW u \in TaskIDs, TakeOver(u) PROVE mem.state[t] = "completed"
  BY <1>0, <1>3, TakeOverMoves
<1>4. ASSUME PlainStep PROVE mem.state[t] = "completed" \/ RecordCompletion(t)
  BY <1>0, <1>4, StateMoves DEF NoTask
<1> QED BY <1>1, <1>2, <1>3, <1>4, ManagerSteps

-----------------------------------------------------------------------------
(* Processes: what a source has left behind when its session is resumed,   *)
(* with resets and with early continuations.                               *)

\* No task becomes active but by its submission.
LEMMA ActiveBefore ==
  ASSUME ContinueInv, [ContinueNext]_continueVars, NEW t \in TaskIDs,
         IsActiveTaskState(mem'.state[t])
  PROVE  IsActiveTaskState(mem.state[t]) \/ Submit(t)
<1>0. Inv
  BY DEF ContinueInv
<1>1. ASSUME PlainStep PROVE IsActiveTaskState(mem.state[t]) \/ Submit(t)
  BY <1>0, <1>1, StateMoves DEF IsActiveTaskState, NoTask
<1>2. ASSUME NEW u \in TaskIDs, TakeOver(u) PROVE IsActiveTaskState(mem.state[t])
  BY <1>0, <1>2, TakeOverMoves DEF IsActiveTaskState
<1> QED BY <1>1, <1>2, ManagerSteps

\* Only its own goroutine, once submitted, moves on.
LEMMA PcMoves ==
  ASSUME TypeOK, [Next]_managerVars, NEW t \in TaskIDs
  PROVE  pc'[t] = pc[t] \/ Submit(t) \/ GoroutineStep(t)
<1>1. ASSUME NEW u \in TaskIDs, u # t, Submit(u) \/ GoroutineStep(u) PROVE pc'[t] = pc[t]
  BY <1>1 DEF Submit, GoroutineStep, StartTask, RunFails, RecordFailure, RecordCompletion,
     ClearCancel, NotifyResultReportReady, TypeOK
<1>2. ASSUME NEW u \in TaskIDs,
             CancelLatest(u) \/ CancelNotifies(u) \/ InterruptTask(u) \/ MarkTaskSuperseded(u)
      PROVE  pc' = pc
  BY <1>2 DEF CancelLatest, CancelNotifies, InterruptTask, MarkTaskSuperseded
<1>3. CASE ReporterStep \/ ReportStep
  BY <1>3 DEF ReporterStep, ReportStep, ReporterUpdate, StageArtifact, RegisterArtifact,
     MarkResultReported, MarkArtifactDeliveriesNoChannel, MarkArtifactDeliveryDelivered,
     MarkArtifactDeliveryFailed, MarkArtifactDelivery
<1>4. CASE Reset \/ UNCHANGED managerVars
  BY <1>4 DEF Reset, managerVars
<1> QED BY <1>1, <1>2, <1>3, <1>4, NoOtherFaults DEF Next, TakeOverStep, Restart

\* A task that is quiet stays quiet.
LEMMA QuietStays ==
  ASSUME ContinueInv, [ContinueNext]_continueVars, NEW t \in TaskIDs, pc[t] # "none", Quiet(t)
  PROVE  Quiet(t)'
<1>1. TypeOK /\ ContinueTypeOK /\ [Next]_managerVars
  BY ManagerStepsRefine DEF ContinueInv, ContinueTypeOK
<1>2. Stopped(t)' /\ ctxDone \subseteq ctxDone'
  BY <1>1, StoppedStays DEF Quiet
<1>3. ~(ExecClaude(t) /\ MayExec(t))
  BY DEF ExecClaude, MayExec, At, Quiet, Stopped
<1>4. proc'[t] = "alive" => proc[t] = "alive"
  BY <1>1, <1>3, ProcMoves
<1> QED BY <1>2, <1>4 DEF Quiet

\* A task that completed is quiet: it returned, which it does after its process.
LEMMA CompletedIsQuiet ==
  ASSUME ContinueInv, ProcInv, NEW t \in TaskIDs, mem.state[t] = "completed"
  PROVE  Quiet(t)
<1>1. Stopped(t)
  BY DEF ContinueInv, EndedIsStopped, IsActiveTaskState
<1>2. proc[t] = "exited"
  BY DEF ProcInv, CompletedHasReturned, ProcMatchesStage
<1> QED BY <1>1, <1>2 DEF Quiet

LEMMA GoneStep ==
  ASSUME ContinueInv, GoneIsEnded, [ContinueNext]_continueVars
  PROVE  GoneIsEnded'
<1> DEFINE Ends == {"clearing", "clearingQuiet", "notifying", "gone"}
<1> SUFFICES ASSUME NEW t \in TaskIDs, pc'[t] \in Ends, IsActiveTaskState(mem'.state[t])
             PROVE  t \in ctxDone'
  BY DEF GoneIsEnded
<1>0. /\ Inv /\ TypeOK /\ [Next]_managerVars
      /\ mem.state \in [TaskIDs -> TaskStates \cup {NoTask}]
  BY ManagerStepsRefine DEF ContinueInv, ContinueTypeOK, TypeOK, Snapshots
<1>1. ~Submit(t)
  BY <1>0, NoOtherFaults DEF Submit, SaveOutcomes, TypeOK
<1>2. IsActiveTaskState(mem.state[t]) /\ Found(t) /\ ~BlocksFurtherTaskWrites(mem.state[t])
  BY <1>1, ActiveBefore DEF IsActiveTaskState, Found, NoTask, BlocksFurtherTaskWrites
<1>3. pc[t] # "none"
  BY <1>0, <1>2 DEF Inv, RunInv, FreshTasks, Found
<1>4. ctxDone \subseteq ctxDone'
  BY <1>0, <1>3, StoppedStays
<1>5. CASE pc'[t] = pc[t] \/ ClearCancel(t) \/ NotifyResultReportReady(t)
  BY <1>2, <1>4, <1>5 DEF GoneIsEnded, ClearCancel, NotifyResultReportReady
<1>6. CASE StartTask(t)
  <2>1. mem.state[t] = "accepted"
    BY <1>0, <1>2, <1>6 DEF StartTask, Inv, RunInv, RunMatchesState, IsActiveTaskState, NoTask
  <2> QED BY <1>0, <1>4, <1>6, <2>1 DEF StartTask, MayStart, TypeOK
<1>7. CASE RunFails(t)
  BY <1>0, <1>4, <1>7 DEF RunFails, TypeOK
<1>8. CASE RecordFailure(t) \/ RecordCompletion(t)
  <2>1. mem' = Conclude(t, "failed") \/ mem' = Conclude(t, "completed")
    BY <1>2, <1>8, UpdateTaskCases DEF RecordFailure, RecordCompletion
  <2>2. \/ mem'.state = [mem.state EXCEPT ![t] = "failed"]
        \/ mem'.state = [mem.state EXCEPT ![t] = "completed"]
    BY <1>0, <2>1, ConcludeFields
  <2> QED BY <1>0, <2>2 DEF IsActiveTaskState
<1> QED BY <1>0, <1>1, <1>5, <1>6, <1>7, <1>8, PcMoves DEF GoroutineStep

LEMMA ProcStep ==
  ASSUME ContinueInv, ProcMatchesStage, [ContinueNext]_continueVars
  PROVE  ProcMatchesStage'
<1> DEFINE Ended == {"import", "complete", "returned"}
<1> SUFFICES ASSUME NEW t \in TaskIDs, stage'[t] \in Ended PROVE proc'[t] = "exited"
  BY DEF ProcMatchesStage
<1>0. ContinueTypeOK
  BY DEF ContinueInv
<1>1. CASE stage[t] \in Ended
  <2>1. proc[t] = "exited" /\ ~ExecClaude(t)
    BY <1>1 DEF ProcMatchesStage, ExecClaude, At
  <2> QED BY <1>0, <2>1, ProcMoves
<1>2. CASE stage[t] \notin Ended
  <2>1. OwnStep(t)
    BY <1>0, <1>2, OthersStay
  <2>2. stage'[t] # stage[t]
    BY <1>2
  <2>3. ~SubmitComplexTask(t) /\ ~\E s \in TaskIDs : SubmitContinueTask(t, s)
    BY <1>0 DEF SubmitComplexTask, SubmitContinueTask, Goto, ContinueTypeOK
  <2>4. ~ContinuationStep(t)
    BY <1>0 DEF ContinuationStep, LookUpSource, InterruptSource, ProbeSession, RereadSource,
       SupersedeSource, GetSession, AfterGetTask, Goto, ContinueTypeOK
  <2>5. ~\E a \in ArtifactIDs : Owner[a] = t /\ ImportRegisters(a)
    BY <1>0, <2>2 DEF ImportRegisters, Goto, ContinueTypeOK
  <2>6. EndOfOutput(t)
    BY <1>0, <1>2, <2>1, <2>2, <2>3, <2>4, <2>5
    DEF OwnStep, ClaudeStep, StartRecord, AttachSession, MarkRunning, ExecClaude, InitLine,
        AssistantLine, ReportLine, BadLine, ImportEnds, CompleteRecord, At, Goto, ContinueTypeOK
  <2> QED BY <1>0, <2>6 DEF EndOfOutput, Goto, ContinueTypeOK
<1> QED BY <1>1, <1>2

\* An active task is quiet once InterruptTask has returned.
LEMMA InterruptQuiet ==
  ASSUME ContinueInv, ProcInv, [ContinueNext]_continueVars,
         NEW t \in TaskIDs, InterruptSource(t), NEW s \in TaskIDs, source[t] = s,
         IsActiveTaskState(mem.state[s])
  PROVE  Quiet(s)'
<1>1. pc[s] # "none" /\ s # NoSource
  BY ContinueAssumption DEF ContinueInv, ChainInv, SourcesWereFirst, NoSource
<1>2. InterruptTask(s)
  BY DEF InterruptSource
<1>3. CASE s \in cancels
  BY <1>2, <1>3 DEF InterruptTask, CancelContext, Quiet, Stopped
<1>4. CASE s \notin cancels
  <2>1. pc[s] \notin Live \/ s \in ctxDone
    BY <1>4 DEF ContinueInv, Inv, RunInv, CancelTableExact
  <2>2. pc[s] \in Live \/ pc[s] \in {"notifying", "gone"}
    BY <1>1 DEF ContinueInv, ContinueTypeOK, TypeOK, PCs, Live
  <2>3. s \in ctxDone
    BY <2>1, <2>2 DEF ProcInv, GoneIsEnded
  <2> QED BY <1>2, <2>3 DEF InterruptTask, CancelContext, Quiet, Stopped
<1> QED BY <1>3, <1>4

LEMMA SourceQuietStep ==
  ASSUME ContinueInv, ProcInv, [ContinueNext]_continueVars
  PROVE  SourceIsQuiet'
<1> SUFFICES ASSUME NEW t \in TaskIDs, source'[t] # NoSource,
                    \/ /\ stage'[t] \in {"probe", "reread"}
                       /\ IsActiveTaskState(mem'.state[source'[t]])
                    \/ stage'[t] \in QuietStages
             PROVE  Quiet(source[t])'
  BY DEF SourceIsQuiet
<1> USE DEF QuietStages, ClaudeStages
<1>0. ContinueTypeOK /\ SourcesWereFirst /\ SourceIsQuiet
  BY DEF ContinueInv, ChainInv, ProcInv
<1>1. ~\E u \in TaskIDs : SubmitContinueTask(t, u)
  BY <1>0 DEF SubmitContinueTask, Goto, ContinueTypeOK
<1>2. source'[t] = source[t]
  <2>1. CASE ~OwnStep(t)
    BY <1>0, <2>1, OthersStay
  <2>2. CASE OwnStep(t)
    BY <1>1, <2>2 DEF OwnStep, SubmitComplexTask, ContinuationStep, LookUpSource,
       InterruptSource, ProbeSession, RereadSource, SupersedeSource, GetSession, ClaudeStep,
       StartRecord, AttachSession, MarkRunning, ExecClaude, InitLine, AssistantLine, ReportLine,
       BadLine, EndOfOutput, ImportEnds, CompleteRecord, ImportRegisters
  <2> QED BY <2>1, <2>2
<1>3. PICK s \in TaskIDs : s = source[t] /\ s = source'[t]
  BY <1>0, <1>2, SourceIsTask
<1>4. pc[s] # "none" /\ s # NoSource
  BY <1>0, <1>2, <1>3 DEF SourcesWereFirst
<1>5. IsActiveTaskState(mem'.state[s]) => IsActiveTaskState(mem.state[s])
  BY <1>4, ActiveBefore DEF Submit
<1> SUFFICES Quiet(s)'
  BY <1>3 DEF Quiet, Stopped
<1>6. CASE Quiet(s)
  BY <1>4, <1>6, QuietStays
<1>7. CASE stage'[t] = stage[t]
  BY <1>0, <1>3, <1>4, <1>5, <1>6, <1>7 DEF SourceIsQuiet
<1>8. CASE ~OwnStep(t)
  BY <1>0, <1>7, <1>8, OthersStay
<1>9. CASE ContinuationStep(t)
  <2>1. CASE LookUpSource(t)
    <3>1. mem.state[s] = "completed"
      BY <1>0, <1>3, <2>1 DEF LookUpSource, AfterGetTask, Goto, ContinueTypeOK
    <3> QED BY <1>6, <3>1, CompletedIsQuiet
  <2>2. CASE InterruptSource(t)
    <3>1. stage'[t] \in {"probe", "failed"}
      BY <1>0, <2>2 DEF InterruptSource, Goto, ContinueTypeOK
    <3>2. IsActiveTaskState(mem.state[s])
      BY <1>3, <1>5, <3>1
    <3> QED BY <1>3, <2>2, <3>2, InterruptQuiet
  <2>3. CASE ProbeSession(t)
    <3>1. stage[t] = "probe" /\ stage'[t] \in {"reread", "failed"}
      BY <1>0, <2>3 DEF ProbeSession, At, Goto, ContinueTypeOK
    <3> QED BY <1>0, <1>3, <1>4, <1>5, <1>6, <3>1 DEF SourceIsQuiet
  <2>4. CASE RereadSource(t)
    <3>1. stage[t] = "reread" /\ stage'[t] = AfterGetTask(s, "supersede")
      BY <1>0, <1>3, <2>4 DEF RereadSource, At, Goto, ContinueTypeOK
    <3>2. CASE IsActiveTaskState(mem.state[s])
      BY <1>0, <1>3, <1>4, <1>6, <3>1, <3>2 DEF SourceIsQuiet
    <3>3. CASE ~IsActiveTaskState(mem.state[s])
      <4>1. mem.state[s] = "completed"
        BY <3>1, <3>3 DEF AfterGetTask
      <4> QED BY <1>6, <4>1, CompletedIsQuiet
    <3> QED BY <3>2, <3>3
  <2>5. CASE SupersedeSource(t) \/ GetSession(t)
    <3>1. stage[t] \in QuietStages
      BY <2>5 DEF SupersedeSource, GetSession, At
    <3> QED BY <1>0, <1>3, <1>4, <1>6, <3>1 DEF SourceIsQuiet
  <2> QED BY <1>9, <2>1, <2>2, <2>3, <2>4, <2>5 DEF ContinuationStep
<1>10. CASE ClaudeStep(t)
  <2>1. stage[t] \in QuietStages
    BY <1>10 DEF ClaudeStep, StartRecord, AttachSession, MarkRunning, ExecClaude, InitLine,
       AssistantLine, ReportLine, BadLine, EndOfOutput, ImportEnds, CompleteRecord, At
  <2> QED BY <1>0, <1>3, <1>4, <1>6, <2>1 DEF SourceIsQuiet
<1>11. ~SubmitComplexTask(t)
  BY <1>0, <1>3, <1>4 DEF SubmitComplexTask, Submit, SourcesWereFirst
<1>12. ASSUME NEW a \in ArtifactIDs, Owner[a] = t, ImportRegisters(a) PROVE Quiet(s)'
  <2>1. stage'[t] = stage[t] \/ stage'[t] = "failed"
    BY <1>0, <1>12 DEF ImportRegisters, Goto, ContinueTypeOK
  <2> QED BY <1>7, <2>1
<1> QED BY <1>1, <1>8, <1>9, <1>10, <1>11, <1>12 DEF OwnStep

LEMMA ProcInvInit ==
  ASSUME ContinueInit
  PROVE  ProcInv
<1>1. /\ mem.state = [t \in TaskIDs |-> NoTask] /\ pc = [t \in TaskIDs |-> "none"]
      /\ stage = [t \in TaskIDs |-> "start"] /\ source = [t \in TaskIDs |-> NoSource]
  BY DEF ContinueInit, Init, EmptySnapshot
<1> QED BY <1>1 DEF ProcInv, CompletedHasReturned, GoneIsEnded, ProcMatchesStage, SourceIsQuiet,
        NoTask

\* A task that completed has no process left, and one that a continuation found
\* active has been stopped, with the process it may leave behind.
THEOREM ProcInvariance == ContinueSpec => [](ContinueInv /\ ProcInv)
<1>1. ContinueInit => ContinueInv /\ ProcInv
  BY ContinueInvInit, ProcInvInit
<1>2. ContinueInv /\ ProcInv /\ [ContinueNext]_continueVars => ContinueInv' /\ ProcInv'
  <2>1. ContinueInv /\ ProcInv /\ [ContinueNext]_continueVars => ProcInv'
    BY CompletedStep, GoneStep, ProcStep, SourceQuietStep DEF ProcInv
  <2> QED BY <2>1, ContinueInvStep
<1> QED BY <1>1, <1>2, PTL DEF ContinueSpec

\* By the time a continuation resumes the session, the run of its source was
\* told to stop or is over, whoever completed, cancelled or interrupted it, and
\* a process that it has left is about to be killed.
THEOREM SourcesStopFirst == ContinueSpec => []SourceStopsFirst
<1>1. ASSUME ProcInv, NEW s \in TaskIDs, NEW t \in Resumed(s)
      PROVE  /\ s \in ctxDone \/ pc[s] \notin {"spawned", "executing"}
             /\ proc[s] = "alive" => s \in ctxDone
  <2>1. source[t] = s /\ stage[t] \in QuietStages /\ t \in TaskIDs /\ source[t] # NoSource
    BY <1>1, ContinueAssumption DEF Resumed, QuietStages, NoSource
  <2> QED BY <1>1, <2>1 DEF ProcInv, SourceIsQuiet, Quiet, Stopped
<1>2. ProcInv => SourceStopsFirst
  BY <1>1 DEF SourceStopsFirst
<1> QED BY <1>2, ProcInvariance, PTL

-----------------------------------------------------------------------------
(* Sessions: what holds while the dashboard does not reset, and a source   *)
(* has a session when it gets a continuation.                              *)

\* Contexts are cancelled by a user, or by a continuation, for the task they
\* then stop.
LEMMA StoppedBy ==
  ASSUME TypeOK, [ContinueNext]_continueVars, "reset" \notin Faults,
         NEW s \in TaskIDs, s \in ctxDone', s \notin ctxDone
  PROVE  CancelLatest(s) \/ \E t \in TaskIDs : InterruptSource(t) /\ source[t] = s
<1> DEFINE By == CancelLatest(s) \/ \E t \in TaskIDs : InterruptSource(t) /\ source[t] = s
<1>1. ASSUME NEW t \in TaskIDs, InterruptSource(t) PROVE By
  <2>1. InterruptTask(source[t])
    BY <1>1 DEF InterruptSource, managerVars
  <2> QED BY <1>1, <2>1 DEF InterruptTask, CancelContext
<1>2. CASE UserStep
  BY <1>2 DEF UserStep, CancelLatest, CancelContext, CancelNotifies, MarkResultReported
<1>3. ctxDone' # ctxDone
  OBVIOUS
<1>4. ASSUME NEW t \in TaskIDs,
             \/ SubmitComplexTask(t) \/ \E u \in TaskIDs : SubmitContinueTask(t, u)
             \/ AroundRun(t) \/ RunReturns(t)
      PROVE  FALSE
  BY <1>3, <1>4 DEF SubmitComplexTask, SubmitContinueTask, Submit, AroundRun, RunReturns,
     StartTask, RunFails, RecordFailure, RecordCompletion, ClearCancel, NotifyResultReportReady
<1>5. ASSUME NEW t \in TaskIDs,
             \/ LookUpSource(t) \/ ProbeSession(t) \/ RereadSource(t) \/ SupersedeSource(t)
             \/ GetSession(t) \/ ClaudeStep(t) \/ ProcessExits(t) \/ ProcessKilled(t)
      PROVE  FALSE
  BY <1>3, <1>5 DEF LookUpSource, ProbeSession, RereadSource,
     SupersedeSource, GetSession, MarkTaskSuperseded, ClaudeStep, StartRecord,
     AttachSession, MarkRunning, ExecClaude, InitLine, AssistantLine, ReportLine,
     BadLine, EndOfOutput, ImportEnds, CompleteRecord, ReporterUpdate, ProcessExits,
     ProcessKilled, managerVars
<1>6. ASSUME \/ ResetTasks \/ ResetClaude \/ UNCHANGED continueVars
             \/ \E a \in ArtifactIDs : ImportArtifact(a) \/ ImportRegisters(a)
      PROVE  FALSE
  BY <1>3, <1>6 DEF ResetTasks, ResetClaude, ImportArtifact, ImportRegisters, StageArtifact,
     RegisterArtifact, Reset, continueVars, managerVars
<1> QED BY <1>1, <1>2, <1>4, <1>5, <1>6 DEF ContinueNext, TaskStep, ContinuationStep

\* Only the wipe takes a record or a session away.
LEMMA RecordsGrow ==
  ASSUME ContinueTypeOK, [ContinueNext]_continueVars, ~ResetClaude, NEW t \in TaskIDs
  PROVE  (HasRecord(t) => HasRecord(t)') /\ (HasSession(t) => HasSession(t)')
<1> DEFINE Grows == (HasRecord(t) => HasRecord(t)') /\ (HasSession(t) => HasSession(t)')
<1>0. "running" \in ClaudeStatuses /\ "completed" \in ClaudeStatuses /\ "failed" \in ClaudeStatuses
  BY DEF ClaudeStatuses
<1>1. CASE claude' = claude
  BY <1>1 DEF HasRecord, HasSession
<1>2. ASSUME NEW u \in TaskIDs, SetSession(u) \/ \E st \in ClaudeStatuses : SetStatus(u, st)
      PROVE  Grows
  BY <1>2, WriteTypes
<1>3. ASSUME NEW u \in TaskIDs, StartRecord(u) PROVE Grows
  BY <1>3, StartTypes DEF HasRecord
<1>4. ASSUME NEW u \in TaskIDs, ClaudeStep(u) PROVE Grows
  BY <1>0, <1>1, <1>2, <1>3, <1>4 DEF ClaudeStep, AttachSession, MarkRunning, ExecClaude,
     InitLine, AssistantLine, ReportLine, BadLine, EndOfOutput, ImportEnds, CompleteRecord,
     CompletesRecord
<1>5. ASSUME NEW a \in ArtifactIDs, ImportRegisters(a) PROVE Grows
  BY <1>0, <1>1, <1>2, <1>5, TaskManagerAssumption DEF ImportRegisters
<1>6. ASSUME \/ UserStep \/ ResetTasks \/ UNCHANGED continueVars
             \/ \E a \in ArtifactIDs : ImportArtifact(a)
             \/ \E u \in TaskIDs : \/ AroundRun(u) \/ RunReturns(u) \/ ContinuationStep(u)
                                   \/ ProcessExits(u) \/ ProcessKilled(u)
                                   \/ SubmitComplexTask(u)
                                   \/ \E s \in TaskIDs : SubmitContinueTask(u, s)
      PROVE  claude' = claude
  BY <1>6 DEF UserStep, ResetTasks, ImportArtifact, AroundRun, RunReturns, ProcessExits,
     ProcessKilled, ContinuationStep, LookUpSource, InterruptSource, ProbeSession, RereadSource,
     SupersedeSource, GetSession, SubmitComplexTask, SubmitContinueTask, continueVars
<1> QED BY <1>1, <1>4, <1>5, <1>6 DEF ContinueNext, TaskStep

\* The record of a task keeps up with its run function.
LEMMA RecordStep ==
  ASSUME ContinueTypeOK, RecordMatchesStage, [ContinueNext]_continueVars, ~ResetClaude
  PROVE  RecordMatchesStage'
<1> DEFINE Match(u) ==
      /\ stage[u] \in (ClaudeStages \ {"start"}) \cup {"returned"} => HasRecord(u)
      /\ stage[u] \in {"report", "stream", "import", "complete", "returned"} => HasSession(u)
      /\ stage[u] = "returned" => claude[u].status = "completed"
<1> SUFFICES ASSUME NEW t \in TaskIDs PROVE Match(t)'
  BY DEF RecordMatchesStage
<1> USE DEF ContinueTypeOK, ClaudeStages, At, Goto
<1>0. Match(t)
  BY DEF RecordMatchesStage
<1>1. (HasRecord(t) => HasRecord(t)') /\ (HasSession(t) => HasSession(t)')
  BY RecordsGrow
<1>2. CASE ~OwnStep(t)
  BY <1>0, <1>2, OthersStay DEF HasRecord, HasSession
<1>3. CASE stage'[t] \in ContinuationStages \cup {"start", "failed"}
  BY <1>3 DEF ContinuationStages
<1>4. CASE SubmitComplexTask(t) \/ \E s \in TaskIDs : SubmitContinueTask(t, s)
  <2>1. stage'[t] \in ContinuationStages \cup {"start", "failed"}
    BY <1>4 DEF SubmitComplexTask, SubmitContinueTask, ContinuationStages
  <2> QED BY <1>3, <2>1
<1>5. CASE ContinuationStep(t)
  <2>1. stage'[t] \in ContinuationStages \cup {"start", "failed"}
    BY <1>5 DEF ContinuationStep, LookUpSource, InterruptSource, ProbeSession, RereadSource,
       SupersedeSource, GetSession, AfterGetTask, ContinuationStages
  <2> QED BY <1>3, <2>1
<1>6. CASE ClaudeStep(t)
  <2>1. CASE StartRecord(t)
    <3>1. HasRecord(t)' /\ stage'[t] \in {"mark", "attach"}
      BY <2>1, StartTypes DEF StartRecord
    <3> QED BY <3>1
  <2>2. CASE AttachSession(t) \/ MarkRunning(t) \/ ExecClaude(t)
    <3>1. stage'[t] \in {"mark", "exec", "init", "failed"}
      BY <2>2 DEF AttachSession, MarkRunning, ExecClaude
    <3>2. HasRecord(t)
      BY <1>0, <2>2 DEF AttachSession, MarkRunning, ExecClaude
    <3> QED BY <1>1, <3>1, <3>2
  <2>3. CASE InitLine(t)
    <3>1. stage'[t] = "report" /\ HasRecord(t) /\ SetSession(t)
      BY <1>0, <2>3 DEF InitLine
    <3>2. HasSession(t)'
      BY <3>1, WriteTypes
    <3> QED BY <1>1, <3>1, <3>2
  <2>4. CASE AssistantLine(t) \/ ReportLine(t) \/ BadLine(t) \/ EndOfOutput(t) \/ ImportEnds(t)
    <3>1. \/ stage'[t] = "failed"
          \/ stage'[t] \in {"report", "stream", "import", "complete"} /\ HasRecord(t) /\ HasSession(t)
      BY <1>0, <2>4 DEF AssistantLine, ReportLine, BadLine, EndOfOutput, ImportEnds
    <3> QED BY <1>1, <3>1
  <2>5. CASE CompleteRecord(t)
    <3>1. stage'[t] = "returned" /\ HasRecord(t) /\ HasSession(t) /\ SetStatus(t, "completed")
      BY <1>0, <2>5 DEF CompleteRecord, CompletesRecord
    <3>2. claude'[t].status = "completed"
      BY <3>1, WriteTypes DEF ClaudeStatuses
    <3> QED BY <1>1, <3>1, <3>2
  <2> QED BY <1>6, <2>1, <2>2, <2>3, <2>4, <2>5 DEF ClaudeStep
<1>7. ASSUME NEW a \in ArtifactIDs, Owner[a] = t, ImportRegisters(a) PROVE Match(t)'
  <2>1. \/ stage'[t] = "failed"
        \/ stage' = stage /\ claude' = claude
    BY <1>7 DEF ImportRegisters
  <2> QED BY <1>0, <1>3, <2>1 DEF HasRecord, HasSession
<1> QED BY <1>2, <1>4, <1>5, <1>6, <1>7 DEF OwnStep

LEMMA SourcesStep ==
  ASSUME ContinueInv, SourcesHaveSessions, [ContinueNext]_continueVars, ~ResetClaude,
         ~EarlyContinuation
  PROVE  SourcesHaveSessions'
<1> SUFFICES ASSUME NEW t \in TaskIDs, source'[t] # NoSource
             PROVE  HasSession(source[t])'
  BY DEF SourcesHaveSessions
<1>0. ContinueTypeOK
  BY DEF ContinueInv
<1>1. PICK s \in TaskIDs : source'[t] = s /\ HasSession(s)
  <2>1. CASE source'[t] = source[t]
    BY <1>0, <2>1 DEF SourcesHaveSessions, ContinueTypeOK
  <2> QED BY <2>1, SourceGiven
<1>2. HasSession(s)'
  BY <1>0, <1>1, RecordsGrow
<1> QED BY <1>1, <1>2 DEF HasSession

LEMMA SupersededStep ==
  ASSUME ContinueInv, SupersededIsSource, [ContinueNext]_continueVars, ~ResetClaude,
         "reset" \notin Faults
  PROVE  SupersededIsSource'
<1> SUFFICES ASSUME NEW s \in TaskIDs, mem'.state[s] = "superseded"
             PROVE  \E t \in TaskIDs : source'[t] = s
  BY DEF SupersededIsSource
<1>0. Inv
  BY DEF ContinueInv
<1>1. PICK t \in TaskIDs : source[t] = s
  <2>1. ASSUME NEW u \in TaskIDs, TakeOver(u)
        PROVE  mem.state[s] = "superseded" \/ source[u] = s
    BY <1>0, <2>1, TakeOverMoves
  <2>2. ASSUME PlainStep PROVE mem.state[s] = "superseded"
    BY <1>0, <2>2, StateMoves DEF NoTask
  <2> QED BY <2>1, <2>2, ManagerSteps DEF SupersededIsSource
<1>2. s # NoSource
  BY ContinueAssumption DEF NoSource
<1>3. source'[t] = s
  BY <1>1, <1>2, SourceGiven
<1> QED BY <1>3

LEMMA TakenOverStep ==
  ASSUME ContinueInv, ContinueInv', StoppedIsTakenOver, SourcesHaveSessions,
         [ContinueNext]_continueVars, ~ResetClaude, "reset" \notin Faults
  PROVE  StoppedIsTakenOver'
<1> DEFINE OnItsWay(t, s) == /\ source[t] = s
                             /\ pc[t] = "executing"
                             /\ stage[t] \in {"probe", "reread", "supersede"}
<1> SUFFICES ASSUME NEW s \in TaskIDs, IsActiveTaskState(mem'.state[s]), s \in ctxDone'
             PROVE  \E t \in TaskIDs : OnItsWay(t, s)'
  BY DEF StoppedIsTakenOver
<1>0. Inv /\ TypeOK /\ ContinueTypeOK
  BY DEF ContinueInv, ContinueTypeOK
<1>1. CASE s \notin ctxDone
  <2>1. ~CancelLatest(s)
    <3>1. CancelLatest(s) => mem'.state = [mem.state EXCEPT ![s] = "canceled"]
      BY <1>0, ConcludeFields DEF CancelLatest, UpdateState
    <3>2. mem.state \in [TaskIDs -> TaskStates \cup {NoTask}]
      BY <1>0 DEF TypeOK, Snapshots
    <3> QED BY <3>1, <3>2 DEF IsActiveTaskState
  <2>2. PICK t \in TaskIDs : InterruptSource(t) /\ source[t] = s
    BY <1>0, <1>1, <2>1, StoppedBy
  <2>3. mem' = mem /\ pc' = pc /\ source' = source
    BY <2>2 DEF InterruptSource, InterruptTask, managerVars
  <2>4. stage'[t] = "probe" /\ pc[t] = "executing"
    BY <1>0, <2>2, <2>3 DEF InterruptSource, Found, NoTask, IsActiveTaskState, At, Goto,
       ContinueTypeOK
  <2> QED BY <2>2, <2>3, <2>4
<1>2. CASE s \in ctxDone
  <2>1. IsActiveTaskState(mem.state[s])
    <3>1. ~Submit(s)
      BY <1>0, <1>2 DEF Submit, Inv, RunInv, FreshTasks
    <3> QED BY <3>1, ActiveBefore
  <2>2. PICK t \in TaskIDs : OnItsWay(t, s)
    BY <1>2, <2>1 DEF StoppedIsTakenOver
  <2>3. source'[t] = s
    BY <2>2, SourceGiven, ContinueAssumption DEF NoSource
  <2>4. pc'[t] = "executing"
    BY <1>0, <2>2, RunsToItsEnd
  <2>5. stage'[t] \in {"probe", "reread", "supersede"}
    <3>1. CASE ~OwnStep(t)
      BY <1>0, <2>2, <3>1, OthersStay
    <3>2. ~SubmitComplexTask(t) /\ ~\E u \in TaskIDs : SubmitContinueTask(t, u)
      BY <2>2 DEF SubmitComplexTask, SubmitContinueTask, Submit
    <3>3. ~ClaudeStep(t)
      BY <2>2 DEF ClaudeStep, StartRecord, AttachSession, MarkRunning, ExecClaude, InitLine,
         AssistantLine, ReportLine, BadLine, EndOfOutput, ImportEnds, CompleteRecord, At
    <3>4. ~\E a \in ArtifactIDs : Owner[a] = t /\ ImportRegisters(a)
      BY <2>2 DEF ImportRegisters, RegisterArtifact, ContinueInv, ChainInv, StagedAtImport
    <3>5. ~LookUpSource(t) /\ ~InterruptSource(t) /\ ~GetSession(t)
      BY <2>2 DEF LookUpSource, InterruptSource, GetSession, At
    <3>6. CASE ProbeSession(t)
      <4>1. HasSession(source[t])
        BY <2>2, ContinueAssumption DEF SourcesHaveSessions, NoSource
      <4> QED BY <1>0, <3>6, <4>1 DEF ProbeSession, Goto, ContinueTypeOK
    <3>7. CASE RereadSource(t)
      <4>1. AfterGetTask(source[t], "supersede") = "supersede"
        BY <2>1, <2>2 DEF AfterGetTask, IsActiveTaskState
      <4> QED BY <1>0, <3>7, <4>1 DEF RereadSource, Goto, ContinueTypeOK
    <3>8. ~SupersedeSource(t)
      <4>1. ASSUME MarkTaskSuperseded(s) PROVE FALSE
        <5>1. UpdateTask(s, [mem EXCEPT !.state[s] = "superseded", !.pending = @ \ {s}])
          BY <2>1, <4>1 DEF MarkTaskSuperseded
        <5>2. Found(s)
          BY <4>1 DEF MarkTaskSuperseded
        <5>3. mem' = [mem EXCEPT !.state[s] = "superseded", !.pending = @ \ {s}]
          BY <5>1, <5>2, UpdateTaskCases
        <5>4. mem'.state[s] = "superseded"
          BY <1>0, <5>3 DEF TypeOK, Snapshots
        <5> QED BY <5>4 DEF IsActiveTaskState
      <4>2. Found(s)
        BY <2>1 DEF Found, IsActiveTaskState, NoTask
      <4> QED BY <2>2, <4>1, <4>2 DEF SupersedeSource
    <3> QED BY <3>1, <3>2, <3>3, <3>4, <3>5, <3>6, <3>7, <3>8 DEF OwnStep, ContinuationStep
  <2> QED BY <2>3, <2>4, <2>5
<1> QED BY <1>1, <1>2

LEMMA SessionsStep ==
  ASSUME ContinueInv, ContinueInv', SessionsInv, [ContinueNext]_continueVars,
         "reset" \notin Faults, ~EarlyContinuation
  PROVE  SessionsInv'
<1>1. ~ResetClaude /\ ContinueTypeOK
  BY DEF SessionsInv, ResetClaude, ContinueInv
<1>2. ~wiping'
  <2>1. wiping' = wiping
    BY <1>1 DEF ContinueNext, TaskStep, SubmitComplexTask, SubmitContinueTask, AroundRun,
       RunReturns, ContinuationStep, LookUpSource, InterruptSource, ProbeSession, RereadSource,
       SupersedeSource, GetSession, ClaudeStep, StartRecord, AttachSession, MarkRunning,
       ExecClaude, InitLine, AssistantLine, ReportLine, BadLine, EndOfOutput, ImportEnds,
       CompleteRecord, ImportArtifact, ImportRegisters, ProcessExits, ProcessKilled, UserStep,
       ResetTasks, Reset, continueVars
  <2> QED BY <2>1 DEF SessionsInv
<1> QED BY <1>1, <1>2, RecordStep, SourcesStep, SupersededStep, TakenOverStep
        DEF SessionsInv

LEMMA SessionsInvInit ==
  ASSUME ContinueInit
  PROVE  SessionsInv
<1>1. /\ mem.state = [t \in TaskIDs |-> NoTask] /\ ctxDone = {}
      /\ stage = [t \in TaskIDs |-> "start"] /\ source = [t \in TaskIDs |-> NoSource]
      /\ ~wiping
  BY DEF ContinueInit, Init, EmptySnapshot
<1> QED BY <1>1 DEF SessionsInv, RecordMatchesStage, SourcesHaveSessions,
        SupersededIsSource, StoppedIsTakenOver, ClaudeStages, NoTask

\* While the dashboard does not reset, and a task is continued only when it has a
\* session, the Claude records keep up with the tasks.
THEOREM SessionsInvariance ==
  ASSUME "reset" \notin Faults, ~EarlyContinuation
  PROVE  ContinueSpec => [](ContinueInv /\ ProcInv /\ SessionsInv)
<1>1. ContinueInit => SessionsInv
  BY SessionsInvInit
<1>2. ContinueInv /\ ContinueInv' /\ SessionsInv /\ [ContinueNext]_continueVars => SessionsInv'
  BY SessionsStep
<1> QED BY <1>1, <1>2, ProcInvariance, PTL DEF ContinueSpec

\* A task that was stopped for a continuation is taken over by it, or the
\* continuation is on its way.
THEOREM StoppedTasksAreTakenOver ==
  ASSUME "reset" \notin Faults, ~EarlyContinuation
  PROVE  ContinueSpec => []StoppedIsTakenOver
<1>1. SessionsInv => StoppedIsTakenOver
  BY DEF SessionsInv
<1> QED BY <1>1, SessionsInvariance, PTL

\* A task that completed or was taken over keeps the session that its next
\* continuation resumes.
THEOREM SessionsAreKept ==
  ASSUME "reset" \notin Faults, ~EarlyContinuation
  PROVE  ContinueSpec => []SessionIsKept
<1>1. ASSUME ProcInv, SessionsInv, NEW s \in TaskIDs, mem.state[s] = "completed"
      PROVE  HasSession(s) /\ claude[s].status = "completed"
  BY <1>1 DEF ProcInv, SessionsInv, CompletedHasReturned, RecordMatchesStage
<1>2. ASSUME SessionsInv, NEW s \in TaskIDs, mem.state[s] = "superseded"
      PROVE  HasSession(s)
  <2>1. PICK t \in TaskIDs : source[t] = s
    BY <1>2 DEF SessionsInv, SupersededIsSource
  <2> QED BY <1>2, <2>1, ContinueAssumption DEF SessionsInv, SourcesHaveSessions, NoSource
<1>3. ProcInv /\ SessionsInv => SessionIsKept
  BY <1>1, <1>2 DEF SessionIsKept
<1> QED BY <1>3, SessionsInvariance, PTL

=============================================================================
