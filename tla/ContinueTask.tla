---------------------------- MODULE ContinueTask ----------------------------
(***************************************************************************)
(* Complex tasks and their continuations: what the run functions of the    *)
(* tasks do while TaskManager says "executing".                            *)
(*                                                                         *)
(*   src/internal/plugins/continuetask/plugin.go   runContinuation         *)
(*   src/internal/plugins/complextask/runner.go    Run, Resume, runCommand *)
(*   src/internal/plugins/complextask/state.go     the Claude records      *)
(*   src/internal/dashboard/server.go              handleReset             *)
(*                                                                         *)
(* A root task starts a Claude process.  A continuation, a task of its own *)
(* with a source task, stops the run of its source, has the source marked  *)
(* as superseded, and resumes its Claude session.  Task manager, Claude    *)
(* store and process are three places with no common lock: a stage below   *)
(* is a point of the run function between two calls into one of them.      *)
(***************************************************************************)
EXTENDS TaskManager

CONSTANTS
  EarlyContinuation,  \* may a source be continued before it has a session?
  Users               \* what users do besides: cancel a task, hear a report

\* Stores that fail and restarts are the subject of TaskManager alone.
ASSUME ContinueAssumption ==
  /\ EarlyContinuation \in BOOLEAN
  /\ Users \subseteq {"cancel", "report"}
  /\ "interrupt" \in Faults
  /\ Faults \subseteq {"interrupt", "reset"}
  /\ "no source" \notin TaskIDs

VARIABLES
  source,  \* the task a continuation continues
  stage,   \* the next call of the run function of a task
  claude,  \* Store.state of complextask: status, and whether a session is known
  proc,    \* the Claude process of a task
  wiping   \* the dashboard has reset the tasks, the Claude records come next

continueVars == <<managerVars, source, stage, claude, proc, wiping>>

NoSource == "no source"

ContinuationStages == {"lookup", "interrupt", "probe", "reread", "supersede",
                       "resume"}
ClaudeStages == {"start", "attach", "mark", "exec", "init", "stream", "report",
                 "import", "complete"}
Stages == ContinuationStages \cup ClaudeStages \cup {"returned", "failed"}

ClaudeStatuses == {"accepted", "running", "completed", "failed"}
NoRecord       == [status |-> "none", session |-> FALSE]
Records        == [status : ClaudeStatuses \cup {"none"}, session : BOOLEAN]

ProcStates == {"none", "alive", "exited", "killed"}

HasRecord(t)  == claude[t] # NoRecord
HasSession(t) == claude[t].session

ContinueInit ==
  /\ Init
  /\ source = [t \in TaskIDs |-> NoSource]
  /\ stage = [t \in TaskIDs |-> "start"]
  /\ claude = [t \in TaskIDs |-> NoRecord]
  /\ proc = [t \in TaskIDs |-> "none"]
  /\ wiping = FALSE

At(t, s)   == pc[t] = "executing" /\ stage[t] = s
Goto(t, s) == stage' = [stage EXCEPT ![t] = s]

-----------------------------------------------------------------------------
(* The handlers of complex_task and continue_task: the task is accepted,   *)
(* its run function not yet called.  The source was found by the handler,  *)
(* before Submit; it may have any state, or be wiped, by then.             *)

SubmitComplexTask(t) ==
  /\ Submit(t)
  /\ Goto(t, "start")
  /\ UNCHANGED <<source, claude, proc, wiping>>

SubmitContinueTask(t, s) ==
  /\ pc[s] # "none"
  /\ EarlyContinuation \/ HasSession(s)
  /\ Submit(t)
  /\ source' = [source EXCEPT ![t] = s]
  /\ Goto(t, "lookup")
  /\ UNCHANGED <<claude, proc, wiping>>

-----------------------------------------------------------------------------
(* runContinuation, call by call, for a source s = source[t]. *)

\* Mutant: an active source is resumed without being stopped.
ResumesActive(s, active) ==
  IF mem.state[s] \in {"accepted", "running", "completed"} THEN "resume" ELSE "failed"

\* Where a GetTask leads: on with an active source, straight to the resume of
\* a completed one; a source that is gone, failed, cancelled or taken over by
\* another continuation is an error.
AfterGetTask(s, active) ==
  CASE IsActiveTaskState(mem.state[s]) -> active
    [] mem.state[s] = "completed"      -> "resume"
    [] OTHER                           -> "failed"

LookUpSource(t) ==
  /\ At(t, "lookup")
  /\ Goto(t, AfterGetTask(source[t], "interrupt"))
  /\ UNCHANGED <<managerVars, source, claude, proc, wiping>>

\* InterruptTask does nothing to a task that is no longer active.
InterruptSource(t) ==
  LET s == source[t] IN
  /\ At(t, "interrupt")
  /\ \/ InterruptTask(s)
     \/ ~IsActiveTaskState(mem.state[s]) /\ UNCHANGED managerVars
  /\ Goto(t, IF Found(s) THEN "probe" ELSE "failed")
  /\ UNCHANGED <<source, claude, proc, wiping>>

\* ClaudeRunner.Interrupt stops nothing: it looks for a session to resume.
ProbeSession(t) ==
  /\ At(t, "probe")
  /\ Goto(t, IF HasSession(source[t]) THEN "reread" ELSE "failed")
  /\ UNCHANGED <<managerVars, source, claude, proc, wiping>>

RereadSource(t) ==
  /\ At(t, "reread")
  /\ Goto(t, AfterGetTask(source[t], "supersede"))
  /\ UNCHANGED <<managerVars, source, claude, proc, wiping>>

\* Whether MarkTaskSuperseded has applied is logged and not looked at.
SupersedeSource(t) ==
  LET s == source[t] IN
  /\ At(t, "supersede")
  /\ IF Found(s)
     THEN MarkTaskSuperseded(s) /\ Goto(t, "resume")
     ELSE UNCHANGED managerVars /\ Goto(t, "failed")
  /\ UNCHANGED <<source, claude, proc, wiping>>

\* The first lines of ClaudeRunner.Resume.
GetSession(t) ==
  /\ At(t, "resume")
  /\ Goto(t, IF HasSession(source[t]) THEN "start" ELSE "failed")
  /\ UNCHANGED <<managerVars, source, claude, proc, wiping>>

ContinuationStep(t) ==
  \/ LookUpSource(t)    \/ InterruptSource(t) \/ ProbeSession(t)
  \/ RereadSource(t)    \/ SupersedeSource(t) \/ GetSession(t)

-----------------------------------------------------------------------------
(* ClaudeRunner.Run, and the rest of Resume: the record, then the process. *)
(* Only Start creates a record; a write to one that was wiped is dropped.  *)

\* Mutant: a write after the wipe brings the record back.
MutateAny(t, record) == claude' = [claude EXCEPT ![t] = record]
MutateExisting(t, record) ==
  claude' = IF HasRecord(t) THEN [claude EXCEPT ![t] = record] ELSE claude

SetSession(t) == MutateExisting(t, [claude[t] EXCEPT !.session = TRUE])

\* Mutant: a new status replaces the whole record.
ForgetsSession(t, st) == MutateExisting(t, [status |-> st, session |-> FALSE])
SetStatus(t, st) == MutateExisting(t, [claude[t] EXCEPT !.status = st])

StartRecord(t) ==
  /\ At(t, "start")
  /\ claude' = [claude EXCEPT ![t].status = "accepted"]
  /\ Goto(t, IF source[t] = NoSource THEN "mark" ELSE "attach")
  /\ UNCHANGED <<managerVars, source, proc, wiping>>

AttachSession(t) ==
  /\ At(t, "attach")
  /\ SetSession(t)
  /\ Goto(t, "mark")
  /\ UNCHANGED <<managerVars, source, proc, wiping>>

MarkRunning(t) ==
  /\ At(t, "mark")
  /\ SetStatus(t, "running")
  /\ Goto(t, "exec")
  /\ UNCHANGED <<managerVars, source, proc, wiping>>

\* Mutant: the command is not bound to the context of the task.
StartsAnyway(t) == TRUE
MayExec(t) == t \notin ctxDone

\* command.Start fails when the context is done, or when there is no program.
\* The record keeps the status "running" then.
ExecClaude(t) ==
  /\ At(t, "exec")
  /\ \/ /\ MayExec(t)
        /\ proc' = [proc EXCEPT ![t] = "alive"]
        /\ Goto(t, "init")
     \/ /\ proc' = proc
        /\ Goto(t, "failed")
  /\ UNCHANGED <<managerVars, source, claude, wiping>>

-----------------------------------------------------------------------------
(* The stream parser.  What the process wrote can be read after its end.   *)
(* Claude writes its init line first (external).                           *)

InitLine(t) ==
  /\ At(t, "init")
  /\ SetSession(t)
  /\ Goto(t, "report")
  /\ UNCHANGED <<managerVars, source, proc, wiping>>

\* UpdateSummary changes nothing that is modelled; the reporter is next.
AssistantLine(t) ==
  /\ At(t, "stream")
  /\ Goto(t, "report")
  /\ UNCHANGED <<managerVars, source, claude, proc, wiping>>

\* reporter.Event or reporter.Update: an error when the task was wiped, which
\* ends the run function but not the process.
ReportLine(t) ==
  /\ At(t, "report")
  /\ IF Found(t)
     THEN ReporterUpdate(t) /\ Goto(t, "stream") /\ UNCHANGED claude
     ELSE UNCHANGED managerVars /\ Goto(t, "failed") /\ SetStatus(t, "failed")
  /\ UNCHANGED <<source, proc, wiping>>

\* A line that cannot be decoded, or is too long, or a result with errors: the
\* same end.
BadLine(t) ==
  /\ At(t, "init") \/ At(t, "stream")
  /\ SetStatus(t, "failed")
  /\ Goto(t, "failed")
  /\ UNCHANGED <<managerVars, source, proc, wiping>>

\* The end of the output, and Wait: a process that was killed, that exits with
\* an error or without a result has failed.
EndOfOutput(t) ==
  /\ At(t, "init") \/ At(t, "stream")
  /\ \/ /\ proc[t] \in {"exited", "killed"}
        /\ SetStatus(t, "failed")
        /\ Goto(t, "failed")
     \/ /\ proc[t] = "exited" /\ stage[t] = "stream"
        /\ claude' = claude
        /\ Goto(t, "import")
  /\ UNCHANGED <<managerVars, source, proc, wiping>>

\* importArtifacts: each entry of the manifest is put, in two steps ...
ImportArtifact(a) ==
  /\ At(Owner[a], "import")
  /\ StageArtifact(a)
  /\ UNCHANGED <<source, stage, claude, proc, wiping>>

ImportRegisters(a) ==
  LET t == Owner[a] IN
  /\ RegisterArtifact(a)
  /\ IF AcceptsArtifacts(t)
     THEN UNCHANGED <<stage, claude>>
     ELSE Goto(t, "failed") /\ SetStatus(t, "failed")
  /\ UNCHANGED <<source, proc, wiping>>

\* ... and a manifest that is broken, or names a file it may not, is an error.
ImportEnds(t) ==
  /\ At(t, "import") /\ RunIsBetweenCalls(t)
  /\ \/ Goto(t, "complete") /\ claude' = claude
     \/ Goto(t, "failed") /\ SetStatus(t, "failed")
  /\ UNCHANGED <<managerVars, source, proc, wiping>>

\* Mutant: the record gets the subtype of the result line as its status.
CompletesAsSuccess(t) == SetStatus(t, "success")
\* Mutant: the result is returned without completing the record.
SkipsComplete(t) == claude' = claude
CompletesRecord(t) == SetStatus(t, "completed")

CompleteRecord(t) ==
  /\ At(t, "complete")
  /\ CompletesRecord(t)
  /\ Goto(t, "returned")
  /\ UNCHANGED <<managerVars, source, proc, wiping>>

ClaudeStep(t) ==
  \/ StartRecord(t)  \/ AttachSession(t)  \/ MarkRunning(t)  \/ ExecClaude(t)
  \/ InitLine(t)     \/ AssistantLine(t)  \/ ReportLine(t)   \/ BadLine(t)
  \/ EndOfOutput(t)  \/ ImportEnds(t)     \/ CompleteRecord(t)

-----------------------------------------------------------------------------
(* The process (external), and the watcher exec.CommandContext starts with *)
(* it, which kills it some time after the context is done.                 *)

ProcessExits(t) ==
  /\ proc[t] = "alive"
  /\ proc' = [proc EXCEPT ![t] = "exited"]
  /\ UNCHANGED <<managerVars, source, stage, claude, wiping>>

ProcessKilled(t) ==
  /\ proc[t] = "alive" /\ t \in ctxDone
  /\ proc' = [proc EXCEPT ![t] = "killed"]
  /\ UNCHANGED <<managerVars, source, stage, claude, wiping>>

-----------------------------------------------------------------------------
(* The goroutine of a task around its run function. *)

RunReturns(t) ==
  /\ \/ stage[t] = "failed"   /\ RunFails(t)
     \/ stage[t] = "returned" /\ RecordCompletion(t)
  /\ UNCHANGED <<source, stage, claude, proc, wiping>>

AroundRun(t) ==
  /\ \/ StartTask(t) \/ RecordFailure(t) \/ ClearCancel(t)
     \/ NotifyResultReportReady(t)
  /\ UNCHANGED <<source, stage, claude, proc, wiping>>

\* The voice turns and the report turns.
UserStep ==
  /\ \/ \E t \in TaskIDs : "cancel" \in Users /\ CancelLatest(t)
     \/ \E t \in TaskIDs : CancelNotifies(t)
     \/ /\ "report" \in Users
        /\ \E ids \in SUBSET mem.pending : ids # {} /\ MarkResultReported(ids)
  /\ UNCHANGED <<source, stage, claude, proc, wiping>>

\* handleReset: the tasks first, then, in a section of its own, the records.
ResetTasks ==
  /\ ~wiping
  /\ Reset
  /\ wiping' = TRUE
  /\ UNCHANGED <<source, stage, claude, proc>>

ResetClaude ==
  /\ wiping
  /\ claude' = [t \in TaskIDs |-> NoRecord]
  /\ wiping' = FALSE
  /\ UNCHANGED <<managerVars, source, stage, proc>>

TaskStep(t) ==
  \/ AroundRun(t) \/ RunReturns(t) \/ ContinuationStep(t) \/ ClaudeStep(t)

ContinueNext ==
  \/ \E t \in TaskIDs : SubmitComplexTask(t)
  \/ \E t, s \in TaskIDs : SubmitContinueTask(t, s)
  \/ \E t \in TaskIDs : TaskStep(t) \/ ProcessExits(t) \/ ProcessKilled(t)
  \/ \E a \in ArtifactIDs : ImportArtifact(a) \/ ImportRegisters(a)
  \/ UserStep
  \/ ResetTasks
  \/ ResetClaude

ContinueSpec == ContinueInit /\ [][ContinueNext]_continueVars

\* Goroutines run; a Claude process ends, and says only finitely many things
\* before (strong fairness of the end of its output).
ContinueFairness ==
  \A t \in TaskIDs :
    /\ WF_continueVars(TaskStep(t))
    /\ SF_continueVars(EndOfOutput(t))
    /\ WF_continueVars(ProcessExits(t))

ContinueFairSpec == ContinueSpec /\ ContinueFairness

-----------------------------------------------------------------------------
(* Properties. *)

ContinueTypeOK ==
  /\ TypeOK
  /\ source \in [TaskIDs -> TaskIDs \cup {NoSource}]
  /\ stage \in [TaskIDs -> Stages]
  /\ claude \in [TaskIDs -> Records]
  /\ proc \in [TaskIDs -> ProcStates]
  /\ wiping \in BOOLEAN

\* The continuations of s whose run function has got as far as the Claude side.
Resumed(s) ==
  {t \in TaskIDs : /\ source[t] = s
                   /\ pc[t] = "executing"
                   /\ stage[t] \in ClaudeStages \cup {"returned"}}

\* A source stops before each of its continuations: by the time one of them
\* starts its own run, that of the source has been told to stop, or has left
\* its run function; and a Claude process that the source has left behind, on
\* the same session, is about to be killed.  This says nothing of two
\* continuations of the same source, see OneContinuation.
SourceStopsFirst ==
  \A s \in TaskIDs :
    Resumed(s) # {} =>
      /\ s \in ctxDone \/ pc[s] \notin {"spawned", "executing"}
      /\ proc[s] = "alive" => s \in ctxDone

\* A task that was stopped for a continuation is not left behind as accepted
\* or running: a continuation is on its way to take it over.
StoppedIsTakenOver ==
  \A s \in TaskIDs :
    IsActiveTaskState(mem.state[s]) /\ s \in ctxDone =>
      \E t \in TaskIDs : /\ source[t] = s
                         /\ pc[t] = "executing"
                         /\ stage[t] \in {"probe", "reread", "supersede"}

\* The session of a task that completed or was taken over is there for the
\* continuation, and a completed task has a completed record.
SessionIsKept ==
  \A s \in TaskIDs :
    /\ mem.state[s] \in {"completed", "superseded"} => HasSession(s)
    /\ mem.state[s] = "completed" => claude[s].status = "completed"

\* A Claude process is started only for a task that is running: not for one
\* that was cancelled, taken over or wiped while its records were written.
LaunchesOnlyRunning ==
  [][\A t \in TaskIDs :
       proc[t] = "none" /\ proc'[t] = "alive" => mem.state[t] = "running"]_continueVars

\* TestStoreResetBlocksStaleUpdates, for every order of calls: a Claude record
\* that was wiped does not come back from a run that was under way, only from
\* one that starts its Claude side.
ResetBlocksStaleUpdates ==
  [][\A t \in TaskIDs :
       ~HasRecord(t) /\ HasRecord(t)' => stage[t] = "start"]_continueVars

\* Every task leaves the active states, whoever stops or continues it.
NeverStuck ==
  \A t \in TaskIDs :
    IsActiveTaskState(mem.state[t]) ~> ~IsActiveTaskState(mem.state[t])

\* docs/async-tasks.md, section 6.1: first the old Claude process is stopped,
\* then the session is resumed.
OneProcessPerSession ==
  \A t \in TaskIDs :
    source[t] # NoSource /\ proc[t] = "alive" => proc[source[t]] # "alive"

\* A source has one continuation at a time that may work on its session.  Two
\* may both find it active, or completed; MarkTaskSuperseded answers one of
\* them that nothing was marked, and the answer is not used.
OneContinuation ==
  \A s \in TaskIDs : \A t, u \in Resumed(s) : t = u \/ {t, u} \cap ctxDone # {}

\* manager.go, CompletedTasksForIntent: a task that failed, was cancelled or
\* was superseded by another continuation is not continued.
ResumesOnlyContinuable ==
  [][\A t \in TaskIDs :
       At(t, "supersede") /\ stage'[t] = "resume" =>
         mem.state[source[t]] \in {"accepted", "running", "completed"}]_continueVars

=============================================================================
