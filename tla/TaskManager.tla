----------------------------- MODULE TaskManager -----------------------------
(***************************************************************************)
(* The asynchronous task manager: src/internal/tasks/manager.go with its   *)
(* store (store.go) and its artifact cache (artifact_cache.go).            *)
(*                                                                         *)
(* Manager keeps the whole task state in memory under one mutex and writes *)
(* all of it to MySQL in one transaction at the end of every locked        *)
(* section.  Each accepted task runs in a goroutine of its own, which      *)
(* calls back into the manager; the voice turns and the continuation tasks *)
(* call it from other goroutines.  An action below is one locked section   *)
(* of the code, or one step a goroutine takes between two of them.         *)
(*                                                                         *)
(* Left out: texts, events, timestamps.  Of UpdatedAt only the choice it   *)
(* makes is kept: any active task may be the latest one, because every     *)
(* reporter call of any task can make it so.                               *)
(***************************************************************************)
EXTENDS Naturals, FiniteSets

CONSTANTS
  TaskIDs,      \* the IDs nextID("task") hands out, each once
  ArtifactIDs,  \* the IDs nextID("artifact") hands out
  Owner,        \* the task a generated artifact ID is used for
  Faults        \* the disturbances of a run; {} is an undisturbed one

AllFaults == {"save",       \* a transaction of the store fails
              "disk",       \* the artifact cache cannot be wiped by Reset
              "crash",      \* the process dies and is started again
              "reset",      \* the dashboard resets all runtime data
              "interrupt"}  \* a continuation interrupts its source task

ASSUME TaskManagerAssumption ==
  /\ Owner \in [ArtifactIDs -> TaskIDs]
  /\ Faults \subseteq AllFaults

VARIABLES
  mem,          \* Manager.state: [state, pending, delivery]
  db,           \* the same, as the last committed transaction left it
  pc,           \* where the goroutine of a task is
  ctxDone,      \* the tasks whose context is cancelled
  cancels,      \* the keys of Manager.cancels
  notified,     \* the tasks whose outcome has led to a call of the report hook
  cancelNotify, \* cancelled by a CancelLatest that has yet to call the hook
  staged,       \* artifacts whose file is written, not yet registered
  files,        \* artifacts whose file is in the cache directory
  told          \* what the caller of Submit or CancelLatest was told last

managerVars == <<mem, db, pc, ctxDone, cancels, notified, cancelNotify,
                 staged, files, told>>

-----------------------------------------------------------------------------
(* The states of model.go, and the tests manager.go makes on them. *)

TaskStates == {"accepted", "running", "completed", "failed", "canceled",
               "superseded"}
NoTask     == "none"    \* no such ID in Manager.state.Tasks
Outcomes   == {"completed", "failed", "canceled"}
Final      == Outcomes \cup {"superseded"}

DeliveryStates == {"pending", "delivered", "failed", "no_channel"}
NoArtifact     == "none"

IsActiveTaskState(s) == s \in {"accepted", "running"}

\* Mutant: the guard forgets the tasks that were cancelled.
BlocksOnlySuperseded(s) == s = "superseded"
BlocksFurtherTaskWrites(s) == s \in {"canceled", "superseded"}

\* The goroutine of a task: not started, the places of runTask between two
\* locked sections, and gone.  "clearing" still owes a call of the hook after
\* clearCancel, "clearingQuiet" does not.
PCs  == {"none", "spawned", "executing", "failing", "clearing",
         "clearingQuiet", "notifying", "gone"}
Live == {"spawned", "executing", "failing", "clearing", "clearingQuiet"}

Snapshots == [state    : [TaskIDs -> TaskStates \cup {NoTask}],
              pending  : SUBSET TaskIDs,
              delivery : [ArtifactIDs -> DeliveryStates \cup {NoArtifact}]]

EmptySnapshot == [state    |-> [t \in TaskIDs |-> NoTask],
                  pending  |-> {},
                  delivery |-> [a \in ArtifactIDs |-> NoArtifact]]

Found(t)      == mem.state[t] # NoTask
Registered(a) == mem.delivery[a] # NoArtifact

Init ==
  /\ mem = EmptySnapshot
  /\ db = EmptySnapshot
  /\ pc = [t \in TaskIDs |-> "none"]
  /\ ctxDone = {}
  /\ cancels = {}
  /\ notified = {}
  /\ cancelNotify = {}
  /\ staged = {}
  /\ files = {}
  /\ told = [t \in TaskIDs |-> "nothing"]

-----------------------------------------------------------------------------
(* Writing through.  The memory is changed first and in place, then the    *)
(* whole of it is saved; a save that fails leaves the table rows as they   *)
(* were and does not undo the change in memory.                            *)

SaveOutcomes == IF "save" \in Faults THEN BOOLEAN ELSE {TRUE}

\* Mutant: the rows are written before the mutator has run.
SavedTooEarly(snap, ok) == IF ok THEN mem ELSE db
Saved(snap, ok) == IF ok THEN snap ELSE db

UpdateState(snap, ok) ==
  /\ mem' = snap
  /\ db' = Saved(snap, ok)

\* updateTask of one task: an ID that is not found is an error before Save.
UpdateTask(t, snap) ==
  IF Found(t) THEN \E ok \in SaveOutcomes : UpdateState(snap, ok)
              ELSE UNCHANGED <<mem, db>>

Enter(t, s) == [mem EXCEPT !.state[t] = s]

\* Mutant: the outcome is recorded, the report is not asked for.
ConcludeUnreported(t, s) == [mem EXCEPT !.state[t] = s]
Conclude(t, s) == [mem EXCEPT !.state[t] = s, !.pending = @ \cup {t}]

-----------------------------------------------------------------------------
(* Submit: the task and its event are stored before the goroutine starts.  *)
(* When the save fails the caller gets an error, and the record stays in   *)
(* memory as accepted, with no goroutine behind it.                        *)

Submit(t) ==
  /\ pc[t] = "none"
  /\ \E ok \in SaveOutcomes :
       /\ UpdateState(Enter(t, "accepted"), ok)
       /\ IF ok
          THEN /\ pc' = [pc EXCEPT ![t] = "spawned"]
               /\ cancels' = cancels \cup {t}
               /\ told' = [told EXCEPT ![t] = "accepted"]
          ELSE /\ pc' = [pc EXCEPT ![t] = "gone"]
               /\ UNCHANGED <<cancels, told>>
  /\ UNCHANGED <<ctxDone, notified, cancelNotify, staged, files>>

-----------------------------------------------------------------------------
(* runTask, the goroutine of a task. *)

MayStart(t) == t \notin ctxDone /\ mem.state[t] = "accepted"

\* The first locked section.  A task that is not found (the data was reset)
\* does not set skipRun: its run function is called all the same.
StartTask(t) ==
  /\ pc[t] = "spawned"
  /\ UpdateTask(t, IF MayStart(t) THEN Enter(t, "running") ELSE mem)
  /\ pc' = [pc EXCEPT ![t] = IF Found(t) /\ ~MayStart(t)
                             THEN "clearingQuiet" ELSE "executing"]
  /\ UNCHANGED <<ctxDone, cancels, notified, cancelNotify, staged, files, told>>

\* A call between two artifacts, or the return, of the run function.
RunIsBetweenCalls(t) ==
  /\ pc[t] = "executing"
  /\ \A a \in staged : Owner[a] # t

\* reporter.Update and reporter.Event: what they write is not modelled, that
\* they save the whole state is.
ReporterUpdate(t) ==
  /\ RunIsBetweenCalls(t)
  /\ UpdateTask(t, mem)
  /\ UNCHANGED <<pc, ctxDone, cancels, notified, cancelNotify, staged, files,
                 told>>

\* reporter.PutArtifact writes the file before it takes the lock ...
StageArtifact(a) ==
  /\ RunIsBetweenCalls(Owner[a])
  /\ ~Registered(a)
  /\ staged' = staged \cup {a}
  /\ files' = files \cup {a}
  /\ UNCHANGED <<mem, db, pc, ctxDone, cancels, notified, cancelNotify, told>>

AcceptsArtifacts(t) == mem.state[t] \in {"accepted", "running"}

InitialDelivery == "pending"

\* Mutant: the file is removed whatever happened.
NeverKeepFile(a, ok) == FALSE
KeepFile(a, ok) == AcceptsArtifacts(Owner[a]) /\ ok

\* ... and registers artifact and delivery record in one locked section,
\* unless the task has ended meanwhile.  On any error the file is removed; the
\* two records stay when it was the save that failed.
RegisterArtifact(a) ==
  /\ a \in staged
  /\ staged' = staged \ {a}
  /\ IF Found(Owner[a])
     THEN \E ok \in SaveOutcomes :
            /\ UpdateState(IF AcceptsArtifacts(Owner[a])
                           THEN [mem EXCEPT !.delivery[a] = InitialDelivery]
                           ELSE mem, ok)
            /\ files' = IF KeepFile(a, ok) THEN files ELSE files \ {a}
     ELSE /\ files' = files \ {a}
          /\ UNCHANGED <<mem, db>>
  /\ UNCHANGED <<pc, ctxDone, cancels, notified, cancelNotify, told>>

\* run returned an error: ctx.Err() is read outside the lock.
RunFails(t) ==
  /\ RunIsBetweenCalls(t)
  /\ pc' = [pc EXCEPT ![t] = IF t \in ctxDone THEN "clearingQuiet"
                                              ELSE "failing"]
  /\ UNCHANGED <<mem, db, ctxDone, cancels, notified, cancelNotify, staged,
                 files, told>>

\* The failure is recorded, unless the task was cancelled or taken over since.
RecordFailure(t) ==
  /\ pc[t] = "failing"
  /\ LET ignored == BlocksFurtherTaskWrites(mem.state[t])
     IN  /\ UpdateTask(t, IF ignored THEN mem ELSE Conclude(t, "failed"))
         /\ pc' = [pc EXCEPT ![t] = IF ignored THEN "clearingQuiet"
                                               ELSE "clearing"]
  /\ UNCHANGED <<ctxDone, cancels, notified, cancelNotify, staged, files, told>>

\* run returned a result.  The context is not looked at here: an interrupted
\* run that still returns a result completes its task.
RecordCompletion(t) ==
  /\ RunIsBetweenCalls(t)
  /\ UpdateTask(t, IF BlocksFurtherTaskWrites(mem.state[t])
                   THEN mem ELSE Conclude(t, "completed"))
  /\ pc' = [pc EXCEPT ![t] = "clearing"]
  /\ UNCHANGED <<ctxDone, cancels, notified, cancelNotify, staged, files, told>>

\* Mutant: the goroutine ends without the call of the hook.
GoneAfterClearing(p) == "gone"
AfterClearing(p) == IF p = "clearing" THEN "notifying" ELSE "gone"

ClearCancel(t) ==
  /\ pc[t] \in {"clearing", "clearingQuiet"}
  /\ cancels' = cancels \ {t}
  /\ pc' = [pc EXCEPT ![t] = AfterClearing(pc[t])]
  /\ UNCHANGED <<mem, db, ctxDone, notified, cancelNotify, staged, files, told>>

\* notifyResultReportReady at the end of runTask: go fn().
NotifyResultReportReady(t) ==
  /\ pc[t] = "notifying"
  /\ notified' = notified \cup {t}
  /\ pc' = [pc EXCEPT ![t] = "gone"]
  /\ UNCHANGED <<mem, db, ctxDone, cancels, cancelNotify, staged, files, told>>

-----------------------------------------------------------------------------
(* Calls from other goroutines. *)

\* Cancel the context and forget the cancel function, when there is one.
CancelContext(t) ==
  /\ ctxDone' = IF t \in cancels THEN ctxDone \cup {t} ELSE ctxDone
  /\ cancels' = cancels \ {t}

\* CancelLatest, for t the active task updated last.  Without a commit the
\* caller gets an error and the hook is not called.
CancelLatest(t) ==
  /\ IsActiveTaskState(mem.state[t])
  /\ CancelContext(t)
  /\ \E ok \in SaveOutcomes :
       /\ UpdateState(Conclude(t, "canceled"), ok)
       /\ cancelNotify' = IF ok THEN cancelNotify \cup {t} ELSE cancelNotify
       /\ told' = IF ok THEN [told EXCEPT ![t] = "canceled"] ELSE told
  /\ UNCHANGED <<pc, notified, staged, files>>

\* The call of the hook that CancelLatest makes after it has unlocked.
CancelNotifies(t) ==
  /\ t \in cancelNotify
  /\ cancelNotify' = cancelNotify \ {t}
  /\ notified' = notified \cup {t}
  /\ UNCHANGED <<mem, db, pc, ctxDone, cancels, staged, files, told>>

\* InterruptTask: stop the run of an active task, leave its state alone.
InterruptTask(t) ==
  /\ IsActiveTaskState(mem.state[t])
  /\ CancelContext(t)
  /\ UNCHANGED <<mem, db, pc, notified, cancelNotify, staged, files, told>>

\* MarkTaskSuperseded: a task that is no longer active is left as it is, and
\* the state is saved in either case.
MarkTaskSuperseded(t) ==
  /\ Found(t)
  /\ UpdateTask(t, IF IsActiveTaskState(mem.state[t])
                   THEN [mem EXCEPT !.state[t] = "superseded",
                                    !.pending = @ \ {t}]
                   ELSE mem)
  /\ UNCHANGED <<pc, ctxDone, cancels, notified, cancelNotify, staged, files,
                 told>>

\* MarkResultReported, for tasks ListPendingResultReports has returned.
MarkResultReported(ids) ==
  /\ \E ok \in SaveOutcomes :
       UpdateState([mem EXCEPT !.pending = @ \ ids], ok)
  /\ UNCHANGED <<pc, ctxDone, cancels, notified, cancelNotify, staged, files,
                 told>>

\* The three marks of the artifact delivery records.
MarkArtifactDeliveriesNoChannel(as) ==
  /\ \E ok \in SaveOutcomes :
       UpdateState([mem EXCEPT !.delivery =
                      [a \in ArtifactIDs |->
                         IF /\ a \in as
                            /\ @[a] \notin {NoArtifact, "delivered"}
                         THEN "no_channel" ELSE @[a]]], ok)
  /\ UNCHANGED <<pc, ctxDone, cancels, notified, cancelNotify, staged, files,
                 told>>

MarkArtifactDelivery(a, status) ==
  /\ Registered(a)
  /\ \E ok \in SaveOutcomes : UpdateState([mem EXCEPT !.delivery[a] = status], ok)
  /\ UNCHANGED <<pc, ctxDone, cancels, notified, cancelNotify, staged, files,
                 told>>

MarkArtifactDeliveryDelivered(a) == MarkArtifactDelivery(a, "delivered")
MarkArtifactDeliveryFailed(a)    == MarkArtifactDelivery(a, "failed")

-----------------------------------------------------------------------------
(* Reset cancels every context it knows of and forgets all tasks; their    *)
(* goroutines go on.  It stops halfway when the cache directory or the     *)
(* tables cannot be cleared: the memory is empty then, the rows are not.   *)
(* A process that dies between the two leaves what a table that cannot be  *)
(* cleared does, followed by Restart.                                      *)

\* Mutant: the table of cancel functions is replaced, none of them called.
ForgetContexts == ctxDone
CancelAllContexts == ctxDone \cup cancels

DiskOutcomes == IF "disk" \in Faults THEN BOOLEAN ELSE {TRUE}

Reset ==
  /\ "reset" \in Faults
  /\ ctxDone' = CancelAllContexts
  /\ cancels' = {}
  /\ mem' = EmptySnapshot
  /\ \E wiped \in DiskOutcomes, ok \in SaveOutcomes :
       /\ files' \in IF wiped THEN {{}} ELSE SUBSET files
       /\ db' = IF wiped /\ ok THEN EmptySnapshot ELSE db
  /\ told' = [t \in TaskIDs |-> "nothing"]
  /\ UNCHANGED <<pc, notified, cancelNotify, staged>>

\* The process dies, at any point, and NewManager loads the tables.  No
\* goroutine is started for what it loads.
Restart ==
  /\ "crash" \in Faults
  /\ mem' = db
  /\ pc' = [t \in TaskIDs |-> IF pc[t] = "none" THEN "none" ELSE "gone"]
  /\ ctxDone' = {}
  /\ cancels' = {}
  /\ notified' = {}
  /\ cancelNotify' = {}
  /\ staged' = {}
  /\ UNCHANGED <<db, files, told>>

-----------------------------------------------------------------------------
(* The steps of the goroutines of the tasks, and of their environment: the *)
(* voice turns, the report turns and the dashboard.                        *)

GoroutineStep(t) ==
  \/ StartTask(t)
  \/ RunFails(t)
  \/ RecordFailure(t)
  \/ RecordCompletion(t)
  \/ ClearCancel(t)
  \/ NotifyResultReportReady(t)

ReporterStep ==
  \/ \E t \in TaskIDs : ReporterUpdate(t)
  \/ \E a \in ArtifactIDs : StageArtifact(a)
  \/ \E a \in ArtifactIDs : RegisterArtifact(a)

\* Only a continuation task interrupts another one or takes it over.
TakeOverStep ==
  /\ "interrupt" \in Faults
  /\ \E t \in TaskIDs : InterruptTask(t) \/ MarkTaskSuperseded(t)

\* The report turn marks what it has read before: tasks with a pending report
\* and artifacts that are not delivered.
ReportStep ==
  \/ \E ids \in SUBSET mem.pending : ids # {} /\ MarkResultReported(ids)
  \/ \E as \in SUBSET ArtifactIDs :
       as # {} /\ MarkArtifactDeliveriesNoChannel(as)
  \/ \E a \in ArtifactIDs :
       /\ mem.delivery[a] # "delivered"
       /\ MarkArtifactDeliveryDelivered(a) \/ MarkArtifactDeliveryFailed(a)

Next ==
  \/ \E t \in TaskIDs : Submit(t) \/ CancelLatest(t) \/ CancelNotifies(t)
  \/ \E t \in TaskIDs : GoroutineStep(t)
  \/ ReporterStep
  \/ TakeOverStep
  \/ ReportStep
  \/ Reset
  \/ Restart

Spec == Init /\ [][Next]_managerVars

-----------------------------------------------------------------------------
(* Properties. *)

\* The type of every variable: a delivery record has one of the statuses of
\* model.go from the moment it exists, a goroutine is at one of its places.
TypeOK ==
  /\ mem \in Snapshots
  /\ db \in Snapshots
  /\ pc \in [TaskIDs -> PCs]
  /\ ctxDone \subseteq TaskIDs
  /\ cancels \subseteq TaskIDs
  /\ notified \subseteq TaskIDs
  /\ cancelNotify \subseteq TaskIDs
  /\ staged \subseteq ArtifactIDs
  /\ files \subseteq ArtifactIDs
  /\ told \in [TaskIDs -> {"nothing", "accepted", "canceled"}]

\* A report is pending only for a task that has an outcome to report: not for
\* one that runs, not for one that was taken over (ListPendingResultReports
\* would skip it for ever), in memory and in what a restart loads.
PendingHasOutcome ==
  \A snap \in {mem, db} :
    \A t \in snap.pending : snap.state[t] \in Outcomes

\* What is committed is never ahead of the memory and never contradicts it: a
\* task that ended in the tables ended the same way in memory, or was wiped
\* by a reset, and a report marked as done in the tables is done in memory.
DatabaseLagsMemory ==
  \A t \in TaskIDs :
    db.state[t] \in Final /\ Found(t) =>
      /\ mem.state[t] = db.state[t]
      /\ t \in mem.pending => t \in db.pending

\* What the user was told survives a restart and every later failure to save:
\* an accepted task is in the tables, a cancelled one is cancelled there.
ToldIsDurable ==
  \A t \in TaskIDs :
    /\ told[t] = "accepted" => db.state[t] # NoTask
    /\ told[t] = "canceled" => db.state[t] = "canceled"

\* The table of cancel functions holds exactly the tasks whose goroutine has
\* not reached the end of clearCancel and whose context is not cancelled: no
\* run is out of reach of CancelLatest, InterruptTask and Reset, and no entry
\* outlives its goroutine.
CancelTableExact ==
  \A t \in TaskIDs :
    t \in cancels <=> pc[t] \in Live /\ t \notin ctxDone

\* The outcome of a task is final: no completion after a cancellation, none of
\* a task that was taken over, no second report of one that was reported.
\* (A restart may go back to what was saved before.)
OutcomeIsFinal ==
  [][\/ Restart
     \/ \A t \in TaskIDs :
          mem.state[t] \in Final =>
            /\ mem'.state[t] \in {mem.state[t], NoTask}
            /\ t \in mem'.pending => t \in mem.pending]_managerVars

\* docs/async-tasks.md, section 5: a task that has ended takes no new
\* artifact, even one whose file was written while it still ran.
NoLateArtifacts ==
  [][\/ Restart
     \/ \A a \in ArtifactIDs :
          ~Registered(a) /\ Registered(a)' =>
            mem.state[Owner[a]] \notin Final]_managerVars

\* While saves succeed, an artifact the manager lists can be opened: its file
\* is in the cache directory, whatever resets and cancellations came between
\* the writing of the file and the registration.
ArtifactsHaveFiles == \A a \in ArtifactIDs : Registered(a) => a \in files

\* While saves succeed and the process lives, each outcome that waits to be
\* reported has led to a call of the report hook, or will: the goroutine of
\* the task or the caller of CancelLatest still owes it.
PendingIsAnnounced ==
  \A t \in mem.pending :
    \/ t \in notified \cup cancelNotify
    \/ pc[t] \in {"clearing", "notifying"}

\* Every step of the manager is a step of the life of a task, or none: what
\* TaskLifecycle promises holds of the code with all its goroutines.
Lifecycle == INSTANCE TaskLifecycle
  WITH life  <- mem.state,
       owed  <- mem.pending,
       saved <- [life |-> db.state, owed |-> db.pending]

ImplementsLifecycle == Lifecycle!Spec

=============================================================================
