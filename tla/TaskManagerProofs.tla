-------------------------- MODULE TaskManagerProofs --------------------------
(***************************************************************************)
(* Theorems about TaskManager, for any set of tasks and artifacts and any  *)
(* set of faults.                                                          *)
(*                                                                         *)
(* The safety properties are not inductive one by one: that a completion   *)
(* does not follow a completion needs to know which states a task can be   *)
(* in while its goroutine runs, and that needs to know that a task without *)
(* a goroutine was never stored.  Inv adds those facts to the properties.  *)
(***************************************************************************)
EXTENDS TaskManager, TLAPS

USE TaskManagerAssumption

-----------------------------------------------------------------------------
(* The inductive invariant. *)

\* An ID that was not handed out yet has left no trace anywhere.
FreshTasks ==
  \A t \in TaskIDs :
    pc[t] = "none" => /\ mem.state[t] = NoTask
                      /\ db.state[t] = NoTask
                      /\ told[t] = "nothing"
                      /\ t \notin ctxDone

\* The states a task can be in while its goroutine is between the locked
\* sections of runTask: no other goroutine completes or fails it.
RunMatchesState ==
  \A t \in TaskIDs :
    /\ pc[t] = "spawned" =>
         mem.state[t] \in {NoTask, "accepted", "canceled", "superseded"}
    /\ pc[t] \in {"executing", "failing"} =>
         mem.state[t] \in {NoTask, "running", "canceled", "superseded"}

\* What the user was told holds in memory too, so that saving keeps it.
ToldIsRemembered ==
  \A t \in TaskIDs :
    /\ told[t] = "accepted" => Found(t)
    /\ told[t] = "canceled" => mem.state[t] = "canceled"

\* The parts that say something of mem, db and told only ...
DataInv == /\ PendingHasOutcome
           /\ DatabaseLagsMemory
           /\ ToldIsDurable
           /\ ToldIsRemembered

\* ... and those that involve the goroutines.
RunInv == /\ CancelTableExact
          /\ FreshTasks
          /\ RunMatchesState

Inv == TypeOK /\ DataInv /\ RunInv

-----------------------------------------------------------------------------
(* Types. *)

\* updateState leaves the memory at the given snapshot, and the rows there too
\* or as they were.
LEMMA SaveTypes ==
  ASSUME TypeOK, NEW snap \in Snapshots, NEW ok \in BOOLEAN,
         UpdateState(snap, ok)
  PROVE  /\ mem' = snap
         /\ mem' \in Snapshots
         /\ db' \in Snapshots
         /\ db' \in {db, mem'}
  BY DEF TypeOK, UpdateState, Saved

\* Entering a state, with or without a pending report, gives a snapshot.
LEMMA EnterTypes ==
  ASSUME TypeOK, NEW t \in TaskIDs, NEW s \in TaskStates
  PROVE  Enter(t, s) \in Snapshots /\ Conclude(t, s) \in Snapshots
  BY DEF TypeOK, Snapshots, Enter, Conclude

\* Every step of the manager preserves the types.
LEMMA TypeStep ==
  ASSUME TypeOK, [Next]_managerVars
  PROVE  TypeOK'
<1> USE DEF TypeOK
<1>0. SaveOutcomes \subseteq BOOLEAN /\ DiskOutcomes \subseteq BOOLEAN
  BY DEF SaveOutcomes, DiskOutcomes
<1>1. ASSUME NEW t \in TaskIDs, Submit(t) PROVE TypeOK'
  BY <1>0, <1>1, SaveTypes, EnterTypes DEF Submit, TaskStates, PCs
<1>2. ASSUME NEW t \in TaskIDs, CancelLatest(t) PROVE TypeOK'
  BY <1>0, <1>2, SaveTypes, EnterTypes DEF CancelLatest, CancelContext, TaskStates
<1>3. ASSUME NEW t \in TaskIDs, GoroutineStep(t) PROVE TypeOK'
  BY <1>0, <1>3, SaveTypes, EnterTypes
  DEF GoroutineStep, StartTask, RunFails, RecordFailure, RecordCompletion,
      ClearCancel, NotifyResultReportReady, UpdateTask, TaskStates, PCs,
      AfterClearing
<1>4. ASSUME NEW t \in TaskIDs, CancelNotifies(t) PROVE TypeOK'
  BY <1>4 DEF CancelNotifies
<1>5. ASSUME ReporterStep PROVE TypeOK'
  <2>1. ASSUME NEW t \in TaskIDs, ReporterUpdate(t) PROVE TypeOK'
    BY <1>0, <2>1, SaveTypes DEF ReporterUpdate, UpdateTask
  <2>2. ASSUME NEW a \in ArtifactIDs, StageArtifact(a) PROVE TypeOK'
    BY <2>2 DEF StageArtifact
  <2>3. ASSUME NEW a \in ArtifactIDs, RegisterArtifact(a) PROVE TypeOK'
    <3>1. [mem EXCEPT !.delivery[a] = InitialDelivery] \in Snapshots
      BY DEF Snapshots, InitialDelivery, DeliveryStates
    <3> QED BY <1>0, <2>3, <3>1, SaveTypes DEF RegisterArtifact
  <2> QED BY <1>5, <2>1, <2>2, <2>3 DEF ReporterStep
<1>6. ASSUME TakeOverStep PROVE TypeOK'
  <2>1. ASSUME NEW t \in TaskIDs, InterruptTask(t) PROVE TypeOK'
    BY <2>1 DEF InterruptTask, CancelContext
  <2>2. ASSUME NEW t \in TaskIDs, MarkTaskSuperseded(t) PROVE TypeOK'
    <3>1. [mem EXCEPT !.state[t] = "superseded", !.pending = @ \ {t}] \in Snapshots
      BY DEF Snapshots, TaskStates
    <3> QED BY <1>0, <2>2, <3>1, SaveTypes DEF MarkTaskSuperseded, UpdateTask
  <2> QED BY <1>6, <2>1, <2>2 DEF TakeOverStep
<1>7. ASSUME ReportStep PROVE TypeOK'
  <2>1. ASSUME NEW ids \in SUBSET mem.pending, MarkResultReported(ids) PROVE TypeOK'
    <3>1. [mem EXCEPT !.pending = @ \ ids] \in Snapshots
      BY DEF Snapshots
    <3> QED BY <1>0, <2>1, <3>1, SaveTypes DEF MarkResultReported
  <2>2. ASSUME NEW as \in SUBSET ArtifactIDs, MarkArtifactDeliveriesNoChannel(as)
        PROVE TypeOK'
    <3> DEFINE snap == [mem EXCEPT !.delivery =
                      [a \in ArtifactIDs |->
                         IF a \in as /\ @[a] \notin {NoArtifact, "delivered"}
                         THEN "no_channel" ELSE @[a]]]
    <3>1. snap \in Snapshots
      BY DEF Snapshots, DeliveryStates
    <3> QED BY <1>0, <2>2, <3>1, SaveTypes DEF MarkArtifactDeliveriesNoChannel
  <2>3. ASSUME NEW a \in ArtifactIDs, NEW status \in DeliveryStates,
               MarkArtifactDelivery(a, status)
        PROVE  TypeOK'
    <3>1. [mem EXCEPT !.delivery[a] = status] \in Snapshots
      BY DEF Snapshots
    <3> QED BY <1>0, <2>3, <3>1, SaveTypes DEF MarkArtifactDelivery
  <2> QED BY <1>7, <2>1, <2>2, <2>3
          DEF ReportStep, MarkArtifactDeliveryDelivered, MarkArtifactDeliveryFailed,
              DeliveryStates
<1>8. EmptySnapshot \in Snapshots
  BY DEF EmptySnapshot, Snapshots
<1>9. ASSUME Reset PROVE TypeOK'
  BY <1>8, <1>9 DEF Reset, CancelAllContexts
<1>10. ASSUME Restart PROVE TypeOK'
  BY <1>10 DEF Restart, PCs
<1>11. ASSUME UNCHANGED managerVars PROVE TypeOK'
  BY <1>11 DEF managerVars
<1> QED
  BY <1>1, <1>2, <1>3, <1>4, <1>5, <1>6, <1>7, <1>9, <1>10, <1>11 DEF Next

-----------------------------------------------------------------------------
(* What the locked sections do to mem, db and told. *)

\* updateTask changes nothing when the task is not found; when it is, the new
\* snapshot is in memory, and in the rows or not.
LEMMA UpdateTaskCases ==
  ASSUME NEW t \in TaskIDs, NEW snap, UpdateTask(t, snap)
  PROVE  \/ ~Found(t) /\ mem' = mem /\ db' = db
         \/ Found(t) /\ mem' = snap /\ db' \in {db, snap}
  BY DEF UpdateTask, UpdateState, Saved

\* Saving the memory as it is breaks nothing.
LEMMA SaveUnchanged ==
  ASSUME TypeOK, DataInv, mem' = mem, db' \in {db, mem}, told' = told
  PROVE  DataInv'
  BY DEF TypeOK, Snapshots, DataInv, PendingHasOutcome, DatabaseLagsMemory,
         ToldIsDurable, ToldIsRemembered, Found

\* The fields of a concluded snapshot.
LEMMA ConcludeFields ==
  ASSUME TypeOK, NEW t \in TaskIDs, NEW s
  PROVE  /\ Conclude(t, s).state = [mem.state EXCEPT ![t] = s]
         /\ Conclude(t, s).pending = mem.pending \cup {t}
  BY DEF TypeOK, Snapshots, Conclude

\* A task that is active, and of which nobody was told that it is cancelled,
\* may enter any other state, with a pending report when that is an outcome.
LEMMA LeaveActive ==
  ASSUME TypeOK, DataInv, NEW t \in TaskIDs, NEW s \in TaskStates,
         mem.state[t] \in {"accepted", "running"},
         mem'.state = [mem.state EXCEPT ![t] = s],
         \/ s \in Outcomes /\ mem'.pending = mem.pending \cup {t}
         \/ s \notin Outcomes /\ mem'.pending = mem.pending \ {t},
         db' \in {db, mem'},
         told' = told
  PROVE  DataInv'
  BY DEF TypeOK, Snapshots, DataInv, PendingHasOutcome, DatabaseLagsMemory,
         ToldIsDurable, ToldIsRemembered, Found, NoTask, TaskStates, Final,
         Outcomes

\* The goroutine of a task records its outcome, unless the task was cancelled,
\* taken over or wiped: then it saves the memory as it is, or nothing.
LEMMA GoroutineRecords ==
  ASSUME Inv, NEW t \in TaskIDs, NEW s \in {"completed", "failed"},
         pc[t] \in {"executing", "failing"},
         UpdateTask(t, IF BlocksFurtherTaskWrites(mem.state[t])
                       THEN mem ELSE Conclude(t, s)),
         told' = told
  PROVE  /\ DataInv'
         /\ db' \in {db, mem'}
         /\ \/ mem' = mem
            \/ /\ mem.state[t] = "running"
               /\ mem'.state = [mem.state EXCEPT ![t] = s]
               /\ mem'.pending = mem.pending \cup {t}
<1>1. CASE mem' = mem /\ db' \in {db, mem}
  BY <1>1, SaveUnchanged DEF Inv
<1>2. CASE /\ Found(t)
           /\ ~BlocksFurtherTaskWrites(mem.state[t])
           /\ mem' = Conclude(t, s)
           /\ db' \in {db, mem'}
  <2>1. mem.state[t] = "running"
    BY <1>2 DEF Inv, RunInv, RunMatchesState, BlocksFurtherTaskWrites, Found
  <2>2. /\ mem'.state = [mem.state EXCEPT ![t] = s]
        /\ mem'.pending = mem.pending \cup {t}
    BY <1>2, ConcludeFields DEF Inv
  <2> QED
    BY <1>2, <2>1, <2>2, LeaveActive DEF Inv, TaskStates, Outcomes
<1> QED
  BY <1>1, <1>2, UpdateTaskCases

-----------------------------------------------------------------------------
(* The invariant is inductive. *)

\* Nothing is accepted, pending or committed at first.
LEMMA InvInit ==
  ASSUME Init
  PROVE  Inv
  BY DEF Init, Inv, TypeOK, DataInv, RunInv, Snapshots, EmptySnapshot, PCs, Live,
         PendingHasOutcome, DatabaseLagsMemory, ToldIsDurable, ToldIsRemembered,
         CancelTableExact, FreshTasks, RunMatchesState, Found, NoTask, Final,
         Outcomes

\* Every step of the manager, a fault or not, preserves it.
LEMMA InvStep ==
  ASSUME Inv, [Next]_managerVars
  PROVE  Inv'
<1>0. TypeOK /\ TypeOK'
  BY TypeStep DEF Inv
<1> USE DEF Inv, RunInv, CancelTableExact, FreshTasks, RunMatchesState, Live, NoTask
<1>1. ASSUME NEW t \in TaskIDs, Submit(t) PROVE Inv'
  <2>1. PICK ok \in SaveOutcomes : UpdateState(Enter(t, "accepted"), ok)
    BY <1>1 DEF Submit
  <2>2. /\ mem'.state = [mem.state EXCEPT ![t] = "accepted"]
        /\ mem'.pending = mem.pending
        /\ db' = IF ok THEN mem' ELSE db
    BY <1>0, <2>1 DEF UpdateState, Saved, Enter, TypeOK, Snapshots
  <2>3. DataInv'
    <3>1. mem.state[t] = NoTask /\ db.state[t] = NoTask /\ told[t] = "nothing"
      BY <1>1 DEF Submit
    <3>2. \/ told' = told
          \/ told' = [told EXCEPT ![t] = "accepted"] /\ db' = mem'
      BY <1>1, <2>2 DEF Submit, UpdateState, Saved
    <3> QED
      BY <1>0, <2>2, <3>1, <3>2
      DEF DataInv, TypeOK, Snapshots, PendingHasOutcome, DatabaseLagsMemory,
          ToldIsDurable, ToldIsRemembered, Found, Final, Outcomes
  <2>4. RunInv'
    BY <1>0, <1>1, <2>2 DEF Submit, TypeOK, Snapshots
  <2> QED
    BY <1>0, <2>3, <2>4
<1>2. ASSUME NEW t \in TaskIDs, CancelLatest(t) PROVE Inv'
  BY <1>0, <1>2
  DEF CancelLatest, CancelContext, IsActiveTaskState, UpdateState, Saved,
      Conclude, TypeOK, Snapshots, DataInv, PendingHasOutcome,
      DatabaseLagsMemory, ToldIsDurable, ToldIsRemembered, Found, Final,
      Outcomes
<1>3. ASSUME NEW t \in TaskIDs, StartTask(t) PROVE Inv'
  <2>1. /\ DataInv'
        /\ db' \in {db, mem'}
        /\ \/ mem' = mem
           \/ MayStart(t) /\ mem'.state = [mem.state EXCEPT ![t] = "running"]
        /\ mem' = mem => ~Found(t) \/ ~MayStart(t)
    <3>1. CASE mem' = mem /\ db' \in {db, mem} /\ (~Found(t) \/ ~MayStart(t))
      BY <1>0, <1>3, <3>1, SaveUnchanged DEF StartTask
    <3>2. CASE MayStart(t) /\ mem' = Enter(t, "running") /\ db' \in {db, mem'}
      <4>1. mem'.state = [mem.state EXCEPT ![t] = "running"] /\ mem'.pending = mem.pending
        BY <1>0, <3>2 DEF Enter, TypeOK, Snapshots
      <4>2. mem.state[t] = "accepted" /\ t \notin mem.pending
        BY <3>2 DEF MayStart, DataInv, PendingHasOutcome, Outcomes
      <4>3. mem' # mem
        BY <1>0, <4>1, <4>2 DEF TypeOK, Snapshots
      <4>4. told' = told /\ mem'.pending = mem.pending \ {t}
        BY <1>3, <4>1, <4>2 DEF StartTask
      <4>5. "running" \in TaskStates /\ "running" \notin Outcomes
        BY DEF TaskStates, Outcomes
      <4>6. DataInv'
        BY <1>0, <3>2, <4>1, <4>2, <4>4, <4>5, LeaveActive
      <4> QED
        BY <3>2, <4>1, <4>3, <4>6
    <3> QED
      BY <1>3, <3>1, <3>2, UpdateTaskCases DEF StartTask
  <2>2. /\ pc[t] = "spawned"
        /\ pc' = [pc EXCEPT ![t] = IF Found(t) /\ ~MayStart(t)
                                   THEN "clearingQuiet" ELSE "executing"]
        /\ UNCHANGED <<ctxDone, cancels, told>>
    BY <1>3 DEF StartTask
  <2>3. RunInv'
    BY <1>0, <2>1, <2>2 DEF TypeOK, Snapshots, Found, MayStart
  <2> QED
    BY <1>0, <2>1, <2>3
<1>4. ASSUME NEW t \in TaskIDs, RunFails(t) PROVE Inv'
  BY <1>0, <1>4, SaveUnchanged DEF RunFails, RunIsBetweenCalls, TypeOK
<1>5. ASSUME NEW t \in TaskIDs, NEW s \in {"completed", "failed"},
             pc[t] \in {"executing", "failing"},
             pc'[t] \in {"clearing", "clearingQuiet"},
             pc' = [pc EXCEPT ![t] = pc'[t]],
             UpdateTask(t, IF BlocksFurtherTaskWrites(mem.state[t])
                           THEN mem ELSE Conclude(t, s)),
             UNCHANGED <<ctxDone, cancels, told>>
      PROVE  Inv'
  <2>1. /\ DataInv'
        /\ db' \in {db, mem'}
        /\ mem' = mem \/ mem'.state = [mem.state EXCEPT ![t] = s]
    BY <1>5, GoroutineRecords
  <2>2. RunInv'
    <3> HIDE DEF Inv
    <3> QED BY <1>0, <1>5, <2>1 DEF Inv, TypeOK, Snapshots
  <2> QED
    BY <1>0, <2>1, <2>2
<1>6. ASSUME NEW t \in TaskIDs, RecordFailure(t) PROVE Inv'
  BY <1>0, <1>5, <1>6 DEF RecordFailure, TypeOK
<1>7. ASSUME NEW t \in TaskIDs, RecordCompletion(t) PROVE Inv'
  BY <1>0, <1>5, <1>7 DEF RecordCompletion, RunIsBetweenCalls, TypeOK
<1>8. ASSUME NEW t \in TaskIDs, ClearCancel(t) PROVE Inv'
  BY <1>0, <1>8, SaveUnchanged DEF ClearCancel, AfterClearing, TypeOK
<1>9. ASSUME NEW t \in TaskIDs, NotifyResultReportReady(t) PROVE Inv'
  BY <1>0, <1>9, SaveUnchanged DEF NotifyResultReportReady, TypeOK
<1>10. ASSUME NEW t \in TaskIDs, CancelNotifies(t) PROVE Inv'
  BY <1>0, <1>10, SaveUnchanged DEF CancelNotifies, TypeOK
<1>11. ASSUME mem'.state = mem.state, mem'.pending \subseteq mem.pending,
              db' \in {db, mem'}, UNCHANGED <<pc, ctxDone, cancels, told>>
       PROVE  Inv'
  <2>1. DataInv'
    BY <1>0, <1>11
    DEF DataInv, TypeOK, Snapshots, PendingHasOutcome, DatabaseLagsMemory,
        ToldIsDurable, ToldIsRemembered, Found
  <2>2. RunInv'
    BY <1>0, <1>11
  <2> QED
    BY <1>0, <2>1, <2>2
<1>12. ASSUME ReporterStep PROVE Inv'
  BY <1>0, <1>11, <1>12
  DEF ReporterStep, ReporterUpdate, StageArtifact, RegisterArtifact, UpdateTask,
      UpdateState, Saved, TypeOK, Snapshots
<1>13. ASSUME NEW t \in TaskIDs, InterruptTask(t) PROVE Inv'
  BY <1>0, <1>13, SaveUnchanged DEF InterruptTask, CancelContext, TypeOK
<1>14. ASSUME NEW t \in TaskIDs, MarkTaskSuperseded(t) PROVE Inv'
  <2>1. UNCHANGED <<pc, ctxDone, cancels, told>>
    BY <1>14 DEF MarkTaskSuperseded
  <2>2. CASE mem' = mem /\ db' \in {db, mem}
    BY <1>11, <2>1, <2>2
  <2>3. CASE /\ IsActiveTaskState(mem.state[t])
             /\ mem' = [mem EXCEPT !.state[t] = "superseded", !.pending = @ \ {t}]
             /\ db' \in {db, mem'}
    <3>1. /\ mem'.state = [mem.state EXCEPT ![t] = "superseded"]
          /\ mem'.pending = mem.pending \ {t}
          /\ mem.state[t] \in {"accepted", "running"}
          /\ db' \in {db, mem'}
      BY <1>0, <2>3 DEF TypeOK, Snapshots, IsActiveTaskState
    <3>2. DataInv'
      BY <1>0, <2>1, <3>1, LeaveActive DEF TaskStates, Outcomes
    <3>3. RunInv'
      BY <1>0, <2>1, <3>1 DEF TypeOK, Snapshots
    <3> QED
      BY <1>0, <3>2, <3>3
  <2> QED
    BY <1>14, <2>2, <2>3, UpdateTaskCases DEF MarkTaskSuperseded
<1>15. ASSUME ReportStep PROVE Inv'
  <2>1. ASSUME NEW ids \in SUBSET mem.pending, MarkResultReported(ids) PROVE Inv'
    BY <1>0, <1>11, <2>1
    DEF MarkResultReported, UpdateState, Saved, TypeOK, Snapshots
  <2>2. ASSUME NEW as \in SUBSET ArtifactIDs, MarkArtifactDeliveriesNoChannel(as)
        PROVE  Inv'
    BY <1>0, <1>11, <2>2
    DEF MarkArtifactDeliveriesNoChannel, UpdateState, Saved, TypeOK, Snapshots
  <2>3. ASSUME NEW a \in ArtifactIDs, NEW status, MarkArtifactDelivery(a, status)
        PROVE  Inv'
    BY <1>0, <1>11, <2>3
    DEF MarkArtifactDelivery, UpdateState, Saved, TypeOK, Snapshots
  <2> QED
    BY <1>15, <2>1, <2>2, <2>3
    DEF ReportStep, MarkArtifactDeliveryDelivered, MarkArtifactDeliveryFailed
<1>16. ASSUME Reset PROVE Inv'
  BY <1>0, <1>16
  DEF Reset, CancelAllContexts, EmptySnapshot, DataInv, TypeOK, Snapshots,
      PendingHasOutcome, DatabaseLagsMemory, ToldIsDurable, ToldIsRemembered,
      Found
<1>17. ASSUME Restart PROVE Inv'
  BY <1>0, <1>17
  DEF Restart, DataInv, TypeOK, Snapshots, PendingHasOutcome,
      DatabaseLagsMemory, ToldIsDurable, ToldIsRemembered, Found
<1>18. ASSUME UNCHANGED managerVars PROVE Inv'
  BY <1>11, <1>18 DEF managerVars
<1> QED
  BY <1>1, <1>2, <1>3, <1>4, <1>6, <1>7, <1>8, <1>9, <1>10, <1>12, <1>13, <1>14,
     <1>15, <1>16, <1>17, <1>18
  DEF Next, GoroutineStep, TakeOverStep

-----------------------------------------------------------------------------
(* What every reachable state satisfies. *)

\* The inductive invariant holds of every reachable state.
THEOREM Invariance == Spec => []Inv
<1>1. Init => Inv
  BY InvInit
<1>2. Inv /\ [Next]_managerVars => Inv'
  BY InvStep
<1> QED
  BY <1>1, <1>2, PTL DEF Spec

\* The types of model.go and of the goroutines' places.
THEOREM TypeCorrect == Spec => []TypeOK
<1>1. Inv => TypeOK
  BY DEF Inv
<1> QED
  BY <1>1, Invariance, PTL

\* A pending report belongs to a task with an outcome, in memory and in what
\* a restart loads, whatever fails.
THEOREM PendingReportsAreReportable == Spec => []PendingHasOutcome
<1>1. Inv => PendingHasOutcome
  BY DEF Inv, DataInv
<1> QED
  BY <1>1, Invariance, PTL

\* The tables may miss what memory has, they never contradict it.
THEOREM TablesAreNeverAhead == Spec => []DatabaseLagsMemory
<1>1. Inv => DatabaseLagsMemory
  BY DEF Inv, DataInv
<1> QED
  BY <1>1, Invariance, PTL

\* What a caller of Submit or CancelLatest was told survives a crash.
THEOREM AnswersAreDurable == Spec => []ToldIsDurable
<1>1. Inv => ToldIsDurable
  BY DEF Inv, DataInv
<1> QED
  BY <1>1, Invariance, PTL

\* Every run that can still be stopped has its entry in the table of cancel
\* functions, and no other has.
THEOREM CancelTableIsExact == Spec => []CancelTableExact
<1>1. Inv => CancelTableExact
  BY DEF Inv, RunInv
<1> QED
  BY <1>1, Invariance, PTL

-----------------------------------------------------------------------------
(* The manager implements the life of a task. *)

\* A step of TaskLifecycle that is not a recovery.
LifecycleStep ==
  \/ \E t \in TaskIDs :
       Lifecycle!Accept(t) \/ Lifecycle!Begin(t) \/ Lifecycle!TakeOver(t)
  \/ \E t \in TaskIDs, outcome \in Outcomes : Lifecycle!Conclude(t, outcome)
  \/ \E ts \in SUBSET mem.pending : Lifecycle!Report(ts)
  \/ Lifecycle!ForgetAll
  \/ UNCHANGED <<mem.state, mem.pending, db.state, db.pending>>

\* Saving a snapshot or failing to is what SaveOrLag says.
LEMMA SavesRefine ==
  ASSUME db' \in {db, mem'}
  PROVE  Lifecycle!SaveOrLag
  BY DEF Lifecycle!SaveOrLag

\* A step that saves the states as they are, with fewer pending reports.
LEMMA ReportRefines ==
  ASSUME mem'.state = mem.state, NEW ts \in SUBSET mem.pending,
         mem'.pending = mem.pending \ ts, db' \in {db, mem'}
  PROVE  LifecycleStep
  BY SavesRefine DEF LifecycleStep, Lifecycle!Report

\* Each step is a restart or a step of the life of one task.
LEMMA StepRefines ==
  ASSUME Inv, Next
  PROVE  Restart \/ LifecycleStep
<1>0. TypeOK /\ TypeOK'
  BY TypeStep DEF Inv
<1>1. ASSUME mem'.state = mem.state, mem'.pending = mem.pending,
             db' \in {db, mem'}
      PROVE  LifecycleStep
  BY <1>1, ReportRefines
<1>2. ASSUME NEW t \in TaskIDs, Submit(t) PROVE LifecycleStep
  <2>1. /\ mem.state[t] = NoTask
        /\ mem'.state = [mem.state EXCEPT ![t] = "accepted"]
        /\ mem'.pending = mem.pending
        /\ db' \in {db, mem'}
    BY <1>0, <1>2
    DEF Inv, RunInv, FreshTasks, Submit, UpdateState, Saved, Enter, TypeOK, Snapshots
  <2> QED
    BY <2>1, SavesRefine DEF LifecycleStep, Lifecycle!Accept, NoTask
<1>3. ASSUME NEW t \in TaskIDs, CancelLatest(t) PROVE LifecycleStep
  <2>1. /\ mem.state[t] \in {"accepted", "running"}
        /\ mem'.state = [mem.state EXCEPT ![t] = "canceled"]
        /\ mem'.pending = mem.pending \cup {t}
        /\ db' \in {db, mem'}
    BY <1>0, <1>3, ConcludeFields
    DEF CancelLatest, IsActiveTaskState, UpdateState, Saved
  <2> QED
    BY <2>1, SavesRefine DEF LifecycleStep, Lifecycle!Conclude, Outcomes
<1>4. ASSUME NEW t \in TaskIDs, StartTask(t) PROVE LifecycleStep
  <2>1. CASE mem' = mem /\ db' \in {db, mem}
    BY <1>1, <2>1
  <2>2. CASE MayStart(t) /\ mem' = Enter(t, "running") /\ db' \in {db, mem'}
    <3>1. /\ mem.state[t] = "accepted"
          /\ mem'.state = [mem.state EXCEPT ![t] = "running"]
          /\ mem'.pending = mem.pending
      BY <1>0, <2>2 DEF MayStart, Enter, TypeOK, Snapshots
    <3> QED
      BY <2>2, <3>1, SavesRefine DEF LifecycleStep, Lifecycle!Begin
  <2> QED
    BY <1>4, <2>1, <2>2, UpdateTaskCases DEF StartTask
<1>5. ASSUME NEW t \in TaskIDs, NEW s \in {"completed", "failed"},
             pc[t] \in {"executing", "failing"},
             UpdateTask(t, IF BlocksFurtherTaskWrites(mem.state[t])
                           THEN mem ELSE Conclude(t, s)),
             told' = told
      PROVE  LifecycleStep
  <2>1. /\ db' \in {db, mem'}
        /\ \/ mem' = mem
           \/ /\ mem.state[t] = "running"
              /\ mem'.state = [mem.state EXCEPT ![t] = s]
              /\ mem'.pending = mem.pending \cup {t}
    BY <1>5, GoroutineRecords
  <2> QED
    BY <1>1, <2>1, SavesRefine DEF LifecycleStep, Lifecycle!Conclude, Outcomes
<1>6. ASSUME NEW t \in TaskIDs, RecordFailure(t) PROVE LifecycleStep
  BY <1>5, <1>6 DEF RecordFailure
<1>7. ASSUME NEW t \in TaskIDs, RecordCompletion(t) PROVE LifecycleStep
  BY <1>5, <1>7 DEF RecordCompletion, RunIsBetweenCalls
<1>8. ASSUME NEW t \in TaskIDs,
             \/ RunFails(t) \/ ClearCancel(t) \/ NotifyResultReportReady(t)
             \/ CancelNotifies(t) \/ InterruptTask(t)
      PROVE  LifecycleStep
  BY <1>1, <1>8
  DEF RunFails, ClearCancel, NotifyResultReportReady, CancelNotifies, InterruptTask
<1>9. ASSUME ReporterStep PROVE LifecycleStep
  BY <1>0, <1>1, <1>9
  DEF ReporterStep, ReporterUpdate, StageArtifact, RegisterArtifact, UpdateTask,
      UpdateState, Saved, TypeOK, Snapshots
<1>10. ASSUME NEW t \in TaskIDs, MarkTaskSuperseded(t) PROVE LifecycleStep
  <2>1. CASE mem' = mem /\ db' \in {db, mem}
    BY <1>1, <2>1
  <2>2. CASE /\ IsActiveTaskState(mem.state[t])
             /\ mem' = [mem EXCEPT !.state[t] = "superseded", !.pending = @ \ {t}]
             /\ db' \in {db, mem'}
    <3>1. mem.state[t] \in {"accepted", "running"} /\ t \notin mem.pending
      BY <2>2
      DEF IsActiveTaskState, Inv, DataInv, PendingHasOutcome, Outcomes
    <3>2. /\ mem'.state = [mem.state EXCEPT ![t] = "superseded"]
          /\ mem'.pending = mem.pending
          /\ db' \in {db, mem'}
      BY <1>0, <2>2, <3>1 DEF TypeOK, Snapshots
    <3> QED
      BY <3>1, <3>2, SavesRefine DEF LifecycleStep, Lifecycle!TakeOver
  <2> QED
    BY <1>10, <2>1, <2>2, UpdateTaskCases DEF MarkTaskSuperseded
<1>11. ASSUME ReportStep PROVE LifecycleStep
  <2>1. ASSUME NEW ids \in SUBSET mem.pending, MarkResultReported(ids)
        PROVE  LifecycleStep
    BY <1>0, <2>1, ReportRefines
    DEF MarkResultReported, UpdateState, Saved, TypeOK, Snapshots
  <2>2. ASSUME NEW as \in SUBSET ArtifactIDs, MarkArtifactDeliveriesNoChannel(as)
        PROVE  LifecycleStep
    BY <1>0, <1>1, <2>2
    DEF MarkArtifactDeliveriesNoChannel, UpdateState, Saved, TypeOK, Snapshots
  <2>3. ASSUME NEW a \in ArtifactIDs, NEW status, MarkArtifactDelivery(a, status)
        PROVE  LifecycleStep
    BY <1>0, <1>1, <2>3
    DEF MarkArtifactDelivery, UpdateState, Saved, TypeOK, Snapshots
  <2> QED
    BY <1>11, <2>1, <2>2, <2>3
    DEF ReportStep, MarkArtifactDeliveryDelivered, MarkArtifactDeliveryFailed
<1>12. ASSUME Reset PROVE LifecycleStep
  BY <1>12, SavesRefine
  DEF Reset, EmptySnapshot, LifecycleStep, Lifecycle!ForgetAll,
      Lifecycle!Forgotten, NoTask
<1> QED
  BY <1>2, <1>3, <1>4, <1>6, <1>7, <1>8, <1>9, <1>10, <1>11, <1>12
  DEF Next, GoroutineStep, TakeOverStep

\* The code with its goroutines, contexts, faults and hooks implements the
\* life of a task that the documentation draws.
THEOREM Implementation == Spec => ImplementsLifecycle
<1>1. Init => Lifecycle!Init
  BY DEF Init, EmptySnapshot, Lifecycle!Init, Lifecycle!Forgotten, NoTask
<1>2. Inv /\ [Next]_managerVars => [Lifecycle!Next]_(Lifecycle!lifecycleVars)
  <2>1. ASSUME Restart PROVE Lifecycle!Recover
    BY <2>1 DEF Restart, Lifecycle!Recover
  <2>2. ASSUME LifecycleStep PROVE [Lifecycle!Next]_(Lifecycle!lifecycleVars)
    BY <2>2 DEF LifecycleStep, Lifecycle!Next, Lifecycle!lifecycleVars, Outcomes
  <2>3. ASSUME UNCHANGED managerVars
        PROVE  UNCHANGED Lifecycle!lifecycleVars
    BY <2>3 DEF managerVars, Lifecycle!lifecycleVars
  <2> QED
    BY <2>1, <2>2, <2>3, StepRefines DEF Lifecycle!Next
<1> QED
  BY <1>1, <1>2, Invariance, PTL DEF Spec, ImplementsLifecycle, Lifecycle!Spec

\* An outcome is final, and reported once: only a restart takes either back.
THEOREM OutcomesAreFinal == Spec => OutcomeIsFinal
<1>1. ASSUME Inv, LifecycleStep, NEW t \in TaskIDs, mem.state[t] \in Final
      PROVE  /\ mem'.state[t] \in {mem.state[t], NoTask}
             /\ t \in mem'.pending => t \in mem.pending
  BY <1>1
  DEF Inv, TypeOK, Snapshots, LifecycleStep, Lifecycle!Accept, Lifecycle!Begin,
      Lifecycle!TakeOver, Lifecycle!Conclude, Lifecycle!Report,
      Lifecycle!ForgetAll, Lifecycle!Forgotten, NoTask, Final, Outcomes
<1> DEFINE Kept == \A t \in TaskIDs :
                     mem.state[t] \in Final =>
                       /\ mem'.state[t] \in {mem.state[t], NoTask}
                       /\ t \in mem'.pending => t \in mem.pending
<1>2. Inv /\ [Next]_managerVars => [Restart \/ Kept]_managerVars
  BY <1>1, StepRefines
<1> QED
  BY <1>2, Invariance, PTL DEF Spec, OutcomeIsFinal

-----------------------------------------------------------------------------
(* Artifacts. *)

\* A step that moves a task leaves the delivery records alone, and only Submit
\* makes a task found that was not.
LEMMA TaskSteps ==
  ASSUME TypeOK, NEW t \in TaskIDs,
         \/ Submit(t) \/ CancelLatest(t) \/ CancelNotifies(t)
         \/ GoroutineStep(t) \/ InterruptTask(t) \/ MarkTaskSuperseded(t)
  PROVE  /\ mem'.delivery = mem.delivery
         /\ \A u \in TaskIDs : ~Found(u) /\ Found(u)' => u = t /\ Submit(t)
<1> DEFINE Moves(snap) == /\ snap.delivery = mem.delivery
                          /\ \E s : snap.state = [mem.state EXCEPT ![t] = s]
<1>1. ASSUME NEW s PROVE Moves(Enter(t, s)) /\ Moves(Conclude(t, s))
  BY DEF Enter, Conclude, TypeOK, Snapshots
<1>2. Moves([mem EXCEPT !.state[t] = "superseded", !.pending = @ \ {t}])
  BY DEF TypeOK, Snapshots
<1> HIDE DEF Moves
<1>3. \/ mem' = mem
      \/ Moves(mem') /\ (Found(t) \/ Submit(t))
  <2>1. CASE Submit(t) \/ CancelNotifies(t) \/ InterruptTask(t)
    BY <1>1, <2>1 DEF Submit, CancelNotifies, InterruptTask, UpdateState
  <2>2. CASE CancelLatest(t)
    BY <1>1, <2>2
    DEF CancelLatest, UpdateState, Found, IsActiveTaskState, NoTask
  <2>3. CASE StartTask(t)
    BY <1>1, <2>3, UpdateTaskCases DEF StartTask
  <2>4. CASE RecordFailure(t)
    BY <1>1, <2>4, UpdateTaskCases DEF RecordFailure
  <2>5. CASE RecordCompletion(t)
    BY <1>1, <2>5, UpdateTaskCases DEF RecordCompletion
  <2>6. CASE RunFails(t) \/ ClearCancel(t) \/ NotifyResultReportReady(t)
    BY <2>6 DEF RunFails, ClearCancel, NotifyResultReportReady
  <2>7. CASE MarkTaskSuperseded(t)
    BY <1>2, <2>7, UpdateTaskCases DEF MarkTaskSuperseded
  <2> QED
    BY <2>1, <2>2, <2>3, <2>4, <2>5, <2>6, <2>7 DEF GoroutineStep
<1> QED
  BY <1>3 DEF Moves, Found, TypeOK, Snapshots

\* The marks change the status of delivery records that exist, no others.
LEMMA ReportsKeepRegistered ==
  ASSUME TypeOK, ReportStep, NEW a \in ArtifactIDs
  PROVE  Registered(a)' => Registered(a)
<1> USE DEF UpdateState, TypeOK, Snapshots, Registered
<1>1. ASSUME NEW ids \in SUBSET mem.pending, MarkResultReported(ids)
      PROVE  Registered(a)' => Registered(a)
  BY <1>1 DEF MarkResultReported
<1>2. ASSUME NEW as \in SUBSET ArtifactIDs, MarkArtifactDeliveriesNoChannel(as)
      PROVE  Registered(a)' => Registered(a)
  <2>1. mem'.delivery =
          [b \in ArtifactIDs |->
             IF b \in as /\ mem.delivery[b] \notin {NoArtifact, "delivered"}
             THEN "no_channel" ELSE mem.delivery[b]]
    BY <1>2 DEF MarkArtifactDeliveriesNoChannel
  <2>2. mem'.delivery[a] =
          IF a \in as /\ mem.delivery[a] \notin {NoArtifact, "delivered"}
          THEN "no_channel" ELSE mem.delivery[a]
    BY <2>1
  <2> QED
    BY <2>2
<1>3. ASSUME NEW b \in ArtifactIDs, NEW status, MarkArtifactDelivery(b, status)
      PROVE  Registered(a)' => Registered(a)
  <2>1. mem'.delivery = [mem.delivery EXCEPT ![b] = status] /\ Registered(b)
    BY <1>3 DEF MarkArtifactDelivery
  <2> QED
    BY <2>1
<1> QED
  BY <1>1, <1>2, <1>3
  DEF ReportStep, MarkArtifactDeliveryDelivered, MarkArtifactDeliveryFailed

\* Of the reporter's calls only the second half of PutArtifact creates one,
\* for a task that is active.
LEMMA ReporterRegisters ==
  ASSUME TypeOK, ReporterStep, NEW a \in ArtifactIDs
  PROVE  Registered(a)' =>
           \/ Registered(a)
           \/ RegisterArtifact(a) /\ AcceptsArtifacts(Owner[a])
<1> USE DEF UpdateState, TypeOK, Snapshots, Registered
<1>1. ASSUME NEW t \in TaskIDs, ReporterUpdate(t)
      PROVE  Registered(a)' => Registered(a)
  BY <1>1 DEF ReporterUpdate, UpdateTask
<1>2. ASSUME NEW b \in ArtifactIDs, StageArtifact(b)
      PROVE  Registered(a)' => Registered(a)
  BY <1>2 DEF StageArtifact
<1>3. ASSUME NEW b \in ArtifactIDs, RegisterArtifact(b)
      PROVE  Registered(a)' =>
               \/ Registered(a)
               \/ b = a /\ AcceptsArtifacts(Owner[a])
  <2>1. \/ mem'.delivery = mem.delivery
        \/ /\ mem'.delivery = [mem.delivery EXCEPT ![b] = InitialDelivery]
           /\ AcceptsArtifacts(Owner[b])
    BY <1>3 DEF RegisterArtifact
  <2> QED
    BY <2>1
<1> QED
  BY <1>1, <1>2, <1>3 DEF ReporterStep

\* A delivery record is created only while its task is active: what a run
\* puts after its task has ended is turned away.
THEOREM NoArtifactsAfterTheEnd == Spec => NoLateArtifacts
<1>1. ASSUME TypeOK, [Next]_managerVars, ~Restart,
             NEW a \in ArtifactIDs, ~Registered(a), Registered(a)'
      PROVE  mem.state[Owner[a]] \notin Final
  <2>1. ~Reset /\ ~UNCHANGED managerVars
    BY <1>1 DEF Reset, EmptySnapshot, Registered, managerVars
  <2>2. ReporterStep
    BY <1>1, <2>1, TaskSteps, ReportsKeepRegistered
    DEF Next, TakeOverStep, Registered
  <2> QED
    BY <1>1, <2>2, ReporterRegisters DEF AcceptsArtifacts, Final, Outcomes
<1>2. TypeOK /\ [Next]_managerVars =>
        [\/ Restart
         \/ \A a \in ArtifactIDs :
              ~Registered(a) /\ Registered(a)' =>
                mem.state[Owner[a]] \notin Final]_managerVars
  BY <1>1
<1> QED
  BY <1>2, TypeCorrect, PTL DEF Spec, NoLateArtifacts

\* While the store and the disk work, the rows are never behind, and a file
\* that is still to be registered for a task the manager knows is there.
FileInv ==
  /\ TypeOK
  /\ db = mem
  /\ ArtifactsHaveFiles
  /\ \A a \in staged : /\ ~Registered(a)
                       /\ pc[Owner[a]] = "executing"
                       /\ Found(Owner[a]) => a \in files

\* While saves and the wiping of the cache succeed, every step keeps a file
\* for each registered artifact and for each one still to be registered.
LEMMA FileInvStep ==
  ASSUME FileInv, [Next]_managerVars, "save" \notin Faults, "disk" \notin Faults
  PROVE  FileInv'
<1>0. /\ TypeOK /\ TypeOK'
      /\ SaveOutcomes = {TRUE} /\ DiskOutcomes = {TRUE}
  BY TypeStep DEF FileInv, SaveOutcomes, DiskOutcomes
<1> USE DEF FileInv, ArtifactsHaveFiles
<1>1. ASSUME NEW t \in TaskIDs, NEW snap, UpdateTask(t, snap) PROVE db' = mem'
  BY <1>0, <1>1 DEF UpdateTask, UpdateState, Saved
<1>2. ASSUME NEW t \in TaskIDs,
             \/ Submit(t) \/ CancelLatest(t) \/ CancelNotifies(t)
             \/ GoroutineStep(t) \/ InterruptTask(t) \/ MarkTaskSuperseded(t)
      PROVE  FileInv'
  <2>1. db' = mem'
    BY <1>0, <1>1, <1>2
    DEF Submit, CancelLatest, CancelNotifies, GoroutineStep, InterruptTask,
        MarkTaskSuperseded, StartTask, RunFails, RecordFailure,
        RecordCompletion, ClearCancel, NotifyResultReportReady, UpdateState, Saved
  <2>2. UNCHANGED <<staged, files>> /\ mem'.delivery = mem.delivery
    BY <1>0, <1>2, TaskSteps
    DEF Submit, CancelLatest, CancelNotifies, GoroutineStep, InterruptTask,
        MarkTaskSuperseded, StartTask, RunFails, RecordFailure,
        RecordCompletion, ClearCancel, NotifyResultReportReady
  <2>3. ASSUME NEW a \in staged
        PROVE  /\ pc'[Owner[a]] = "executing"
               /\ Found(Owner[a])' => Found(Owner[a])
    <3>1. Owner[a] \in TaskIDs /\ a \in ArtifactIDs
      BY DEF TypeOK
    <3>2. pc'[Owner[a]] = "executing"
      BY <1>0, <1>2, <3>1
      DEF Submit, CancelLatest, CancelNotifies, GoroutineStep, InterruptTask,
          MarkTaskSuperseded, StartTask, RunFails, RecordFailure,
          RecordCompletion, ClearCancel, NotifyResultReportReady,
          RunIsBetweenCalls, TypeOK
    <3>3. Submit(t) => Owner[a] # t
      BY DEF Submit
    <3> QED
      BY <1>0, <1>2, <3>1, <3>2, <3>3, TaskSteps
  <2> QED
    BY <1>0, <2>1, <2>2, <2>3 DEF Registered
<1>3. ASSUME ReporterStep PROVE FileInv'
  <2>1. ASSUME NEW t \in TaskIDs, ReporterUpdate(t) PROVE FileInv'
    BY <1>0, <1>1, <2>1
    DEF ReporterUpdate, UpdateTask, UpdateState, Registered, Found
  <2>2. ASSUME NEW a \in ArtifactIDs, StageArtifact(a) PROVE FileInv'
    BY <1>0, <2>2 DEF StageArtifact, RunIsBetweenCalls, Registered, Found
  <2>3. ASSUME NEW a \in ArtifactIDs, RegisterArtifact(a) PROVE FileInv'
    <3>1. /\ a \in staged /\ ~Registered(a)
          /\ staged' = staged \ {a} /\ pc' = pc
      BY <2>3 DEF RegisterArtifact
    <3>2. /\ mem'.state = mem.state /\ db' = mem'
          /\ \/ /\ mem'.delivery = [mem.delivery EXCEPT ![a] = InitialDelivery]
                /\ files' = files /\ Found(Owner[a])
             \/ mem'.delivery = mem.delivery /\ files' = files \ {a}
      BY <1>0, <2>3
      DEF RegisterArtifact, UpdateState, Saved, KeepFile, TypeOK, Snapshots
    <3> QED
      BY <1>0, <3>1, <3>2 DEF Registered, Found, TypeOK, Snapshots
  <2> QED
    BY <1>3, <2>1, <2>2, <2>3 DEF ReporterStep
<1>4. ASSUME ReportStep PROVE FileInv'
  <2>1. /\ mem'.state = mem.state /\ db' = mem'
        /\ UNCHANGED <<pc, staged, files>>
    <3> DEFINE Marked == /\ mem'.state = mem.state /\ db' = mem'
                         /\ UNCHANGED <<pc, staged, files>>
    <3>1. ASSUME NEW ids, MarkResultReported(ids) PROVE Marked
      BY <1>0, <3>1 DEF MarkResultReported, UpdateState, Saved
    <3>2. ASSUME NEW as, MarkArtifactDeliveriesNoChannel(as) PROVE Marked
      BY <1>0, <3>2 DEF MarkArtifactDeliveriesNoChannel, UpdateState, Saved
    <3>3. ASSUME NEW a, NEW status, MarkArtifactDelivery(a, status) PROVE Marked
      BY <1>0, <3>3 DEF MarkArtifactDelivery, UpdateState, Saved
    <3> QED
      BY <1>4, <3>1, <3>2, <3>3
      DEF ReportStep, MarkArtifactDeliveryDelivered, MarkArtifactDeliveryFailed
  <2>2. \A a \in ArtifactIDs : Registered(a)' => Registered(a)
    BY <1>4, ReportsKeepRegistered
  <2> QED
    BY <1>0, <2>1, <2>2 DEF Found, TypeOK
<1>5. ASSUME Reset PROVE FileInv'
  BY <1>0, <1>5 DEF Reset, EmptySnapshot, Registered, Found, TypeOK
<1>6. ASSUME Restart PROVE FileInv'
  BY <1>0, <1>6 DEF Restart, Registered
<1>7. ASSUME UNCHANGED managerVars PROVE FileInv'
  BY <1>0, <1>7 DEF managerVars, Registered, Found
<1> QED
  BY <1>2, <1>3, <1>4, <1>5, <1>6, <1>7 DEF Next, TakeOverStep

\* While the store and the disk work, an artifact the manager lists has its
\* file, through every reset, cancellation and crash.
THEOREM ArtifactsCanBeOpened ==
  ASSUME "save" \notin Faults, "disk" \notin Faults
  PROVE  Spec => []ArtifactsHaveFiles
<1>1. Init => FileInv
  BY InvInit
  DEF Init, Inv, FileInv, ArtifactsHaveFiles, Registered, EmptySnapshot
<1>2. FileInv /\ [Next]_managerVars => FileInv'
  BY FileInvStep
<1>3. FileInv => ArtifactsHaveFiles
  BY DEF FileInv
<1> QED
  BY <1>1, <1>2, <1>3, PTL DEF Spec

-----------------------------------------------------------------------------
(* The report hook. *)

\* Whoever makes a report pending owes the call of the hook: the goroutine that
\* records the outcome, or the caller of CancelLatest; and calls it.
LEMMA AnnouncedStep ==
  ASSUME TypeOK, PendingIsAnnounced, [Next]_managerVars,
         "save" \notin Faults, "crash" \notin Faults
  PROVE  PendingIsAnnounced'
<1> DEFINE Owed(t) == t \in notified \cup cancelNotify \/ pc[t] \in {"clearing", "notifying"}
<1>0. /\ TypeOK' /\ SaveOutcomes = {TRUE}
      /\ mem.pending \subseteq TaskIDs /\ \A t \in mem.pending : Owed(t)
  BY TypeStep DEF SaveOutcomes, PendingIsAnnounced, TypeOK, Snapshots
<1>1. SUFFICES ASSUME NEW t \in TaskIDs, t \in mem'.pending PROVE Owed(t)'
  BY <1>0 DEF PendingIsAnnounced, TypeOK, Snapshots
<1>2. CASE mem'.pending = mem.pending /\ UNCHANGED <<pc, notified, cancelNotify>>
  BY <1>0, <1>1, <1>2
<1>3. ASSUME NEW u \in TaskIDs,
             Submit(u) \/ StartTask(u) \/ RunFails(u) \/ ClearCancel(u)
               \/ NotifyResultReportReady(u) \/ CancelNotifies(u)
      PROVE  Owed(t)'
  <2>1. mem'.pending = mem.pending
    BY <1>3, UpdateTaskCases
    DEF Submit, StartTask, RunFails, ClearCancel, NotifyResultReportReady, CancelNotifies,
        UpdateState, Enter, TypeOK, Snapshots
  <2>2. Owed(t)
    BY <1>0, <1>1, <2>1
  <2>3. CASE Submit(u) \/ StartTask(u) \/ RunFails(u)
    BY <2>2, <2>3 DEF Submit, StartTask, RunFails, RunIsBetweenCalls, TypeOK
  <2>4. CASE ClearCancel(u)
    BY <2>2, <2>4 DEF ClearCancel, AfterClearing, TypeOK
  <2>5. CASE NotifyResultReportReady(u) \/ CancelNotifies(u)
    BY <2>2, <2>5 DEF NotifyResultReportReady, CancelNotifies, TypeOK
  <2> QED BY <1>3, <2>3, <2>4, <2>5
<1>4. ASSUME NEW u \in TaskIDs, RecordFailure(u) \/ RecordCompletion(u) PROVE Owed(t)'
  <2>1. CASE t = u /\ pc'[u] = "clearing"
    BY <2>1
  <2>2. CASE t # u \/ pc'[u] # "clearing"
    <3>1. t \in mem.pending
      <4>1. CASE BlocksFurtherTaskWrites(mem.state[u])
        BY <1>1, <1>4, <4>1, UpdateTaskCases DEF RecordFailure, RecordCompletion
      <4>2. CASE ~BlocksFurtherTaskWrites(mem.state[u])
        <5>1. pc'[u] = "clearing"
          BY <1>4, <4>2 DEF RecordFailure, RecordCompletion, TypeOK
        <5>2. UpdateTask(u, Conclude(u, "failed")) \/ UpdateTask(u, Conclude(u, "completed"))
          BY <1>4, <4>2 DEF RecordFailure, RecordCompletion
        <5>3. mem'.pending \subseteq mem.pending \cup {u}
          <6>1. mem' = mem \/ mem' = Conclude(u, "failed") \/ mem' = Conclude(u, "completed")
            BY <5>2, UpdateTaskCases
          <6>2. ASSUME NEW s PROVE Conclude(u, s).pending = mem.pending \cup {u}
            BY ConcludeFields
          <6> QED BY <6>1, <6>2
        <5> QED BY <1>1, <2>2, <5>1, <5>3
      <4> QED BY <4>1, <4>2
    <3>2. pc[u] \notin {"clearing", "notifying"} /\ \A v \in TaskIDs : v # u => pc'[v] = pc[v]
      BY <1>4 DEF RecordFailure, RecordCompletion, RunIsBetweenCalls, TypeOK
    <3>3. notified' = notified /\ cancelNotify' = cancelNotify
      BY <1>4 DEF RecordFailure, RecordCompletion
    <3> QED BY <1>0, <3>1, <3>2, <3>3
  <2> QED BY <2>1, <2>2
<1>5. ASSUME NEW u \in TaskIDs, CancelLatest(u) PROVE Owed(t)'
  <2>1. mem'.pending = mem.pending \cup {u} /\ cancelNotify' = cancelNotify \cup {u}
    BY <1>0, <1>5, ConcludeFields DEF CancelLatest, UpdateState
  <2>2. pc' = pc /\ notified' = notified
    BY <1>5 DEF CancelLatest
  <2> QED BY <1>0, <1>1, <2>1, <2>2
<1>6. ASSUME ReporterStep PROVE Owed(t)'
  <2>1. UNCHANGED <<pc, notified, cancelNotify>>
    BY <1>6 DEF ReporterStep, ReporterUpdate, StageArtifact, RegisterArtifact
  <2>2. ASSUME NEW a \in ArtifactIDs, RegisterArtifact(a) PROVE mem'.pending = mem.pending
    BY <2>2 DEF RegisterArtifact, UpdateState, TypeOK, Snapshots
  <2>3. mem'.pending = mem.pending
    BY <1>6, <2>2, UpdateTaskCases DEF ReporterStep, ReporterUpdate, StageArtifact
  <2> QED BY <1>2, <2>1, <2>3
<1>7. ASSUME NEW u \in TaskIDs, InterruptTask(u) \/ MarkTaskSuperseded(u) PROVE Owed(t)'
  <2>1. mem'.pending \subseteq mem.pending
    <3>1. CASE InterruptTask(u)
      BY <3>1 DEF InterruptTask
    <3>2. CASE MarkTaskSuperseded(u)
      <4>1. [mem EXCEPT !.state[u] = "superseded", !.pending = @ \ {u}].pending = mem.pending \ {u}
        BY DEF TypeOK, Snapshots
      <4> QED BY <3>2, <4>1, UpdateTaskCases DEF MarkTaskSuperseded
    <3> QED BY <1>7, <3>1, <3>2
  <2>2. UNCHANGED <<pc, notified, cancelNotify>>
    BY <1>7 DEF InterruptTask, MarkTaskSuperseded
  <2> QED BY <1>0, <1>1, <2>1, <2>2
<1>8. ASSUME ReportStep PROVE Owed(t)'
  <2> DEFINE Marked == /\ mem'.pending \subseteq mem.pending
                       /\ UNCHANGED <<pc, notified, cancelNotify>>
  <2>1. ASSUME NEW ids, MarkResultReported(ids) PROVE Marked
    BY <2>1 DEF MarkResultReported, UpdateState, TypeOK, Snapshots
  <2>2. ASSUME NEW as, MarkArtifactDeliveriesNoChannel(as) PROVE Marked
    BY <2>2 DEF MarkArtifactDeliveriesNoChannel, UpdateState, TypeOK, Snapshots
  <2>3. ASSUME NEW a, NEW status, MarkArtifactDelivery(a, status) PROVE Marked
    BY <2>3 DEF MarkArtifactDelivery, UpdateState, TypeOK, Snapshots
  <2>4. Marked
    BY <1>8, <2>1, <2>2, <2>3
    DEF ReportStep, MarkArtifactDeliveryDelivered, MarkArtifactDeliveryFailed
  <2> QED BY <1>0, <1>1, <2>4
<1>9. CASE Reset
  BY <1>1, <1>9 DEF Reset, EmptySnapshot
<1>10. CASE UNCHANGED managerVars
  BY <1>2, <1>10 DEF managerVars
<1> HIDE DEF Owed
<1> QED
  BY <1>3, <1>4, <1>5, <1>6, <1>7, <1>8, <1>9, <1>10
  DEF Next, GoroutineStep, TakeOverStep, Restart

\* While saves succeed and the process lives, no outcome waits for a report
\* that nobody asks for: the hook was called for it, or will be.
THEOREM PendingReportsAreAnnounced ==
  ASSUME "save" \notin Faults, "crash" \notin Faults
  PROVE  Spec => []PendingIsAnnounced
<1>1. Init => PendingIsAnnounced
  BY DEF Init, EmptySnapshot, PendingIsAnnounced
<1>2. TypeOK /\ PendingIsAnnounced /\ [Next]_managerVars => PendingIsAnnounced'
  BY AnnouncedStep
<1> QED
  BY <1>1, <1>2, TypeCorrect, PTL DEF Spec

=============================================================================
