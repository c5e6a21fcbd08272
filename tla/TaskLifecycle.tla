---------------------------- MODULE TaskLifecycle ----------------------------
(***************************************************************************)
(* What the task manager promises the rest of the program about a task,    *)
(* without goroutines, contexts, hooks, artifacts or failing calls: the    *)
(* states of docs/async-tasks.md, section 6, the order they come in, when  *)
(* a report is owed to the user, and what a restart may take back.         *)
(* TaskManager is shown to implement it.                                   *)
(***************************************************************************)
CONSTANTS TaskIDs

VARIABLES
  life,   \* the state of each task
  owed,   \* the tasks whose outcome the user has not heard
  saved   \* life and owed as they would be found after a restart

lifecycleVars == <<life, owed, saved>>

Forgotten == [t \in TaskIDs |-> "none"]

Init ==
  /\ life = Forgotten
  /\ owed = {}
  /\ saved = [life |-> life, owed |-> owed]

\* A change is saved with the step that makes it, or not before a later one.
SaveOrLag == saved' \in {saved, [life |-> life', owed |-> owed']}

Accept(t) ==
  /\ life[t] = "none"
  /\ life' = [life EXCEPT ![t] = "accepted"]
  /\ owed' = owed
  /\ SaveOrLag

Begin(t) ==
  /\ life[t] = "accepted"
  /\ life' = [life EXCEPT ![t] = "running"]
  /\ owed' = owed
  /\ SaveOrLag

\* Only a task that has begun completes or fails; each outcome is owed.
Conclude(t, outcome) ==
  /\ life[t] = "running" \/ (life[t] = "accepted" /\ outcome = "canceled")
  /\ life' = [life EXCEPT ![t] = outcome]
  /\ owed' = owed \cup {t}
  /\ SaveOrLag

\* A continuation takes the task over: nobody is told.
TakeOver(t) ==
  /\ life[t] \in {"accepted", "running"}
  /\ life' = [life EXCEPT ![t] = "superseded"]
  /\ owed' = owed
  /\ SaveOrLag

Report(ts) ==
  /\ ts \subseteq owed
  /\ owed' = owed \ ts
  /\ life' = life
  /\ SaveOrLag

\* The dashboard forgets everything.
ForgetAll ==
  /\ life' = Forgotten
  /\ owed' = {}
  /\ SaveOrLag

Recover ==
  /\ life' = saved.life
  /\ owed' = saved.owed
  /\ saved' = saved

Next ==
  \/ \E t \in TaskIDs : Accept(t) \/ Begin(t) \/ TakeOver(t)
  \/ \E t \in TaskIDs, outcome \in {"completed", "failed", "canceled"} :
       Conclude(t, outcome)
  \/ \E ts \in SUBSET owed : Report(ts)
  \/ ForgetAll
  \/ Recover

Spec == Init /\ [][Next]_lifecycleVars

=============================================================================
