---------------------------- MODULE ResultReport ----------------------------
(***************************************************************************)
(* The voice turns and the reports of task results:                        *)
(* src/internal/assistant/service.go, with the calls it makes into         *)
(* src/internal/tasks/manager.go.                                          *)
(*                                                                         *)
(* Everything that speaks is a turn, a goroutine of its own: a user turn   *)
(* answers a text and may report results after it, a report turn only      *)
(* reports.  busy keeps the turns apart; resultReportReady remembers that  *)
(* the manager has called the report hook while no turn could start.       *)
(*                                                                         *)
(* The manager is reduced to what a report reads and writes, and to the    *)
(* promise proved of it in TaskManager: a task that concludes has a report *)
(* pending and leads to a call of the hook.  Left out: texts, history,     *)
(* memory, mirroring.  ListPendingResultReports returns the tasks that     *)
(* were updated last; here, any of them.                                   *)
(***************************************************************************)
EXTENDS Naturals, FiniteSets

CONSTANTS
  Tasks,         \* the tasks that may conclude
  WithArtifact,  \* the tasks that have registered an artifact by then
  Limit,         \* how many results one report takes (3 in the code)
  Turns,         \* the goroutines available for turns
  Faults         \* the disturbances of a run

ASSUME ResultReportAssumption ==
  /\ WithArtifact \subseteq Tasks
  /\ Limit \in Nat \ {0}
  /\ Faults \subseteq {"speak",    \* the report model or the playback fails
                       "resolve",  \* looking up the default channel fails
                       "save",     \* a transaction of the task store fails
                       "crash",    \* the process dies and is started again
                       "reset"}    \* the dashboard resets the task data

VARIABLES
  mem,      \* the manager's memory: [done, pending, delivery]
  rows,     \* the same, as last committed
  ran,      \* the tasks whose goroutine has concluded
  hooks,    \* the calls of TryDeliverTaskResultReports that are still to run
  busy,     \* Service.busy
  ready,    \* Service.resultReportReady
  channel,  \* Service.lastChannel
  turn,     \* where each turn is and what it has read
  heard,    \* has the user heard the result of a task?
  sent,     \* has the default channel taken the artifact of a task?
  missed    \* reports that were tried in vain, passed over, or orphaned

reportVars == <<mem, rows, ran, hooks, busy, ready, channel, turn, heard,
                sent, missed>>

-----------------------------------------------------------------------------

Unregistered == "none"
DeliveryStates == {"pending", "delivered", "failed", "no_channel"}

Snapshots == [done     : SUBSET Tasks,
              pending  : SUBSET Tasks,
              delivery : [Tasks -> DeliveryStates \cup {Unregistered}]]

EmptySnapshot == [done |-> {}, pending |-> {},
                  delivery |-> [t \in Tasks |-> Unregistered]]

Channels  == {"xiaoai", "debug"}
NoChannel == "no channel"
NoTask    == "no task"

\* The places of a turn between two calls that take a lock or leave the
\* process; "main" stands for all of a user turn up to its own reply.
Places == {"main", "list", "deliveries", "resolve", "send", "delivered",
           "undelivered", "speak", "mark", "finish"}

\* items: the tasks it reports; todo: those whose artifact it has to send;
\* now: the one it has just tried to send.
NoTurn == [at |-> "none", items |-> {}, todo |-> {}, now |-> NoTask]
TurnStates == [at : Places \cup {"none"}, items : SUBSET Tasks,
               todo : SUBSET Tasks, now : Tasks \cup {NoTask}]

\* What was heard or sent while the present process lives, or by one before.
Times == {"never", "before", "now"}

ReportInit ==
  /\ mem = EmptySnapshot
  /\ rows = EmptySnapshot
  /\ ran = {}
  /\ hooks = {}
  /\ busy = FALSE
  /\ ready = FALSE
  /\ channel = NoChannel
  /\ turn = [u \in Turns |-> NoTurn]
  /\ heard = [t \in Tasks |-> "never"]
  /\ sent = [t \in Tasks |-> "never"]
  /\ missed = {}

Free(u)    == turn[u].at = "none"
At(u, p)   == turn[u].at = p

Become(u, p, items, todo, now) ==
  turn' = [turn EXCEPT ![u] = [at |-> p, items |-> items, todo |-> todo,
                               now |-> now]]
Goto(u, p)  == Become(u, p, turn[u].items, turn[u].todo, turn[u].now)
Begin(u, p) == Become(u, p, {}, {}, NoTask)

\* Every change of the manager's state is made in memory, then all is saved.
SaveOutcomes == IF "save" \in Faults THEN BOOLEAN ELSE {TRUE}

\* Mutant: a change that could not be saved is undone in memory.
WriteOrUndo(snap) ==
  \E ok \in SaveOutcomes : /\ mem' = IF ok THEN snap ELSE mem
                           /\ rows' = IF ok THEN snap ELSE rows
Write(snap) ==
  /\ mem' = snap
  /\ \E ok \in SaveOutcomes : rows' = IF ok THEN snap ELSE rows

serviceVars == <<busy, ready, channel>>
managerVars == <<mem, rows, ran, hooks>>

-----------------------------------------------------------------------------
(* The manager, seen from here: a task concludes, and the hook is called   *)
(* in a goroutine of its own.                                              *)

Conclude(t) ==
  /\ t \notin ran
  /\ ran' = ran \cup {t}
  /\ Write([done     |-> mem.done \cup {t},
            pending  |-> mem.pending \cup {t},
            delivery |-> [mem.delivery EXCEPT
                            ![t] = IF t \in WithArtifact THEN "pending" ELSE @]])
  /\ hooks' = hooks \cup {t}
  /\ UNCHANGED <<serviceVars, turn, heard, sent, missed>>

\* The run of a task that was cancelled, taken over or wiped returns: nothing
\* is recorded, the hook is called all the same.
ConcludeIgnored(t) ==
  /\ t \notin ran
  /\ ran' = ran \cup {t}
  /\ hooks' = hooks \cup {t}
  /\ UNCHANGED <<mem, rows, serviceVars, turn, heard, sent, missed>>

-----------------------------------------------------------------------------
(* Turns begin.  A goroutine that cannot take the turn goes away.          *)

\* Mutant: a new text is taken while a turn is in progress.
AlwaysMayBegin == TRUE
MayBegin == ~busy

\* tryBeginVoiceTurn and tryBeginInjectedVoiceTurn: a text from the speaker,
\* or one from the dashboard, which is answered on the debug channel.
BeginVoiceTurn(u, c) ==
  /\ Free(u)
  /\ MayBegin
  /\ busy' = TRUE
  /\ channel' = c
  /\ Begin(u, "main")
  /\ UNCHANGED <<managerVars, ready, heard, sent, missed>>

HasChannel == channel # NoChannel

\* Mutant: a hook that finds the service busy is forgotten.
ForgetsWhenBusy == ready
ReadyWhenRefused == TRUE

\* tryBeginResultReportTurn, in the goroutine of the hook.
TryDeliverTaskResultReports(t) ==
  /\ t \in hooks
  /\ hooks' = hooks \ {t}
  /\ \/ /\ busy \/ ~HasChannel
        /\ ready' = ReadyWhenRefused
        /\ UNCHANGED <<busy, turn>>
     \/ /\ ~busy /\ HasChannel
        /\ \E u \in Turns : Free(u) /\ Begin(u, "list")
        /\ busy' = TRUE
        /\ ready' = FALSE
  /\ UNCHANGED <<mem, rows, ran, channel, heard, sent, missed>>

\* handleUserText up to the deferred report: only a reply that was played, an
\* answer or the acceptance of a task, is followed by a report.
MainReply(u) ==
  /\ At(u, "main")
  /\ Goto(u, "list") \/ Goto(u, "finish")
  /\ UNCHANGED <<managerVars, serviceVars, heard, sent, missed>>

-----------------------------------------------------------------------------
(* deliverTaskResultReports, call by call. *)

\* What ListPendingResultReports may return.
PendingReports ==
  {ids \in SUBSET mem.pending :
     \/ Cardinality(ids) = Limit
     \/ Cardinality(ids) < Limit /\ ids = mem.pending}

ListPendingResultReports(u) ==
  /\ At(u, "list")
  /\ \E ids \in PendingReports :
       /\ Become(u, IF ids = {} THEN "finish" ELSE "deliveries", ids, {}, NoTask)
       /\ missed' = (missed \ ids) \cup (mem.pending \ ids)
  /\ UNCHANGED <<managerVars, serviceVars, heard, sent>>

\* Mutant: every artifact of the tasks is sent, a delivered one too.
AllDeliveries(ids) == {t \in ids : mem.delivery[t] # Unregistered}
OpenDeliveries(ids) ==
  {t \in ids : mem.delivery[t] \notin {Unregistered, "delivered"}}

ListTaskArtifactDeliveries(u) ==
  LET open == OpenDeliveries(turn[u].items) IN
  /\ At(u, "deliveries")
  /\ Become(u, IF open = {} THEN "speak" ELSE "resolve", turn[u].items, open,
            NoTask)
  /\ UNCHANGED <<managerVars, serviceVars, heard, sent, missed>>

\* The default channel is there, or the artifacts are marked as having none
\* (a delivery that was wiped since is passed over), or looking it up fails.
ResolveDefaultChannel(u) ==
  /\ At(u, "resolve")
  /\ \/ Goto(u, "send") /\ UNCHANGED <<mem, rows>>
     \/ /\ Goto(u, "speak")
        /\ Write([mem EXCEPT !.delivery =
                    [t \in Tasks |-> IF t \in OpenDeliveries(turn[u].todo)
                                     THEN "no_channel" ELSE @[t]]])
     \/ "resolve" \in Faults /\ Goto(u, "speak") /\ UNCHANGED <<mem, rows>>
  /\ UNCHANGED <<ran, hooks, serviceVars, heard, sent, missed>>

\* One artifact is sent, or is not; nothing of the manager is locked.
DeliverTaskArtifact(u, t) ==
  /\ At(u, "send")
  /\ t \in turn[u].todo
  /\ \E p \in {"delivered", "undelivered"} :
       /\ Become(u, p, turn[u].items, turn[u].todo, t)
       /\ sent' = IF p = "delivered" THEN [sent EXCEPT ![t] = "now"] ELSE sent
  /\ UNCHANGED <<managerVars, serviceVars, heard, missed>>

\* Mutant: an artifact that could not be sent is left for the next report.
MarkAsPending(p) == IF p = "delivered" THEN "delivered" ELSE "pending"
MarkFor(p) == IF p = "delivered" THEN "delivered" ELSE "failed"

\* The outcome is marked; that the record is gone by now is only logged.
MarkArtifactDelivery(u) ==
  LET t == turn[u].now
      left == turn[u].todo \ {t}
  IN
  /\ At(u, "delivered") \/ At(u, "undelivered")
  /\ IF mem.delivery[t] = Unregistered
     THEN UNCHANGED <<mem, rows>>
     ELSE Write([mem EXCEPT !.delivery[t] = MarkFor(turn[u].at)])
  /\ Become(u, IF left = {} THEN "speak" ELSE "send", turn[u].items, left,
            NoTask)
  /\ UNCHANGED <<ran, hooks, serviceVars, heard, sent, missed>>

\* Mutant: a report that failed is marked like one that was played.
MarkAnyway == "mark"
AfterFailure == "finish"

\* The report is generated and played to its end, or not.
SpeakReport(u) ==
  /\ At(u, "speak")
  /\ \/ /\ Goto(u, "mark")
        /\ heard' = [t \in Tasks |-> IF t \in turn[u].items THEN "now" ELSE heard[t]]
        /\ missed' = missed
     \/ /\ "speak" \in Faults
        /\ Goto(u, AfterFailure)
        /\ missed' = missed \cup turn[u].items
        /\ heard' = heard
  /\ UNCHANGED <<managerVars, serviceVars, sent>>

Reported(ids) == mem.pending \ ids

MarkResultReported(u) ==
  /\ At(u, "mark")
  /\ Write([mem EXCEPT !.pending = Reported(turn[u].items)])
  /\ Goto(u, "finish")
  /\ UNCHANGED <<ran, hooks, serviceVars, heard, sent, missed>>

-----------------------------------------------------------------------------
(* finishVoiceTurn, deferred in every turn. *)

\* Mutant: the reports that came in meanwhile wait for another hook.
NeverDue == FALSE
ReportIsDue == ready /\ HasChannel

\* The next report turn is a new goroutine; it takes the place of this one.
FinishVoiceTurn(u) ==
  /\ At(u, "finish")
  /\ IF ReportIsDue
     THEN Begin(u, "list") /\ busy' = TRUE /\ ready' = FALSE
     ELSE turn' = [turn EXCEPT ![u] = NoTurn] /\ busy' = FALSE /\ ready' = ready
  /\ UNCHANGED <<managerVars, channel, heard, sent, missed>>

-----------------------------------------------------------------------------
(* Faults. *)

Reset ==
  /\ "reset" \in Faults
  /\ Write(EmptySnapshot)
  /\ UNCHANGED <<ran, hooks, serviceVars, turn, heard, sent, missed>>

\* What was pending in the tables is pending again, and no hook is called.  The
\* tasks that were running do not conclude any more.
Restart ==
  /\ "crash" \in Faults
  /\ mem' = rows
  /\ rows' = rows
  /\ ran' \in {ran \cup orphans : orphans \in SUBSET Tasks}
  /\ hooks' = {}
  /\ busy' = FALSE
  /\ ready' = FALSE
  /\ channel' = NoChannel
  /\ turn' = [u \in Turns |-> NoTurn]
  /\ heard' = [t \in Tasks |-> IF heard[t] = "now" THEN "before" ELSE heard[t]]
  /\ sent' = [t \in Tasks |-> IF sent[t] = "now" THEN "before" ELSE sent[t]]
  /\ missed' = rows.pending

-----------------------------------------------------------------------------

TurnStep(u) ==
  \/ MainReply(u)
  \/ ListPendingResultReports(u)
  \/ ListTaskArtifactDeliveries(u)
  \/ ResolveDefaultChannel(u)
  \/ \E t \in Tasks : DeliverTaskArtifact(u, t)
  \/ MarkArtifactDelivery(u)
  \/ SpeakReport(u)
  \/ MarkResultReported(u)
  \/ FinishVoiceTurn(u)

ReportNext ==
  \/ \E t \in Tasks : Conclude(t) \/ ConcludeIgnored(t)
  \/ \E t \in Tasks : TryDeliverTaskResultReports(t)
  \/ \E u \in Turns, c \in Channels : BeginVoiceTurn(u, c)
  \/ \E u \in Turns : TurnStep(u)
  \/ Reset
  \/ Restart

ReportSpec == ReportInit /\ [][ReportNext]_reportVars

\* The goroutines of turns and hooks run; every call a turn makes has a timeout.
\* Users need not speak, nor tasks conclude.
ReportFairness ==
  /\ \A u \in Turns : WF_reportVars(TurnStep(u))
  /\ \A t \in Tasks : WF_reportVars(TryDeliverTaskResultReports(t))

ReportFairSpec == ReportSpec /\ ReportFairness

-----------------------------------------------------------------------------
(* Properties. *)

ReportTypeOK ==
  /\ mem \in Snapshots
  /\ rows \in Snapshots
  /\ ran \subseteq Tasks
  /\ hooks \subseteq Tasks
  /\ busy \in BOOLEAN
  /\ ready \in BOOLEAN
  /\ channel \in Channels \cup {NoChannel}
  /\ turn \in [Turns -> TurnStates]
  /\ heard \in [Tasks -> Times]
  /\ sent \in [Tasks -> Times]
  /\ missed \subseteq Tasks

\* Everything that speaks is one single file: user turns, turns begun by a
\* hook and turns begun by the turn before never overlap, and busy is never
\* left on without a turn that will turn it off.
OneVoice ==
  /\ \A u, v \in Turns : ~Free(u) /\ ~Free(v) => u = v
  /\ busy <=> \E u \in Turns : ~Free(u)

\* No wake-up is lost: a pending report has a hook still to run, or the flag
\* is set, and then somebody is there to see it as soon as there is a channel,
\* or a turn has it, unless it was tried in vain before.
NoLostWakeUp ==
  /\ ready /\ HasChannel => busy
  /\ \A t \in mem.pending \ missed :
       \/ t \in hooks
       \/ ready
       \/ \E u \in Turns : At(u, "list") \/ t \in turn[u].items

\* A report is cleared, in memory and in the tables, only after the user has
\* heard it.
ClearedWasHeard ==
  \A snap \in {mem, rows} :
    \A t \in snap.done \ snap.pending : heard[t] # "never"

\* No result is told twice by one process, also when it could not be saved
\* that it was told.
NeverToldTwice ==
  [][\A u \in Turns :
       At(u, "speak") /\ At(u, "mark")' =>
         \A t \in turn[u].items : heard[t] # "now"]_reportVars

\* A sent artifact counts as delivered and is not sent again by the process;
\* one that counts as delivered was sent.
DeliveredOnce ==
  [][\A t \in Tasks, u \in Turns :
       /\ At(u, "send") /\ At(u, "delivered")' =>
            sent[turn'[u].now] # "now"
       /\ mem'.delivery[t] = "delivered" => sent[t] # "never"]_reportVars

\* docs/async-tasks.md, section 2.4.2: the artifacts of the reported tasks are
\* tried first, so that the report can say what became of them.
ArtifactsBeforeReport ==
  "resolve" \notin Faults =>
    \A u \in Turns :
      At(u, "speak") => \A t \in turn[u].items : mem.delivery[t] # "pending"

\* docs/async-tasks.md, section 2.4: a result that comes while the voice channel
\* is idle is reported, one that comes while it is busy is reported after the
\* turn; all of them, when no report fails.
PendingIsReported ==
  \A t \in Tasks :
    t \in mem.pending /\ HasChannel ~> t \notin mem.pending

=============================================================================
