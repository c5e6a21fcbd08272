# open-xiaoai-agent in TLA+

`open-xiaoai-agent` turns a XiaoAI speaker into a voice agent. The speaker sends
recognised texts over a WebSocket; a language model decides what each text asks
for; short things are answered at once, long ones become asynchronous tasks, most
of them runs of the Claude command line program. When a task has ended, its result
is told to the user by voice, its artifacts are sent over an IM channel, and a later
text can continue it. A dashboard shows everything and can reset everything.

This directory holds TLA+ models of the parts where order, failure and concurrency
decide whether that works, TLC runs that check them on small instances, and proofs
that TLAPS checks for all instances.

- [The system](#the-system)
- [Modules](#modules)
- [Runs](#runs)
- [Fairness](#fairness)
- [Theorems](#theorems)
- [Where code and documents differ](#where-code-and-documents-differ)
- [Plan](#plan)
- [What stays out](#what-stays-out)

## The system

All Go code is under `src/internal`, wired together by `src/main.go`. Every component
has its own mutex and its own tables; no lock spans two of them.

| component | state | operations | status |
|---|---|---|---|
| task manager (`tasks/manager.go`) | tasks, events, artifacts, deliveries in memory; cancel functions; the report hook | `Submit`, `runTask`, reporter calls, `CancelLatest`, `InterruptTask`, `MarkTaskSuperseded`, `MarkResultReported`, `MarkArtifactDelivery*`, `Reset` | modelled, except the order by `UpdatedAt` |
| task store (`tasks/store.go`) | MySQL tables | `Load`, `Save` (delete and insert all in one transaction), `Reset` | modelled as one transaction |
| artifact cache (`tasks/artifact_cache.go`) | files | `put`, `reset` | modelled as a set of files |
| continue task (`plugins/continuetask`) | none of its own | `runContinuation` | modelled |
| complex task, Claude runner (`plugins/complextask/runner.go`) | child processes | `Run`, `Resume`, `Interrupt`, `runCommand`, `HandleLine`, `importArtifacts` | modelled without texts and paths |
| Claude records (`plugins/complextask/state.go`) | status and session by task | `Start`, `MarkRunning`, `SetSession`, `Complete`, `Fail`, `Reset` | modelled without persistence |
| result reports (`assistant/service.go`) | `busy`, `resultReportReady`, `lastChannel` | report hook, report turns, artifact delivery before a report | modelled |
| voice turns (`assistant/service.go`) | the reply and what was said of it | `handleUserText`, `handleToolCall`, `handleAsyncTask`, `handleDemo` | modelled without texts |
| speculative reply (`assistant/speculative.go`) | deltas, one-slot notify channel | `append`, `finish`, `Play`, `Cancel` | modelled |
| voice channels (`voice/`) | the sentence buffer | `Push`, `Close`, `PreparePlayback`, `SpeakText` | modelled, sentences end anywhere |
| WebSocket (`server/server.go`, `session.go`) | pending calls, connection status | `call`, `onResponse`, connect, disconnect | modelled |
| conversation history (`assistant/history.go`) | session windows, queue of closed sessions, rows | `Snapshot`, `AppendTurn`, `SnapshotAll`, `PopExpiredSessions`, `Reset`, `load` | modelled |
| session expiry (`assistant/session_expiry.go`) | sessions whose summary failed | the loop, `processExpiredSessions` | modelled |
| file memory (`memory/filememory`) | memory files, update log | `UpdateFromSession`, `GetFile`, `SaveFile` | modelled |
| IM (`im/service.go`, `im/store.go`) | accounts, targets, mirror queue | login, targets, selection with seed, fallback and repair, delivery, mirror | modelled, except polling, events and error marks |
| settings (`settings/store.go`) | session window, delivery selection, memory directory | one update each | modelled beside their readers |
| dashboard (`dashboard/server.go`) | none | requests that change something; the rest reads | modelled beside the components they change |
| storage, logs, config, llm, amap, weather, instruction, registry, WeChat adapter, media cache, user interfaces | | | not modelled, see below |

How they interact:

- The assistant submits tasks to the manager; the manager runs each in a goroutine
  and calls the report hook, in another goroutine, when a result is ready.
- The hook is `TryDeliverTaskResultReports` of the assistant: it starts a report turn
  or leaves a flag for the end of the turn in progress.
- A report turn reads the manager, sends artifacts over IM, speaks, and writes to the
  manager, with no lock held in between.
- A continuation is itself a task; its run function interrupts another task, reads and
  changes it through the manager, and uses the Claude record of the other task.
- A user turn talks to the speaker through a channel, and the channel through calls over
  the WebSocket; the read loop of the connection delivers the answers, and starts turns.
- A turn that was played is stored in the history and mirrored over IM. The expiry loop
  hands sessions that have ended to the file memory.
- The dashboard's reset wipes the components one after the other.

What is hard, and what would make each part wrong:

- *Tasks.* A run returns while the task is cancelled, taken over or wiped. A save fails
  after the memory has changed. The process dies at any point. Correct means: an
  outcome never changes, what was told to a caller is durable, no run is out of reach of
  a cancel, every outcome leads to a call of the hook, listed artifacts have files.
- *Continuations.* Five locked sections and a child process, against the goroutine of
  the source, the user, other continuations and a reset. Correct means: a source
  has been stopped before its continuation runs, an interrupted source does not stay
  active, sessions survive, no wiped record comes back. (That a source has only one
  continuation at a time is not among these: the code does not see to it, see below.)
- *Reports.* Hooks, texts and ends of turns race for one voice. Correct means: turns
  never overlap, no wake-up is lost, nothing is cleared unheard, nothing is told or sent
  twice, artifacts go first, and what is pending is reported in the end.
- *Voice turns.* A reply passes from a model through a goroutine, a one-slot signal, a
  sentence buffer and calls with timeouts over a connection that may be gone. Correct
  means: it is said in order, once, and completely before it is stored; answers reach
  their calls; nothing makes the turn or the read loop wait for ever.
- *History and memory.* Windows expire by wall clock while turns are stored under the
  time they began; the queue of ended sessions is in memory only; summaries fail and are
  retried; the memory file is rewritten from an old copy without a lock. Correct means:
  a turn is in one session, a session is summarised once and in order, nothing but a
  crash or a reset forgets, overwritten texts are in the log.
- *IM.* Every operation is several transactions in two stores. Correct means: the tables
  keep their order, deliveries never cross accounts whatever the settings hold, a mirror
  that is on has its target and moves only when the user moves it.

`PROJECT.json` lists these hazards one by one under `hazards`, with the line where each
bites and the properties about it.

## Modules

### TaskLifecycle

The promise of the manager: a task is accepted, begins, ends once or is taken over; each
outcome is owed to the user until it is reported; a crash goes back to what was saved.
No goroutines, no contexts, no failing calls.

### TaskManager

| variable | in the code |
|---|---|
| `mem` | `Manager.state`: state and pending flag of the tasks, status of the delivery records |
| `db` | the same as last committed by `store.Save` |
| `pc` | the place of `runTask` between two locked sections |
| `ctxDone`, `cancels` | contexts that are cancelled; keys of `Manager.cancels` |
| `notified`, `cancelNotify` | calls of the hook made, or still owed by `CancelLatest` |
| `staged`, `files` | artifacts written and not registered; files in the cache |
| `told` | what the caller of `Submit` or `CancelLatest` was told (history variable) |

An action is one locked section (`Submit`, `StartTask`, `RecordFailure`,
`RecordCompletion`, `ClearCancel`, `CancelLatest`, `MarkTaskSuperseded`, ...) or a step
between two (`RunFails`, `StageArtifact`, `CancelNotifies`, `NotifyResultReportReady`).
The memory changes first, then everything is saved; if the save fails the change stays
in memory, exactly as `updateState` leaves it. `Restart` loads the rows; goroutines,
cancel functions and hook calls are gone, IDs and files are not. `Faults` says which
disturbances a run contains.

Abstractions: texts and events are left out; `CancelLatest` may cancel any active task,
because each reporter call of a task makes it the latest; an artifact ID is used for one
task.

### ContinueTask

Extends TaskManager with what the run functions do while a task is `executing`. `stage`
is the next call into the manager, the Claude store or the process; `claude` is
`Store.state`, `proc` the child process, `source` the parent of a task. The process of
`exec.CommandContext` is external: it ends by itself, or is killed some time after its
context was cancelled; both are steps of their own. `handleReset` is two steps,
`ResetTasks` and `ResetClaude`. `EarlyContinuation` says whether a continuation may be
submitted before its source has a session; `Users` says whether users cancel and hear
reports.

### ResultReport

| variable | in the code |
|---|---|
| `busy`, `ready`, `channel` | `busy`, `resultReportReady`, `lastChannel` of `Service`, under `runtimeMu` |
| `turn` | the goroutines of turns: the place between two calls, and what was read |
| `hooks` | calls of `TryDeliverTaskResultReports` that have not run yet |
| `mem`, `rows`, `ran` | the manager, reduced to what reports read and write |
| `heard`, `sent` | what the user and the IM channel got, and by which process (history) |
| `missed` | reports that were tried in vain, passed over by the limit, or found after a restart (history) |

It relies on the promise proved of TaskManager: a task that concludes has a pending
report and leads to a call of the hook. `ListPendingResultReports` returns the most
recently updated tasks; the model takes any set of the right size.

### SpeakerSession

| variable | in the code |
|---|---|
| `conn`, `active` | the WebSocket connections; `ConnectionStatus.ActiveSessions` |
| `requestSeq` | the counter of request ids, shared by all sessions |
| `pending`, `buffer` | `Session.pending`, and what the one-slot channel of each call holds |
| `reader` | the answer that the read loop has looked up under `pendingMu` and not yet sent |
| `wire` | the requests the speaker has got and may answer (external) |
| `call` | where the call of each caller is |

The look-up and the send of `onResponse` are two actions, because the lock is released
between them; a timeout may come in between. Registering a channel and writing the
request are one action: nobody else knows the id before it is written.

### VoiceTurn

Extends SpeakerSession with one turn at a time (that it is one is `OneVoice` of
ResultReport; a report that was asked for meanwhile may take the voice over from a turn
without giving it back, as `finishVoiceTurn` does): `turn.at` is the place between two calls, `reply` is `replyText`, `player`
the buffer of `StreamSpeaker`, `spec` the `speculativeReply` with its goroutine, `heard`
what the channel has confirmed (history). A delta is its number, so that order, loss and
repetition can be told apart. `nextBoundary` may cut anywhere; which punctuation ends a
sentence is left out. The two settings `AbortAfterASR` and `UseParallelIntentChat` are
chosen at the start. `should_abort` of the intent is always true in `llm/intent.go` and
in every branch of `handleUserText`, so a turn interrupts the speaker unless that was
done before.

### SessionHistory

| variable | in the code |
|---|---|
| `entries`, `closed` | `historyStore.entries` and `.closed` |
| `rows` | the conversation tables as last committed |
| `window`, `now` | `Settings.SessionWindow`, the clock |
| `turn` | a turn between its `Snapshot` and its `AppendTurn` |
| `todo`, `failed` | what `processExpiredSessions` has still to hand over, and its `nextPending` |
| `handed`, `twice`, `retried`, `widened` | history variables |

Every locked section prunes first. `Sweep(at)` takes any earlier time, because a tick
waits in the ticker's channel while summaries are made. A user turn is stored under the
time it began, which may be earlier than the last pruning. A message is a turn number
with the time its session was touched.

### MemoryFile

Extends SessionHistory with the default memory. Two writers, the expiry loop and the
dashboard, each read, truncate, write and log in separate steps, because no lock
protects the file. A text is the set of what it tells; the model may keep or drop any of
it, and so may the user on the page. A directory may hold files of an earlier time
(`OldDirs`), whose text no log has. A write that fails for want of space leaves part of its
text; one whose process dies leaves the file empty or complete, as it is one system call.
The storage directory may change
at any time; a writer keeps the path it has begun with. `HandOver` of SessionHistory is
the return of `UpdateFromSession`, so every step of MemoryFile is one of SessionHistory
or leaves its variables alone.

### IMDelivery

| variable | in the code |
|---|---|
| `accounts`, `targets`, `lastID` | the tables; the IDs `nextID` has made |
| `selection` | the delivery settings |
| `queue` | `Service.deliveries`: selections as they were when the text was mirrored |
| `calls` | where each request and the mirror loop is |
| `unrepaired` | a crash or a failed save has kept the selection from being repaired, or it was stored after its target had gone (history) |

One writing transaction or settings call is one action. A check reads an account and then
a target, the fallback both lists; each of these pairs is one action, which writes nothing.
A selection that is switched off is stored unchecked (`BeginDisable`), so it may pair an
account with any target that was ever there; a delivery takes a copy of it (`BeginSend`)
and checks it later (`CheckSelection`, `Resolve`). `Requests` are the goroutines that serve
the dashboard, which change the tables and send test messages, and those of the assistant
that send artifacts: what one of them may do another may do too. The scans that wait for
a confirmation are left open: any account may be confirmed at any time. Sending has no effect on this
state; it is kept as a step because the tables may change before it.

### Proof modules

`TaskManagerProofs`, `ContinueTaskProofs`, `ResultReportProofs`, `SpeakerSessionProofs`,
`VoiceTurnProofs`, `SessionHistoryProofs`, `MemoryFileProofs` and `IMDeliveryProofs` extend
the modules they are about; where a module extends another, so do the proofs
(`ContinueTaskProofs` those of the manager, `MemoryFileProofs` those of the history,
`VoiceTurnProofs` those of the link). `MC*.tla` give the constants values for TLC.

## Runs

| run | instance | shows |
|---|---|---|
| `tasks_faults` | 2 tasks, 1 artifact, every fault | outcomes are final; rows lag and never contradict; told is durable; the cancel table is exact; TaskLifecycle is implemented |
| `continue_reset` | 2 tasks, 1 artifact, resets, cancels, reports, early continuations | Claude only for running tasks; no wiped record comes back; files of listed artifacts; every pending report is announced |
| `continue_chain` | 3 tasks, one root, cancels | the run of a source is stopped before that of each continuation, and none of its processes is left running unwatched, for chains of three and for two competing continuations; interrupted sources are taken over; sessions are kept |
| `continue_live` | 2 tasks, fairness | no task stays active |
| `report_faults` | 2 tasks with artifacts, limit 1, failing speech and saves, crashes, resets | one voice, no lost wake-up, nothing cleared unheard, told or sent twice, artifacts first |
| `report_live` | 3 tasks, limit 3, fairness | every pending result is reported |
| `sessions` | 1 key, windows 1 and 3, 4 time steps, 3 turns, every fault | a turn in one session, a session is one talk, summarised once and in order until the window is widened, forgotten only by crash or reset |
| `memory` | 1 turn, 1 save, 2 directories, one with an older file, failing disk, log and model, crashes, resets, fairness | overwritten texts are in the log; what waits for its summary does not wait for ever |
| `im` | 2 requests and the mirror loop, two of the three under way at once, 1 login with 2 users, 2 account and 2 target IDs, every fault | tables in order, though a login reads the default long before it uses the answer; no delivery crosses accounts, whatever a disabled selection pairs; a mirror that is on stays with its target and has it, unless a repair failed or its update was overtaken by a deletion |
| `voice` | 1 connection and the dashboard, 2 turns, 2 deltas, 7 calls, every fault, fairness | answers reach their calls, the read loop moves, replies are said in order and stored when heard, turns end |
| `continue_early`, `report_limit` | as small as the case allows | a disagreement with a document each, see below |

Why the bounds are enough to be of interest. The actions of the manager involve one task,
or all; two tasks are enough for the pairs that interfere (a save of one commits an
earlier failed save of the other; one task's context, another's cancel). A third task is
needed where a source has two continuations, or a chain has a middle: that is
`continue_chain`, with one root at a time (`MCOneRoot`), because two unrelated chains
share nothing but the Claude store, which treats tasks separately. A report with limit 1
and two tasks leaves one for the next turn, the smallest case in which the flag matters;
three tasks at the code's own limit fill one report and four overflow it. Two turns are
one more than `OneVoice` lets exist. Three turns and four steps of time make two sessions,
the later of which can be open, queued or retried while the earlier one is summarised. The
two windows let a setting change rescue or split a session; they are 1 and 3, because the
longer one must outlast the shorter by more than a step: with 1 and 2 no row is old enough
for the order of summaries to go wrong after a widening and a restart, and the run once
missed that (see `SummariesInOrder` below). One turn, summarised again after each failure,
and one save are a summary and a save that overwrite each other; what several sessions do
in the queue, and what happens when their rows are not saved, is checked in `sessions`.
Two requests need two targets in one account to disagree about the default; two accounts
come from one login, because an account that was deleted and is logged in again gets a new
ID, while the targets, queued texts, calls and selections of the old one may still be
around. That is how `im` gets pairs across accounts. It lets any two of its three callers
overlap (`MCTwoAtOnce`); with all three at once TLC finds the properties to hold as well,
in nine million states, and the proofs cover any number of callers. The two requests are
exchangeable (`MCSymmetry`): nothing in the module tells them apart, and the run has no
liveness property. Two voice turns with a reply of two deltas let an answer to the first
turn's call come in the second, and let the player run ahead of the goroutine that appends
and behind it; the second connection that TLC cannot reach in time is covered by the
proofs, and so are more requests and larger tables in IMDelivery. Seven calls are the two
interruptions and the sentences of these replies and reports, with one to spare. IDs and
turn numbers are never reused, so every run is finite without further bounds. Where a run
has no `CHECK_DEADLOCK FALSE` the system can always go on (a reset, a crash, another
text); the others stop when their bounds are used up or all tasks have ended.

`LaunchesOnlyRunning` and `ResetBlocksStaleUpdates` are checked with early continuations
and resets because these are the ways a task can lose its right to run while its
records are being written.

## Fairness

- `ContinueTask`: every step of a run function and of its goroutine, the end of a process,
  and the end of its output (strong fairness: a process does not print for ever). Users
  need not do anything.
- `ResultReport`: turns and hooks run; every call a turn makes has a timeout in the code
  (2 minutes for the model, 30 seconds for a sentence, 45 for an artifact). Nobody need
  speak, and no task need conclude.
- `MemoryFile`: the expiry loop goes on, and from some time on the model, the disk and
  the log do not fail; before that they may, as often as they like.
- `VoiceTurn`: the goroutines of the turn and of the speculative reply run, and a call
  returns, by its answer or its timeout. The speaker need not answer or stay connected.

Nothing is assumed about which of several waiting goroutines gets a lock.

## Theorems

TLAPS checks them without bounds: any sets of tasks, artifacts and turns, any limit, any
choice of `Faults`. The only assumptions are the named `ASSUME`s of the modules: owners
of artifacts are tasks, the limit is a positive number, faults are among those listed,
the keys of the history are finitely many (as those of a Go map), a memory that can fail to
read or write makes summaries fail, and the value that stands for "no source" is no task.
Every invariant and action property that a passing run checks is also a theorem; what a
theorem needs beyond the assumptions is in its `ASSUME ... PROVE` and said below.

`TaskManagerProofs`. `Inv` is `TypeOK` with `PendingHasOutcome`, `DatabaseLagsMemory`,
`ToldIsDurable` and `CancelTableExact`, strengthened by what makes them inductive:

- `FreshTasks`: an ID that was not handed out has left no trace, so `Submit` cannot bring
  an old row back to life;
- `RunMatchesState`: while a goroutine executes, its task is running, or was cancelled,
  taken over or wiped, so its result never meets an outcome of another run;
- `ToldIsRemembered`: what was told holds in memory, so that any later save keeps it.

From it follow the four properties, `OutcomeIsFinal`, `NoLateArtifacts`, and
`ImplementsLifecycle`, where each action is matched with one of TaskLifecycle or a
stutter. `ArtifactsHaveFiles` needs a second invariant about staged files, and the
assumption that neither saves nor the disk fail (why is said below).
`PendingIsAnnounced` is inductive with the types, as long as saves succeed and the process
lives; a failed save, or a crash between the commit and the call, loses the hook.

`ContinueTaskProofs`. Every step of the run functions is one of TaskManager or leaves it
alone (`ContinueImplementsManager`), so all of the above holds with continuations, and
`ContinuationsKeepReportsAndFiles` needs no hypothesis on the faults any more.
`ContinueInv` adds what the module is about, who was told to stop when:

- `EndedIsStopped`: a task that is no longer active has no run, or one whose context is
  cancelled. Each way to end a task must see to it: `CancelLatest` and `Reset` because the
  table of cancel functions is exact, a completion because it is the end of the run, and
  `MarkTaskSuperseded`, which stops nothing, because of the next part;
- `SourceIsStopped`: from `probe` on, the source of a continuation is stopped. A source
  found completed is stopped by the part before; one found active by `InterruptTask`, for
  which the table is exact;
- `SourcesWereFirst` and `StagedAtImport`: a source was submitted before its continuation
  and is never exchanged; a run has one artifact in hand, and only while it imports.

`LaunchesOnlyRunning` follows, because a run that is not stopped belongs to an active task,
and one that executes to no accepted one. `ResetBlocksStaleUpdates` needs only that writes
after `Start` go to existing records. `SourceStopsFirst` also speaks of the process a source
has left behind, and `ProcInv` adds what that needs, at the point where a continuation
turns to it:

- `CompletedHasReturned` and `ProcMatchesStage`: a completed task has returned from its
  run function, which it does after its process has exited;
- `GoneIsEnded`: a goroutine that ends leaves its task active only when it was interrupted.
  So `InterruptTask` on an active task that is no longer in the table of cancel functions
  finds its context cancelled, never a run that ended by itself with a process alive;
- `SourceIsQuiet`: from then on the source has neither a run nor a process that is not
  about to be stopped, as long as it is active, and for good once it was marked or found
  completed. A source that failed is the exception: its process may go on for a while after
  an unreadable line (`BadLine`), and it is not resumed.

All this is with resets, cancels and early continuations. `StoppedIsTakenOver` and
`SessionIsKept` are proved without resets and early continuations (`continue_early` and the
reset between two wipes, below, are the counterexamples). `SessionsInv` relates the two
stores, which share no lock: the Claude record keeps up with the stage of the run
(`RecordMatchesStage`), a source has a session from the day it got a continuation
(`SourcesHaveSessions`), and only sources are superseded (`SupersededIsSource`). It is what
lets an interrupting continuation never fail between `interrupt` and `supersede`.

`ResultReportProofs`. `Inv` adds to the properties, for each turn, what it may still
assume of what it has read (`TurnInv`: what it is about to tell was not told, what it
has to send was not sent, what it leaves behind was missed) and, for each task, who is
responsible for clearing its report and marking its artifact (`TaskInv`: whatever was
heard and is still pending is about to be cleared by a turn at `mark`). `OneVoice` makes
these stable: nobody else reports between two calls of a turn. All safety properties
of the module follow.

`SpeakerSessionProofs`. `LinkInv` is the types and the two properties with

- `SameCall`: wherever a request id is (pending, with the read loop, in a channel, at the
  speaker), it was made by one call, whose number the channel has, too;
- `OnePlace`: what can still reach a channel is in one place, an entry that is pending,
  an answer the read loop holds or one that is in the channel, so the send finds room.

This holds for any number of connections, also with callers that have gone and answers
that come late or twice. `CountsPending`, ids taken from the number of pending calls,
is the mutant that breaks it.

`VoiceTurnProofs`. Every step of a turn is a step of SpeakerSession or leaves it alone
(`TurnsUseTheLink`), so `LinkInv` carries over. `TurnInv` relates, at each place of the
turn: what was heard, the chunk being said and the player's buffer to the reply
(`Spoken`); the reply to the counting sequence the model sends (`Counting`); the reply to
the deltas that the speculative reply has given out (`PlayKeepsUp`); and it says that the
buffer is empty once the player is closed (`PlayerEmpty`) and that a speculative reply
was complete by then (`AllPlayed`). Type correctness, `SaidInOrder`, `StoredWasHeard`,
`AnswerOfItsCall` and `ReadLoopMoves` follow, for any number of connections, turns and
deltas.

`SessionHistoryProofs`. A session moves from the windows to the queue, the list of a sweep,
the retries, and to the memory, while rows lag behind and may be loaded again.
`SessionInv` says of every session, wherever it is, also in the rows, that it is one talk,
was touched when its last turn was stored, and has turns that were stored (`Fine`); that
the sessions of memory and loop are apart (`Apart`), and the rows among themselves
(`KeysApart`). This gives `EveryTurnInOneSession` and `NoGapInSession`. As long as the window
was not widened it says more (`WhileNotWidened`): what waits or was summarised is out of the
window (`TooOld`), a row that shares a turn with it is not younger (`RowsLag`) and is
therefore dropped when it is loaded, so nothing is summarised twice (`SummarisedApart`), and
the sessions of a key are in order at each place and between places (`InOrder`), but for
those that were retried. `SummarisedOnce`, `SummariesInOrder` and `OnlyCrashOrResetForgets`
follow, for any number of keys, turns and windows.

`MemoryFileProofs`. Every step of MemoryFile is one of SessionHistory or leaves it alone
(`MemoryImplementsSession`), since the expiry loop stays at its session while the summary is
made (`LoopWaits`). `LostTextIsInLog` rests on `TextsRecorded`: whatever a file tells is in the
log, about to be logged by the writer that wrote it, or its record was lost with a crash or
a failing log; and no step takes anything out of these three.

`IMDeliveryProofs`. A target never changes its account, and its ID is handed out once
(`Keeps`); therefore it is enough that a selection that is on, a queued text and a call
that is about to save or send (`Aims`) got their target together with its account
(`CarriesOwn`), which each gets from a check or from the tables, and that the ID is not
still to come (`KnownTargets`). With the order of the tables and the types of the calls
this is `IMInv`, for any number of concurrent requests. `MirrorStays` needs no invariant.
`MirrorIsServed` adds `MirrorInv`: a mirror without a target has a request that will repair
it (`Pending`), or one that has failed at it or was overtaken (`unrepaired`), also for any
number of requests.

Only model-checked: the liveness properties (`NeverStuck`, `PendingIsReported`,
`EndedIsSummarised`, `TurnEnds`), because fairness and `ENABLED` are out of the prover's
reach. `TypeOK`, `PendingHasOutcome`, `NoLateArtifacts`, `ReportTypeOK`, `SessionTypeOK`
(part of `MemoryTypeOK`) and `LoopWaits` are proved and are in no run of their own.

## Where code and documents differ

Two runs end with the counterexample; `PROJECT.json` quotes the lines.

- `continue_early`: continuing a task that has no Claude session yet interrupts it first
  and fails then; the source stays active with no run.
- `report_limit`: four results that come during one turn lead to one report of three; the
  fourth waits for an unrelated event.

Others were met on the way and have no run of their own; each appears as soon as the
named property or constant is put into the configuration:

- *An artifact without a file.* `ArtifactsHaveFiles` with the fault `"save"`: the save
  that registers an artifact fails, `putArtifact` removes the file and leaves the two
  records in memory, and the next save commits them (`tasks/manager.go:1226`).
- *Two processes on one session.* `OneProcessPerSession` in `MCContinueTask_reset.cfg`:
  `claude --resume` starts before the interrupted process is gone
  (`plugins/complextask/runner.go:89`); `docs/async-tasks.md:462` stops the old one first.
  What does hold is the second half of `SourceStopsFirst`: the context of the old process is
  cancelled by then, so that the two overlap only until its watcher has killed it.
- *A cancelled task is resumed.* `ResumesOnlyContinuable`: a source that the user cancels
  after the second look is resumed all the same, because the answer of
  `MarkTaskSuperseded` is not used (`plugins/continuetask/plugin.go:200`).
- *Two continuations of one source.* `OneContinuation` in `MCContinueTask_chain.cfg`: two
  continuations find the same source completed, or both find it active and only one of them
  marks it superseded; both resume its session (`plugins/continuetask/plugin.go:188`).
  Nothing serialises them, and no document says which should win; `SourceStopsFirst`
  relates the source to each of them, and says nothing of the two.
- *A hook that is not called.* `PendingIsAnnounced` with the fault `"save"`:
  `CancelLatest` returns its error with the report pending (`tasks/manager.go:224`).
- *A reset between the two wipes.* `NeverStuck` with the fault `"reset"`: a task submitted
  after the task tables were wiped and before the Claude records were keeps its row and
  loses its record; a continuation interrupts it and gives up (`dashboard/server.go:981`).
- *A mirror without a target.* An update checks its target, another request deletes it and
  finds nothing to repair, and the update switches the mirror on (`im/service.go:269`).
  `MirrorHasTarget` exempts exactly the selections that are stored in this way, with the
  history `unrepaired`; without this exemption (`unrepaired' = FALSE` in
  `UpdateIMDelivery`) `im` finds the counterexample. In the same way
  `SetDefaultTarget` can leave an account without a default, and an upsert can create a
  target of an account that has just been deleted.
- *A selection across accounts.* `UpdateDeliveryConfig` checks nothing when the mirror is
  switched off (`im/service.go:247`), and the settings page can send the first account with
  another account's target: the stored selection then pairs the two.
  `NeverCrossesAccounts` says that no delivery follows it.
- *A widened window.* `SummarisedOnce` and `SummariesInOrder` without `widened`: a session
  expires and is summarised, the save that would have removed its row fails, the window is
  widened, and the next start loads the row as an open session. It takes new turns, is
  summarised again, or after a later talk (`assistant/history.go:298`, where the error of the
  save is only logged).
- *Wiped talks are remembered.* `Reset` of the history leaves the queue of closed sessions
  and the retries alone, so what the user has wiped can still be summarised into the
  memory file (`assistant/history.go:154`); no document says which is meant. The
  properties of `sessions` say that it is at least kept apart from later talks.

## Plan

Done: TaskLifecycle, TaskManager, ContinueTask, ResultReport, SessionHistory, MemoryFile,
IMDelivery, SpeakerSession, VoiceTurn, each with its proofs. Next, in this order:

1. The refinement of ResultReport: an abstract ledger of results (owed, told, settled) that
   ResultReport implements, as TaskManager implements TaskLifecycle; and that its reduced
   manager (`mem`, `ran`) is one that TaskManager implements.
2. `TaskChain`: the order by `UpdatedAt` and the candidate of each chain, as pure functions
   over small task lists against a reference definition.
3. `DashboardReset`: the composition of the resets of tasks, Claude records, conversations
   and IM with work in progress.

## What stays out

- Clients of external services (language models, maps, WeChat): what they return is a
  nondeterministic choice where a model needs it.
- Which QR scans wait for a confirmation (`pendingLogins`), IM events and the last-error
  marks of accounts: nothing in the rest of the program reads them to decide.
- SQL, HTTP handlers that only read, schema setup, configuration: no order to get wrong.
- Logs: nothing depends on them.
- Texts: prompts, summaries, sentence splitting, the instruction parser, generated tables
  and the browser code.
