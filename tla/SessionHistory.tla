--------------------------- MODULE SessionHistory ---------------------------
(***************************************************************************)
(* The session windows of the assistant (assistant/history.go), the loop   *)
(* that hands finished sessions to the long-term memory                    *)
(* (assistant/session_expiry.go), and the voice turns, dashboard requests, *)
(* failures and restarts they meet.  A locked section of historyStore is   *)
(* one action.  A message is a turn number with the time its session was   *)
(* touched; texts are left out.                                            *)
(***************************************************************************)
EXTENDS Naturals, Sequences, FiniteSets, Functions

CONSTANTS
  Keys,      \* history keys; the program uses one, MainVoiceHistoryKey
  Windows,   \* session windows the settings may hold
  MaxTime,   \* bound of the clock
  MaxTurns,  \* bound of the number of voice turns
  Faults     \* which of "save", "summary", "crash", "reset" may happen

ASSUME KeysAssumption == IsFiniteSet(Keys)
ASSUME WindowsAssumption == Windows \subseteq Nat \ {0} /\ Windows # {}
ASSUME BoundsAssumption == MaxTime \in Nat /\ MaxTurns \in Nat
ASSUME FaultsAssumption ==
  Faults \subseteq {"save", "summary", "crash", "reset"}

VARIABLES
  now,      \* the clock
  window,   \* Settings.SessionWindow
  entries,  \* historyStore.entries: the open session of each key
  closed,   \* historyStore.closed; it is sorted when it is read
  rows,     \* conversations and conversation_messages as last committed
  turn,     \* the voice turn in progress: there is at most one (OneVoice)
  turns,    \* how many turns have begun
  todo,     \* the sessions processExpiredSessions has still to hand over
  failed,   \* its nextPending; between two sweeps, the pending of the loop
  handed,   \* history: the sessions that were summarised
  twice,    \* history: the turns that were summarised more than once
  retried,  \* history: the sessions whose summary has failed before
  widened   \* history: the window was enlarged at some time

historyVars == <<entries, closed, rows>>
loopVars    == <<todo, failed, handed, twice, retried>>
sessionVars == <<now, window, entries, closed, rows, turn, turns, todo, failed,
                 handed, twice, retried, widened>>

Turns    == [id : 1..MaxTurns, at : 0..MaxTime]
Sessions == [key : Keys, last : 0..MaxTime, turns : SUBSET Turns]

NoSession == [last |-> 0, turns |-> "none"]
NoTurn    == [kind |-> "none"]

IsOpen(e)   == e # NoSession
EmptyStore  == [k \in Keys |-> NoSession]

\* conversationHistory, and the snapshot of it that is queued.
NewSession(k, at) == [key |-> k, last |-> at, turns |-> {}]

SaveOutcomes == IF "save" \in Faults THEN BOOLEAN ELSE {TRUE}

\* saveLocked: all open sessions in one transaction; a failure is only logged.
Save(changed) ==
  rows' \in IF ~changed THEN {rows}
            ELSE {IF ok THEN entries' ELSE rows : ok \in SaveOutcomes}

Init ==
  /\ now = 0
  /\ window \in Windows
  /\ entries = EmptyStore
  /\ closed = {}
  /\ rows = EmptyStore
  /\ turn = NoTurn
  /\ turns = 0
  /\ todo = << >>
  /\ failed = << >>
  /\ handed = {}
  /\ twice = {}
  /\ retried = {}
  /\ widened = FALSE

OpenSessions    == {entries[k] : k \in {k \in Keys : IsOpen(entries[k])}}
WaitingSessions == closed \cup Range(todo) \cup Range(failed)

TurnsOf(S) == UNION {s.turns : s \in S}

-----------------------------------------------------------------------------
(* pruneExpiredLocked and ensureEntryLocked, called with the mutex held.   *)

\* Mutant: a session may be idle for twice the window.
LateExpired(e, at) == IsOpen(e) /\ at > e.last + 2 * window
Expired(e, at) == IsOpen(e) /\ at > e.last + window

Pruned(at) == [k \in Keys |-> IF Expired(entries[k], at) THEN NoSession
                                                         ELSE entries[k]]

\* Mutant: expired sessions are dropped without being queued.
NeverEnqueued(at) == {}
Enqueued(at) == {entries[k] : k \in {k \in Keys : Expired(entries[k], at)}}

\* The session of a key after pruning.  The second look of ensureEntryLocked
\* at the window finds nothing, because both use the same time.
Ensured(k, at) == IF IsOpen(Pruned(at)[k]) THEN Pruned(at)[k]
                                           ELSE NewSession(k, at)

\* Every locked section begins with pruning; `new` is what it leaves.
PruneThen(at, new) ==
  /\ entries' = new
  /\ closed' = closed \cup Enqueued(at)
  /\ Save(new # entries)

-----------------------------------------------------------------------------
(* Voice turns.                                                            *)

\* Snapshot, at the beginning of a user turn and of a report: the session is
\* opened when there is none, but not touched.
BeginTurn(k, kind) ==
  /\ turn = NoTurn
  /\ turns < MaxTurns
  /\ turns' = turns + 1
  /\ PruneThen(now, [Pruned(now) EXCEPT ![k] = Ensured(k, now)])
  /\ turn' = [kind |-> kind, key |-> k, at |-> now]
  /\ UNCHANGED <<now, window, widened, loopVars>>

\* AppendTurn.  A user turn passes the time at which it began, a report and
\* the demo texts the current time.
TurnTime == IF turn.kind = "user" THEN turn.at ELSE now

StoreTurn ==
  /\ turn # NoTurn
  /\ LET at == TurnTime
         e  == Ensured(turn.key, at)
     IN  PruneThen(at, [Pruned(at) EXCEPT ![turn.key] =
                          [e EXCEPT !.last = at,
                                    !.turns = @ \cup {[id |-> turns, at |-> at]}]])
  /\ turn' = NoTurn
  /\ UNCHANGED <<now, window, turns, widened, loopVars>>

\* A turn that fails before its reply was played stores nothing.
DropTurn ==
  /\ turn # NoTurn
  /\ turn' = NoTurn
  /\ UNCHANGED <<now, window, turns, widened, historyVars, loopVars>>

-----------------------------------------------------------------------------
(* The loop of runSessionExpiryLoop.                                       *)

\* Mutant: the queue is handed over in any order.
Unsorted(S) ==
  {s \in [1..Cardinality(S) -> S] : \A i, j \in DOMAIN s : i < j => s[i] # s[j]}
\* sort.Slice by LastActive; the order of equal times is not determined.
SortedByLastActive(S) ==
  {s \in [1..Cardinality(S) -> S] :
     \A i, j \in DOMAIN s : i < j => s[i] # s[j] /\ s[i].last <= s[j].last}

\* Mutant: the queue is copied, and not emptied.
KeepQueue == closed \cup Enqueued(now)
EmptyQueue == {}

\* A tick of the loop: PopExpiredSessions, whose answer is appended to what
\* failed before.  The tick carries the time at which it was put into the
\* ticker's channel, where it waits while summaries are made.
Sweep(at) ==
  /\ todo = << >>
  /\ entries' = Pruned(at)
  /\ Save(entries' # entries)
  /\ closed' = EmptyQueue
  /\ todo' \in {failed \o s : s \in SortedByLastActive(closed \cup Enqueued(at))}
  /\ failed' = << >>
  /\ UNCHANGED <<now, window, turn, turns, handed, twice, retried, widened>>

\* updateMemoryFromExpiredSession passes over a session without messages.
SkipEmpty ==
  /\ todo # << >>
  /\ Head(todo).turns = {}
  /\ todo' = Tail(todo)
  /\ UNCHANGED <<now, window, turn, turns, failed, handed, twice, retried, widened,
                 historyVars>>

\* Mutant: a session is kept for the next sweep whatever became of it.
RetriesAll(ok) == Append(failed, Head(todo))
NextPending(ok) == IF ok THEN failed ELSE Append(failed, Head(todo))

\* UpdateFromSession has returned, without or with an error.
HandOver(ok) ==
  /\ todo # << >>
  /\ Head(todo).turns # {}
  /\ todo' = Tail(todo)
  /\ failed' = NextPending(ok)
  /\ handed' = IF ok THEN handed \cup {Head(todo)} ELSE handed
  /\ twice' = IF ok THEN twice \cup (Head(todo).turns \cap TurnsOf(handed)) ELSE twice
  /\ retried' = IF ok THEN retried ELSE retried \cup {Head(todo)}
  /\ UNCHANGED <<now, window, turn, turns, widened, historyVars>>

-----------------------------------------------------------------------------
(* The dashboard, the clock, and the end of the process.                   *)

\* SnapshotAll prunes, too.
SnapshotAll ==
  /\ PruneThen(now, Pruned(now))
  /\ UNCHANGED <<now, window, turn, turns, widened, loopVars>>

\* UpdateSessionWindowSeconds; the bounds it tests are those of Windows.
SetWindow(w) ==
  /\ w # window
  /\ window' = w
  /\ widened' = (widened \/ w > window)
  /\ UNCHANGED <<now, turn, turns, historyVars, loopVars>>

\* ResetConversationData: the windows and their rows, but neither the queue nor
\* the list of the loop.  The memory is empty even if the transaction fails.
Reset ==
  /\ "reset" \in Faults
  /\ entries' = EmptyStore
  /\ rows' \in {IF ok THEN EmptyStore ELSE rows : ok \in SaveOutcomes}
  /\ UNCHANGED <<now, window, closed, turn, turns, widened, loopVars>>

Tick ==
  /\ now < MaxTime
  /\ now' = now + 1
  /\ UNCHANGED <<window, turn, turns, widened, historyVars, loopVars>>

\* Mutant: load takes every row.
LoadsAnything(e) == IsOpen(e)
LoadsRow(e) == IsOpen(e) /\ ~Expired(e, now)

\* The process dies and newHistoryStore loads the rows that are not too old;
\* the others stay in the tables until the next save.
Restart ==
  /\ "crash" \in Faults
  /\ entries' = [k \in Keys |-> IF LoadsRow(rows[k]) THEN rows[k] ELSE NoSession]
  /\ closed' = {}
  /\ turn' = NoTurn
  /\ todo' = << >>
  /\ failed' = << >>
  /\ UNCHANGED <<now, window, rows, turns, handed, twice, retried, widened>>

-----------------------------------------------------------------------------
VoiceStep ==
  \/ \E k \in Keys, kind \in {"user", "report"} : BeginTurn(k, kind)
  \/ StoreTurn
  \/ DropTurn

Environment ==
  \/ SnapshotAll
  \/ \E w \in Windows : SetWindow(w)
  \/ Reset
  \/ Tick
  \/ Restart

SessionNext ==
  \/ VoiceStep
  \/ Environment
  \/ \E at \in 0..now : Sweep(at)
  \/ SkipEmpty
  \/ HandOver(TRUE)
  \/ "summary" \in Faults /\ HandOver(FALSE)

SessionSpec == Init /\ [][SessionNext]_sessionVars

-----------------------------------------------------------------------------
(* Properties. *)

\* The types of the variables: the sessions are stored under their own key.
SessionTypeOK ==
  /\ now \in 0..MaxTime
  /\ window \in Windows
  /\ \A k \in Keys : \A e \in {entries[k], rows[k]} :
       e = NoSession \/ (e \in Sessions /\ e.key = k)
  /\ closed \subseteq Sessions
  /\ turn \in {NoTurn} \cup [kind : {"user", "report"}, key : Keys,
                             at : 0..MaxTime]
  /\ turns \in 0..MaxTurns
  /\ todo \in Seq(Sessions)
  /\ failed \in Seq(Sessions)
  /\ handed \subseteq Sessions
  /\ twice \subseteq Turns
  /\ retried \subseteq Sessions
  /\ widened \in BOOLEAN

\* Whatever is pruned, rotated, popped, retried or loaded again: a turn is in
\* one session only, and that session is open or waits in one place, once.
EveryTurnInOneSession ==
  /\ \A s, r \in OpenSessions \cup WaitingSessions :
       s.turns \cap r.turns # {} => s = r
  /\ TurnsOf(OpenSessions) \cap TurnsOf(WaitingSessions) = {}
  /\ TurnsOf(closed) \cap TurnsOf(Range(todo) \cup Range(failed)) = {}
  /\ LET waiting == todo \o failed
     IN  \A i, j \in DOMAIN waiting :
           i # j => waiting[i].turns \cap waiting[j].turns = {}

\* A session is summarised once.  A restart does not bring back what was handed
\* over, although a failed save may have left it in the tables, because by
\* then it is too old to be loaded; that argument, and so the property, needs
\* a window that has not been enlarged meanwhile.
SummarisedOnce == twice # {} => widened

\* The messages of a session are no further apart than a session window: what
\* the models get as context, and the memory as one session, is one talk.
NoGapInSession ==
  \A s \in OpenSessions \cup WaitingSessions :
    \A x \in s.turns :
      \/ \A y \in s.turns : x.at <= y.at
      \/ \E y \in s.turns, w \in Windows :
           y.at < x.at /\ x.at <= y.at + w
      \/ \E y \in s.turns : y.at = x.at /\ y.id < x.id

\* The summaries of a key are made in the order of its sessions; only one that
\* has failed before comes after a later session.  A window that is enlarged
\* lets a restart load an old row of a session that was summarised, again.
SummariesInOrder ==
  [][\A s \in handed' \ handed, r \in handed :
       s.key = r.key /\ s.last < r.last => s \in retried \/ widened]_sessionVars

\* A stored message gets to the long-term memory or is still on its way there:
\* nothing but the end of the process and a reset makes it disappear, not a
\* rotation, a failed save, a failed summary or a change of the window.
OnlyCrashOrResetForgets ==
  [][LET Known == TurnsOf(OpenSessions \cup WaitingSessions \cup handed)
     IN  Restart \/ Reset \/ Known \subseteq Known']_sessionVars

=============================================================================
