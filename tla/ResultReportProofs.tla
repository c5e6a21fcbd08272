------------------------- MODULE ResultReportProofs -------------------------
(***************************************************************************)
(* What ResultReport promises, for every number of tasks and turns, every  *)
(* limit and every choice of faults.                                       *)
(*                                                                         *)
(* The properties follow from one inductive invariant, Inv.  It says of    *)
(* each turn what it may still assume, at its place, of what it has read   *)
(* (TurnInv), and of each task who will clear its report and mark its      *)
(* artifact (TaskInv).  OneVoice is what makes the first stable: nobody    *)
(* else reports or sends while a turn is between two of its calls.         *)
(***************************************************************************)
EXTENDS ResultReport, TLAPS

Sending == {"delivered", "undelivered"}

\* What turn u may assume at its place.
TurnInv(u) ==
  LET at == turn[u].at
      items == turn[u].items
      todo == turn[u].todo
      now == turn[u].now
  IN
  /\ todo \subseteq items
  /\ items \subseteq ran
  /\ at \in {"none", "main", "list"} => items = {}
  /\ at \in {"deliveries", "resolve", "send", "speak"} \cup Sending =>
       \A t \in items : heard[t] # "now"
  /\ at = "mark" => \A t \in items : heard[t] = "now"
  /\ at = "finish" => items \cap mem.pending \subseteq missed
  /\ at \in Sending => now \in todo
  /\ at \in Sending => (at = "delivered" <=> sent[now] = "now")
  /\ at \in {"resolve", "send"} \cup Sending =>
       \A t \in todo : sent[t] # "now" \/ (at \in Sending /\ t = now)
  /\ at \in {"resolve", "send"} \cup Sending =>
       \A t \in items : mem.delivery[t] = "pending" => t \in todo
  /\ at = "speak" /\ "resolve" \notin Faults =>
       \A t \in items : mem.delivery[t] # "pending"

\* Who answers for what was heard and sent of task t.
TaskInv(t) ==
  /\ t \in mem.pending \cup rows.pending => t \in ran
  /\ heard[t] # "never" \/ sent[t] # "never" => t \in ran
  /\ mem.delivery[t] = "delivered" \/ rows.delivery[t] = "delivered" =>
       sent[t] # "never"
  /\ heard[t] = "now" /\ t \in mem.pending =>
       \E u \in Turns : At(u, "mark") /\ t \in turn[u].items
  /\ sent[t] = "now" /\ mem.delivery[t] \notin {"delivered", Unregistered} =>
       \E u \in Turns : At(u, "delivered") /\ turn[u].now = t

Inv ==
  /\ ReportTypeOK
  /\ OneVoice
  /\ NoLostWakeUp
  /\ ClearedWasHeard
  /\ \A u \in Turns : TurnInv(u)
  /\ \A t \in Tasks : TaskInv(t)

-----------------------------------------------------------------------------
(* Types. *)

\* A write leaves its snapshot in memory, and in the rows or not.
LEMMA WriteTypes ==
  ASSUME ReportTypeOK, NEW snap \in Snapshots, Write(snap)
  PROVE  /\ mem' = snap
         /\ mem' \in Snapshots
         /\ rows' \in {rows, snap}
         /\ rows' \in Snapshots
  BY DEF ReportTypeOK, Write

\* The fields of a turn.
LEMMA TurnFields ==
  ASSUME ReportTypeOK, NEW u \in Turns
  PROVE  /\ turn[u] = [at |-> turn[u].at, items |-> turn[u].items,
                       todo |-> turn[u].todo, now |-> turn[u].now]
         /\ turn[u].at \in Places \cup {"none"}
         /\ turn[u].items \in SUBSET Tasks
         /\ turn[u].todo \in SUBSET Tasks
         /\ turn[u].now \in Tasks \cup {NoTask}
  BY DEF ReportTypeOK, TurnStates

\* A step of a turn changes its own record only.
LEMMA BecomeTypes ==
  ASSUME ReportTypeOK, NEW u \in Turns, NEW p \in Places,
         NEW items \in SUBSET Tasks, NEW todo \in SUBSET Tasks,
         NEW now \in Tasks \cup {NoTask}, Become(u, p, items, todo, now)
  PROVE  /\ turn' \in [Turns -> TurnStates]
         /\ turn'[u].at = p
         /\ turn'[u].items = items
         /\ turn'[u].todo = todo
         /\ turn'[u].now = now
         /\ \A v \in Turns \ {u} : turn'[v] = turn[v]
<1>1. [at |-> p, items |-> items, todo |-> todo, now |-> now] \in TurnStates
  BY DEF TurnStates
<1> QED
  BY <1>1 DEF Become, ReportTypeOK

\* A turn that goes on knows what it knew.
LEMMA GotoTypes ==
  ASSUME ReportTypeOK, NEW u \in Turns, NEW p \in Places, Goto(u, p)
  PROVE  /\ turn' \in [Turns -> TurnStates]
         /\ turn'[u].at = p
         /\ turn'[u].items = turn[u].items
         /\ turn'[u].todo = turn[u].todo
         /\ turn'[u].now = turn[u].now
         /\ \A v \in Turns \ {u} : turn'[v] = turn[v]
  BY BecomeTypes, TurnFields DEF Goto

\* A turn that begins has read nothing.
LEMMA BeginTypes ==
  ASSUME ReportTypeOK, NEW u \in Turns, NEW p \in Places, Begin(u, p)
  PROVE  /\ turn' \in [Turns -> TurnStates]
         /\ turn'[u].at = p
         /\ turn'[u].items = {}
         /\ turn'[u].todo = {}
         /\ \A v \in Turns \ {u} : turn'[v] = turn[v]
  BY BecomeTypes DEF Begin

-----------------------------------------------------------------------------
(* The turn that is in progress is the only one. *)

\* A turn that is free has nothing to assume.
LEMMA FreeTurn ==
  ASSUME NEW u \in Turns, turn'[u].at = "none", turn'[u].items = {},
         turn'[u].todo = {}
  PROVE  TurnInv(u)'
  BY DEF TurnInv, Sending

\* While one turn is in progress the others are free.
LEMMA OthersAreFree ==
  ASSUME Inv, NEW u \in Turns, ~Free(u)
  PROVE  /\ busy
         /\ \A v \in Turns \ {u} : turn[v].at = "none" /\ turn[v].items = {}
                                   /\ turn[v].todo = {}
  BY DEF Inv, OneVoice, Free, TurnInv

\* Such a step leaves the turns one single file, and the free ones free.
LEMMA TurnGoesOn ==
  ASSUME Inv, NEW u \in Turns, ~Free(u), turn'[u].at # "none",
         \A v \in Turns \ {u} : turn'[v] = turn[v], busy' = busy
  PROVE  /\ OneVoice'
         /\ \A v \in Turns \ {u} : TurnInv(v)'
<1>1. \A v \in Turns \ {u} : turn'[v].at = "none" /\ turn'[v].items = {}
                             /\ turn'[v].todo = {}
  BY OthersAreFree
<1>2. OneVoice'
  BY <1>1, OthersAreFree DEF OneVoice, Free
<1>3. \A v \in Turns \ {u} : TurnInv(v)'
  BY <1>1, FreeTurn
<1> QED
  BY <1>2, <1>3

-----------------------------------------------------------------------------
(* Each action preserves the invariant. *)

\* At first nothing is pending, and no turn is in progress.
LEMMA InvInit == ReportInit => Inv
<1> SUFFICES ASSUME ReportInit PROVE Inv
  OBVIOUS
<1>1. NoTurn \in TurnStates /\ EmptySnapshot \in Snapshots
  BY DEF NoTurn, TurnStates, EmptySnapshot, Snapshots
<1>2. ReportTypeOK
  BY <1>1 DEF ReportInit, ReportTypeOK, Times
<1>3. \A u \in Turns : turn[u].at = "none" /\ turn[u].items = {} /\ turn[u].todo = {}
  BY DEF ReportInit, NoTurn
<1>4. OneVoice /\ NoLostWakeUp /\ ClearedWasHeard
  BY <1>3 DEF ReportInit, OneVoice, NoLostWakeUp, ClearedWasHeard, Free, EmptySnapshot
<1>5. \A u \in Turns : TurnInv(u)
  BY <1>3 DEF TurnInv, Sending
<1>6. \A t \in Tasks : TaskInv(t)
  BY DEF ReportInit, TaskInv, EmptySnapshot, Unregistered
<1> QED
  BY <1>2, <1>4, <1>5, <1>6 DEF Inv

\* A task that concludes has not been read by any turn.
LEMMA ConcludeStep ==
  ASSUME Inv, NEW t \in Tasks, Conclude(t) PROVE Inv'
<1> DEFINE snap == [done     |-> mem.done \cup {t},
                    pending  |-> mem.pending \cup {t},
                    delivery |-> [mem.delivery EXCEPT
                       ![t] = IF t \in WithArtifact THEN "pending" ELSE @]]
<1>1. ReportTypeOK
  BY DEF Inv
<1>2. snap \in Snapshots
  BY <1>1 DEF ReportTypeOK, Snapshots, DeliveryStates
<1>3. mem' = snap /\ rows' \in {rows, snap} /\ rows' \in Snapshots
  BY <1>1, <1>2, WriteTypes DEF Conclude
<1>4. /\ mem'.done = mem.done \cup {t}
      /\ mem'.pending = mem.pending \cup {t}
      /\ \A x \in Tasks \ {t} : mem'.delivery[x] = mem.delivery[x]
      /\ mem'.delivery[t] \in {"pending", mem.delivery[t]}
  BY <1>1, <1>3 DEF ReportTypeOK, Snapshots
<1>5. t \notin ran /\ ran' = ran \cup {t} /\ hooks' = hooks \cup {t}
      /\ UNCHANGED <<busy, ready, channel, turn, heard, sent, missed>>
  BY DEF Conclude, serviceVars
<1>6. ReportTypeOK'
  BY <1>1, <1>2, <1>3, <1>5 DEF ReportTypeOK
<1>7. OneVoice' /\ NoLostWakeUp'
  BY <1>4, <1>5 DEF Inv, OneVoice, NoLostWakeUp, Free, HasChannel, At
<1>8. heard[t] = "never" /\ sent[t] = "never"
  BY <1>5 DEF Inv, TaskInv
<1>9. ClearedWasHeard'
  BY <1>3, <1>4, <1>5 DEF Inv, ClearedWasHeard
<1>10. ASSUME NEW u \in Turns PROVE TurnInv(u)'
  <2>1. TurnInv(u) /\ turn[u].items \subseteq Tasks \ {t}
    BY <1>1, <1>5, TurnFields DEF Inv, TurnInv
  <2>2. turn[u].items \cap mem'.pending = turn[u].items \cap mem.pending
        /\ \A x \in turn[u].items : mem'.delivery[x] = mem.delivery[x]
    BY <1>4, <2>1
  <2> QED
    BY <1>5, <2>1, <2>2 DEF TurnInv, Sending
<1>11. ASSUME NEW x \in Tasks PROVE TaskInv(x)'
  <2>1. TaskInv(x)
    BY DEF Inv
  <2>2. rows' = rows \/ rows' = mem'
    BY <1>3
  <2>3. CASE x = t
    BY <1>4, <1>5, <1>8, <2>1, <2>2, <2>3 DEF TaskInv
  <2>4. CASE x # t
    <3>1. mem'.delivery[x] = mem.delivery[x]
          /\ (x \in mem'.pending <=> x \in mem.pending)
      BY <1>4, <2>4
    <3> QED
      BY <1>5, <2>1, <2>2, <3>1 DEF TaskInv, At
  <2> QED
    BY <2>3, <2>4
<1> QED
  BY <1>6, <1>7, <1>9, <1>10, <1>11 DEF Inv

\* A hook without a report changes nothing that matters.
LEMMA ConcludeIgnoredStep ==
  ASSUME Inv, NEW t \in Tasks, ConcludeIgnored(t) PROVE Inv'
<1>1. ran' = ran \cup {t} /\ hooks' = hooks \cup {t}
      /\ UNCHANGED <<mem, rows, busy, ready, channel, turn, heard, sent, missed>>
  BY DEF ConcludeIgnored, serviceVars
<1>2. ReportTypeOK' /\ OneVoice' /\ NoLostWakeUp' /\ ClearedWasHeard'
  BY <1>1 DEF Inv, ReportTypeOK, OneVoice, NoLostWakeUp, ClearedWasHeard,
              Free, HasChannel, At
<1>3. \A u \in Turns : TurnInv(u)'
  BY <1>1 DEF Inv, TurnInv, Sending
<1>4. \A x \in Tasks : TaskInv(x)'
  BY <1>1 DEF Inv, TaskInv, At
<1> QED
  BY <1>2, <1>3, <1>4 DEF Inv

\* A turn that begins while the service is idle is the only one.
LEMMA FirstTurn ==
  ASSUME Inv, NEW u \in Turns, NEW p \in {"main", "list"}, ~busy,
         Begin(u, p), busy' = TRUE
  PROVE  /\ OneVoice'
         /\ turn' \in [Turns -> TurnStates]
         /\ turn'[u].at = p
         /\ \A v \in Turns : turn'[v].items = {} /\ turn'[v].todo = {}
         /\ \A v \in Turns \ {u} : turn'[v].at = "none"
         /\ \A v \in Turns : Free(v)
         /\ \A v \in Turns : TurnInv(v)'
<1>1. ReportTypeOK /\ p \in Places
  BY DEF Inv, Places
<1>2. \A v \in Turns : Free(v) /\ turn[v].items = {} /\ turn[v].todo = {}
  BY DEF Inv, OneVoice, Free, TurnInv
<1>3. /\ turn' \in [Turns -> TurnStates]
      /\ turn'[u].at = p
      /\ \A v \in Turns : turn'[v].items = {} /\ turn'[v].todo = {}
      /\ \A v \in Turns \ {u} : turn'[v].at = "none"
  BY <1>1, <1>2, BeginTypes DEF Free
<1>4. OneVoice'
  BY <1>3 DEF OneVoice, Free
<1>5. \A v \in Turns : TurnInv(v)'
  BY <1>3 DEF TurnInv, Sending
<1> QED
  BY <1>2, <1>3, <1>4, <1>5

\* A user turn.
LEMMA BeginVoiceTurnStep ==
  ASSUME Inv, NEW u \in Turns, NEW c \in Channels, BeginVoiceTurn(u, c)
  PROVE  Inv'
<1>1. ~busy /\ busy' = TRUE /\ channel' = c /\ Begin(u, "main")
      /\ UNCHANGED <<mem, rows, ran, hooks, ready, heard, sent, missed>>
  BY DEF BeginVoiceTurn, MayBegin, managerVars
<1>2. OneVoice' /\ \A v \in Turns : TurnInv(v)'
  BY <1>1, FirstTurn
<1>3. turn' \in [Turns -> TurnStates] /\ \A v \in Turns : Free(v)
  BY <1>1, FirstTurn
<1>4. \A v \in Turns : turn[v].items = {}
  BY <1>3 DEF Inv, TurnInv, Free
<1>5. ReportTypeOK'
  BY <1>1, <1>3 DEF Inv, ReportTypeOK
<1>6. NoLostWakeUp'
  BY <1>1, <1>3, <1>4 DEF Inv, NoLostWakeUp, Free, At
<1>7. ClearedWasHeard'
  BY <1>1 DEF Inv, ClearedWasHeard
<1>8. \A t \in Tasks : TaskInv(t)'
  BY <1>1, <1>3 DEF Inv, TaskInv, At, Free
<1> QED
  BY <1>2, <1>5, <1>6, <1>7, <1>8 DEF Inv

\* A hook: the report waits behind the flag, or its turn begins.
LEMMA HookStep ==
  ASSUME Inv, NEW t \in Tasks, TryDeliverTaskResultReports(t)
  PROVE  Inv'
<1>1. hooks' = hooks \ {t}
      /\ UNCHANGED <<mem, rows, ran, channel, heard, sent, missed>>
  BY DEF TryDeliverTaskResultReports
<1>2. ClearedWasHeard'
  BY <1>1 DEF Inv, ClearedWasHeard
<1>3. CASE /\ busy \/ ~HasChannel
           /\ ready' = TRUE
           /\ UNCHANGED <<busy, turn>>
  <2>1. ReportTypeOK' /\ OneVoice' /\ NoLostWakeUp'
    BY <1>1, <1>3 DEF Inv, ReportTypeOK, OneVoice, NoLostWakeUp, Free,
                      HasChannel, At
  <2>2. \A v \in Turns : TurnInv(v)'
    BY <1>1, <1>3 DEF Inv, TurnInv, Sending
  <2>3. \A x \in Tasks : TaskInv(x)'
    BY <1>1, <1>3 DEF Inv, TaskInv, At
  <2> QED
    BY <1>2, <2>1, <2>2, <2>3 DEF Inv
<1>4. CASE /\ ~busy /\ HasChannel
           /\ \E u \in Turns : Free(u) /\ Begin(u, "list")
           /\ busy' = TRUE
           /\ ready' = FALSE
  <2>1. PICK u \in Turns : Begin(u, "list")
    BY <1>4
  <2>2. OneVoice' /\ \A v \in Turns : TurnInv(v)'
    BY <1>4, <2>1, FirstTurn
  <2>3. turn' \in [Turns -> TurnStates] /\ turn'[u].at = "list"
        /\ \A v \in Turns : Free(v)
    BY <1>4, <2>1, FirstTurn
  <2>4. ReportTypeOK'
    BY <1>1, <1>4, <2>3 DEF Inv, ReportTypeOK
  <2>5. NoLostWakeUp'
    BY <1>1, <1>4, <2>3 DEF NoLostWakeUp, At
  <2>6. \A x \in Tasks : TaskInv(x)'
    BY <1>1, <2>3 DEF Inv, TaskInv, At, Free
  <2> QED
    BY <1>2, <2>2, <2>4, <2>5, <2>6 DEF Inv
<1> QED
  BY <1>3, <1>4 DEF TryDeliverTaskResultReports, ReadyWhenRefused

\* The main reply of a user turn.
LEMMA MainReplyStep ==
  ASSUME Inv, NEW u \in Turns, MainReply(u) PROVE Inv'
<1>1. turn[u].at = "main" /\ ~Free(u)
      /\ UNCHANGED <<mem, rows, ran, hooks, busy, ready, channel, heard, sent, missed>>
  BY DEF MainReply, At, Free, managerVars, serviceVars
<1>2. PICK p \in {"list", "finish"} : Goto(u, p)
  BY DEF MainReply
<1>3. p \in Places /\ ReportTypeOK
  BY DEF Places, Inv
<1>4. /\ turn' \in [Turns -> TurnStates]
      /\ turn'[u].at = p /\ turn'[u].items = {} /\ turn'[u].todo = {}
      /\ \A v \in Turns \ {u} : turn'[v] = turn[v]
  BY <1>1, <1>2, <1>3, GotoTypes DEF Inv, TurnInv
<1>5. OneVoice' /\ \A v \in Turns \ {u} : TurnInv(v)'
  BY <1>1, <1>4, TurnGoesOn
<1>6. TurnInv(u)'
  BY <1>4 DEF TurnInv, Sending
<1>7. ReportTypeOK'
  BY <1>1, <1>3, <1>4 DEF ReportTypeOK
<1>8. turn[u].items = {}
  BY <1>1 DEF Inv, TurnInv
<1>9. NoLostWakeUp' /\ ClearedWasHeard'
  BY <1>1, <1>4, <1>8 DEF Inv, NoLostWakeUp, ClearedWasHeard, At, HasChannel
<1>10. \A t \in Tasks : TaskInv(t)'
  BY <1>1, <1>4 DEF Inv, TaskInv, At
<1> QED
  BY <1>5, <1>6, <1>7, <1>9, <1>10 DEF Inv

\* Where a turn is read the pending reports, all of them are accounted for:
\* taken, or passed over.  What it takes was not told before, because no other
\* turn is about to clear it.
LEMMA ListPendingStep ==
  ASSUME Inv, NEW u \in Turns, ListPendingResultReports(u) PROVE Inv'
<1>1. turn[u].at = "list" /\ ~Free(u)
      /\ UNCHANGED <<mem, rows, ran, hooks, busy, ready, channel, heard, sent>>
  BY DEF ListPendingResultReports, At, Free, managerVars, serviceVars
<1>2. PICK ids \in PendingReports :
        /\ Become(u, IF ids = {} THEN "finish" ELSE "deliveries", ids, {}, NoTask)
        /\ missed' = (missed \ ids) \cup (mem.pending \ ids)
  BY DEF ListPendingResultReports
<1>3. ReportTypeOK /\ ids \subseteq mem.pending /\ mem.pending \subseteq Tasks
  BY DEF PendingReports, Inv, ReportTypeOK, Snapshots
<1> DEFINE p == IF ids = {} THEN "finish" ELSE "deliveries"
<1>4. p \in Places /\ ids \in SUBSET Tasks
  BY <1>3 DEF Places
<1>6. /\ turn' \in [Turns -> TurnStates]
      /\ turn'[u].at = p /\ turn'[u].items = ids /\ turn'[u].todo = {}
      /\ \A v \in Turns \ {u} : turn'[v] = turn[v]
  BY <1>2, <1>3, <1>4, BecomeTypes
<1>7. turn'[u].at \in {"finish", "deliveries"} /\ (ids # {} => turn'[u].at = "deliveries")
  BY <1>6
<1>8. OneVoice' /\ \A v \in Turns \ {u} : TurnInv(v)'
  BY <1>1, <1>6, <1>7, TurnGoesOn
<1>9. \A t \in ids : t \in ran /\ heard[t] # "now"
  BY <1>1, <1>3, OthersAreFree DEF Inv, TaskInv, At
<1>10. TurnInv(u)'
  BY <1>1, <1>6, <1>7, <1>9 DEF TurnInv, Sending
<1>11. ReportTypeOK'
  BY <1>1, <1>2, <1>3, <1>6 DEF ReportTypeOK
<1>12. ClearedWasHeard'
  BY <1>1 DEF Inv, ClearedWasHeard
<1>13. NoLostWakeUp'
  BY <1>1, <1>2, <1>6 DEF Inv, NoLostWakeUp, HasChannel
<1>14. \A t \in Tasks : TaskInv(t)'
  BY <1>1, <1>6 DEF Inv, TaskInv, At
<1> QED
  BY <1>8, <1>10, <1>11, <1>12, <1>13, <1>14 DEF Inv

\* The artifacts to send: an open one was not sent, because no other turn is
\* about to mark it.
LEMMA ListDeliveriesStep ==
  ASSUME Inv, NEW u \in Turns, ListTaskArtifactDeliveries(u) PROVE Inv'
<1> DEFINE open == OpenDeliveries(turn[u].items)
           p == IF open = {} THEN "speak" ELSE "resolve"
<1>1. turn[u].at = "deliveries" /\ ~Free(u)
      /\ UNCHANGED <<mem, rows, ran, hooks, busy, ready, channel, heard, sent, missed>>
  BY DEF ListTaskArtifactDeliveries, At, Free, managerVars, serviceVars
<1>2. Become(u, p, turn[u].items, open, NoTask)
  BY DEF ListTaskArtifactDeliveries
<1>3. ReportTypeOK /\ open \subseteq turn[u].items /\ turn[u].items \subseteq Tasks
  BY TurnFields DEF Inv, OpenDeliveries
<1>4. p \in Places /\ open \in SUBSET Tasks
  BY <1>3 DEF Places
<1>5. /\ turn' \in [Turns -> TurnStates]
      /\ turn'[u].at = p /\ turn'[u].items = turn[u].items /\ turn'[u].todo = open
      /\ \A v \in Turns \ {u} : turn'[v] = turn[v]
  BY <1>2, <1>3, <1>4, BecomeTypes DEF Inv
<1> HIDE DEF open
<1>6. turn'[u].at \in {"speak", "resolve"} /\ (open # {} => turn'[u].at = "resolve")
  BY <1>5
<1>7. \A v \in Turns \ {u} : turn'[v] = turn[v]
  BY <1>5
<1>8. OneVoice' /\ \A v \in Turns \ {u} : TurnInv(v)'
  BY <1>1, <1>6, <1>7, TurnGoesOn
<1>9. \A t \in open : mem.delivery[t] \notin {"delivered", Unregistered}
  BY DEF open, OpenDeliveries
<1>10. \A t \in open : sent[t] # "now"
  BY <1>1, <1>3, <1>9, OthersAreFree DEF Inv, TaskInv, At
<1>11. \A t \in turn[u].items : mem.delivery[t] = "pending" => t \in open
  BY DEF open, OpenDeliveries, Unregistered
<1>12. TurnInv(u)'
  BY <1>1, <1>3, <1>5, <1>6, <1>10, <1>11 DEF Inv, TurnInv, Sending
<1>13. ReportTypeOK'
  BY <1>1, <1>3, <1>5 DEF ReportTypeOK
<1>14. NoLostWakeUp' /\ ClearedWasHeard'
  BY <1>1, <1>5, <1>6 DEF Inv, NoLostWakeUp, ClearedWasHeard, At, HasChannel
<1>15. \A t \in Tasks : TaskInv(t)'
  BY <1>1, <1>5 DEF Inv, TaskInv, At
<1> QED
  BY <1>8, <1>12, <1>13, <1>14, <1>15 DEF Inv

\* Without a default channel the open deliveries get their status, no other.
LEMMA ResolveStep ==
  ASSUME Inv, NEW u \in Turns, ResolveDefaultChannel(u) PROVE Inv'
<1> DEFINE marked == [mem EXCEPT !.delivery =
                        [t \in Tasks |-> IF t \in OpenDeliveries(turn[u].todo)
                                         THEN "no_channel" ELSE @[t]]]
<1>1. turn[u].at = "resolve" /\ ~Free(u)
      /\ UNCHANGED <<ran, hooks, busy, ready, channel, heard, sent, missed>>
  BY DEF ResolveDefaultChannel, At, Free, serviceVars
<1>2. PICK p \in {"send", "speak"} :
        /\ Goto(u, p)
        /\ \/ UNCHANGED <<mem, rows>> /\ (p = "speak" => "resolve" \in Faults)
           \/ p = "speak" /\ Write(marked)
  BY DEF ResolveDefaultChannel
<1>3. ReportTypeOK /\ p \in Places
  BY DEF Inv, Places
<1>4. /\ turn' \in [Turns -> TurnStates]
      /\ turn'[u].at = p
      /\ turn'[u].items = turn[u].items
      /\ turn'[u].todo = turn[u].todo
      /\ \A v \in Turns \ {u} : turn'[v] = turn[v]
  BY <1>2, <1>3, GotoTypes
<1>5. OneVoice' /\ \A v \in Turns \ {u} : TurnInv(v)'
  BY <1>1, <1>2, <1>4, TurnGoesOn
<1>6. /\ marked \in Snapshots
      /\ marked.done = mem.done
      /\ marked.pending = mem.pending
      /\ \A t \in Tasks : marked.delivery[t] =
           IF t \in OpenDeliveries(turn[u].todo) THEN "no_channel" ELSE mem.delivery[t]
  BY <1>3 DEF ReportTypeOK, Snapshots, DeliveryStates
<1> HIDE DEF marked
<1>7. /\ mem' \in {mem, marked} /\ mem' \in Snapshots
      /\ rows' \in {rows, marked} /\ rows' \in Snapshots
  BY <1>2, <1>3, <1>6, WriteTypes DEF ReportTypeOK
<1>8. ReportTypeOK'
  BY <1>1, <1>3, <1>4, <1>7 DEF ReportTypeOK
<1>9. mem'.done = mem.done /\ mem'.pending = mem.pending
  BY <1>6, <1>7
<1>10. ClearedWasHeard'
  BY <1>1, <1>6, <1>7 DEF Inv, ClearedWasHeard
<1>11. NoLostWakeUp'
  BY <1>1, <1>4, <1>9 DEF Inv, NoLostWakeUp, At, HasChannel
<1>12. turn[u].items \subseteq Tasks /\ TurnInv(u)
  BY <1>3, TurnFields DEF Inv
<1>13. TurnInv(u)'
  <2>1. CASE p = "send" /\ UNCHANGED <<mem, rows>>
    BY <1>1, <1>4, <1>12, <2>1 DEF TurnInv, Sending
  <2>2. CASE p = "speak" /\ "resolve" \in Faults
    BY <1>1, <1>4, <1>12, <2>2 DEF TurnInv, Sending
  <2>3. CASE p = "speak" /\ mem' = marked
    <3>1. \A t \in turn[u].items : mem'.delivery[t] # "pending"
      BY <1>1, <1>6, <1>12, <2>3 DEF TurnInv, OpenDeliveries, Unregistered
    <3> QED
      BY <1>1, <1>4, <1>12, <2>3, <3>1 DEF TurnInv, Sending
  <2> QED
    BY <1>2, <1>3, <1>6, <2>1, <2>2, <2>3, WriteTypes
<1>14. ASSUME NEW t \in Tasks PROVE TaskInv(t)'
  <2>1. mem'.delivery[t] \in {mem.delivery[t], "no_channel"}
        /\ (mem'.delivery[t] # mem.delivery[t] => sent[t] # "now")
    <3>1. t \in OpenDeliveries(turn[u].todo) => sent[t] # "now"
      BY <1>1, <1>12 DEF TurnInv, Sending, OpenDeliveries
    <3> QED
      BY <1>6, <1>7, <3>1
  <2>2. rows'.pending \subseteq rows.pending \cup mem.pending
    BY <1>6, <1>7
  <2>3. rows'.delivery[t] = "delivered" =>
          mem.delivery[t] = "delivered" \/ rows.delivery[t] = "delivered"
    BY <1>6, <1>7
  <2> QED
    BY <1>1, <1>4, <1>9, <2>1, <2>2, <2>3 DEF Inv, TaskInv, At
<1> QED
  BY <1>5, <1>8, <1>10, <1>11, <1>13, <1>14 DEF Inv

\* An artifact that is sent was not sent before by this process.
LEMMA DeliverStep ==
  ASSUME Inv, NEW u \in Turns, NEW t \in Tasks, DeliverTaskArtifact(u, t)
  PROVE  Inv'
<1>1. turn[u].at = "send" /\ ~Free(u) /\ t \in turn[u].todo
      /\ UNCHANGED <<mem, rows, ran, hooks, busy, ready, channel, heard, missed>>
  BY DEF DeliverTaskArtifact, At, Free, managerVars, serviceVars
<1>2. PICK p \in Sending :
        /\ Become(u, p, turn[u].items, turn[u].todo, t)
        /\ sent' = IF p = "delivered" THEN [sent EXCEPT ![t] = "now"] ELSE sent
  BY DEF DeliverTaskArtifact, Sending
<1>3. ReportTypeOK /\ p \in Places /\ turn[u].items \in SUBSET Tasks
      /\ turn[u].todo \in SUBSET Tasks
  BY TurnFields DEF Inv, Places, Sending
<1>4. /\ turn' \in [Turns -> TurnStates]
      /\ turn'[u].at = p
      /\ turn'[u].items = turn[u].items
      /\ turn'[u].todo = turn[u].todo
      /\ turn'[u].now = t
      /\ \A v \in Turns \ {u} : turn'[v] = turn[v]
  BY <1>2, <1>3, BecomeTypes
<1>5. OneVoice' /\ \A v \in Turns \ {u} : TurnInv(v)'
  BY <1>1, <1>4, TurnGoesOn DEF Sending
<1>6. /\ sent' \in [Tasks -> Times]
      /\ sent'[t] = IF p = "delivered" THEN "now" ELSE sent[t]
      /\ \A x \in Tasks \ {t} : sent'[x] = sent[x]
  BY <1>2, <1>3 DEF ReportTypeOK, Times
<1>7. ReportTypeOK'
  BY <1>1, <1>3, <1>4, <1>6 DEF ReportTypeOK
<1>8. NoLostWakeUp' /\ ClearedWasHeard'
  BY <1>1, <1>4 DEF Inv, NoLostWakeUp, ClearedWasHeard, At, HasChannel
<1>9. TurnInv(u) /\ sent[t] # "now" /\ t \in ran
  BY <1>1 DEF Inv, TurnInv, Sending
<1>10. TurnInv(u)'
  BY <1>1, <1>3, <1>4, <1>6, <1>9 DEF TurnInv, Sending
<1>11. ASSUME NEW x \in Tasks PROVE TaskInv(x)'
  <2>1. CASE x = t
    BY <1>1, <1>4, <1>6, <1>9, <2>1 DEF Inv, TaskInv, At, Sending
  <2>2. CASE x # t
    BY <1>1, <1>4, <1>6, <2>2 DEF Inv, TaskInv, At
  <2> QED
    BY <2>1, <2>2
<1> QED
  BY <1>5, <1>7, <1>8, <1>10, <1>11 DEF Inv

\* The mark of an artifact says what has become of it.
LEMMA MarkDeliveryStep ==
  ASSUME Inv, NEW u \in Turns, MarkArtifactDelivery(u) PROVE Inv'
<1> DEFINE t == turn[u].now
           left == turn[u].todo \ {t}
           marked == [mem EXCEPT !.delivery[t] = MarkFor(turn[u].at)]
<1>1. turn[u].at \in Sending /\ ~Free(u)
      /\ UNCHANGED <<ran, hooks, busy, ready, channel, heard, sent, missed>>
  BY DEF MarkArtifactDelivery, At, Free, serviceVars, Sending
<1>2. ReportTypeOK /\ turn[u].items \in SUBSET Tasks /\ left \in SUBSET Tasks
  BY TurnFields DEF Inv
<1>3. TurnInv(u) /\ t \in Tasks /\ t \in ran
  BY <1>1, TurnFields DEF Inv, TurnInv
<1>4. PICK p \in {"speak", "send"} :
        /\ Become(u, p, turn[u].items, left, NoTask)
        /\ left # {} => p = "send"
  BY DEF MarkArtifactDelivery
<1>5. /\ turn' \in [Turns -> TurnStates]
      /\ turn'[u].at = p
      /\ turn'[u].items = turn[u].items
      /\ turn'[u].todo = left
      /\ \A v \in Turns \ {u} : turn'[v] = turn[v]
  <2> HIDE DEF left
  <2>1. p \in Places /\ NoTask \in Tasks \cup {NoTask}
    BY DEF Places
  <2> QED
    BY <1>2, <1>4, <2>1, BecomeTypes
<1>6. turn'[u].at \in {"speak", "send"} /\ (left # {} => turn'[u].at = "send")
  BY <1>4, <1>5
<1>7. OneVoice' /\ \A v \in Turns \ {u} : TurnInv(v)'
  BY <1>1, <1>5, <1>6, TurnGoesOn
<1>8. \/ mem.delivery[t] = Unregistered /\ UNCHANGED <<mem, rows>>
      \/ mem.delivery[t] # Unregistered /\ Write(marked)
  BY DEF MarkArtifactDelivery
<1>9. /\ marked \in Snapshots
      /\ marked.done = mem.done
      /\ marked.pending = mem.pending
      /\ marked.delivery[t] = MarkFor(turn[u].at)
      /\ \A x \in Tasks \ {t} : marked.delivery[x] = mem.delivery[x]
  BY <1>2, <1>3 DEF ReportTypeOK, Snapshots, DeliveryStates, MarkFor
<1> HIDE DEF marked
<1>10. /\ mem' \in {mem, marked} /\ mem' \in Snapshots
       /\ rows' \in {rows, marked} /\ rows' \in Snapshots
       /\ mem'.done = mem.done /\ mem'.pending = mem.pending
       /\ mem'.delivery[t] \in {Unregistered, MarkFor(turn[u].at)}
       /\ \A x \in Tasks \ {t} : mem'.delivery[x] = mem.delivery[x]
  BY <1>2, <1>8, <1>9, WriteTypes DEF ReportTypeOK
<1>11. ReportTypeOK'
  BY <1>1, <1>2, <1>5, <1>10 DEF ReportTypeOK
<1>12. ClearedWasHeard'
  BY <1>1, <1>9, <1>10 DEF Inv, ClearedWasHeard
<1>13. NoLostWakeUp'
  BY <1>1, <1>5, <1>10 DEF Inv, NoLostWakeUp, At, HasChannel, Sending
<1>14. mem'.delivery[t] # "pending"
  BY <1>10 DEF MarkFor, Unregistered
<1>15. TurnInv(u)'
  <2>1. \A x \in turn[u].items : mem'.delivery[x] = "pending" => x \in left
    BY <1>1, <1>2, <1>3, <1>10, <1>14 DEF TurnInv, Sending
  <2>2. \A x \in left : sent[x] # "now"
    BY <1>1, <1>2, <1>3 DEF TurnInv, Sending
  <2>3. left \subseteq turn[u].items /\ turn[u].items \subseteq ran
        /\ \A x \in turn[u].items : heard[x] # "now"
    BY <1>1, <1>3 DEF TurnInv, Sending
  <2> HIDE DEF left
  <2> QED
    BY <1>1, <1>5, <1>6, <2>1, <2>2, <2>3 DEF TurnInv, Sending
<1>16. ASSUME NEW x \in Tasks PROVE TaskInv(x)'
  <2>1. rows'.pending \subseteq rows.pending \cup mem.pending
    BY <1>9, <1>10
  <2>2. CASE x = t
    <3>1. MarkFor(turn[u].at) = "delivered" <=> sent[t] = "now"
      BY <1>1, <1>3 DEF MarkFor, TurnInv, Sending
    <3>2. rows'.delivery[t] \in {rows.delivery[t], MarkFor(turn[u].at)}
      BY <1>9, <1>10
    <3> QED
      BY <1>1, <1>3, <1>5, <1>10, <2>1, <2>2, <3>1, <3>2
         DEF Inv, TaskInv, At, Sending, Unregistered
  <2>3. CASE x # t
    <3>1. rows'.delivery[x] \in {rows.delivery[x], mem.delivery[x]}
      BY <1>9, <1>10, <2>3
    <3> HIDE DEF t
    <3>2. ~\E v \in Turns : At(v, "delivered") /\ turn[v].now = x
      BY <1>1, <2>3, OthersAreFree DEF At, t
    <3> QED
      BY <1>1, <1>5, <1>10, <2>1, <2>3, <3>1, <3>2 DEF Inv, TaskInv, At, Sending
  <2> QED
    BY <2>2, <2>3
<1> QED
  BY <1>7, <1>11, <1>12, <1>13, <1>15, <1>16 DEF Inv

\* The report is heard, or given up.
LEMMA SpeakStep ==
  ASSUME Inv, NEW u \in Turns, SpeakReport(u) PROVE Inv'
<1>1. turn[u].at = "speak" /\ ~Free(u)
      /\ UNCHANGED <<mem, rows, ran, hooks, busy, ready, channel, sent>>
  BY DEF SpeakReport, At, Free, managerVars, serviceVars
<1>2. PICK p \in {"mark", "finish"} :
        /\ Goto(u, p)
        /\ p = "mark" =>
             /\ heard' = [t \in Tasks |-> IF t \in turn[u].items THEN "now" ELSE heard[t]]
             /\ missed' = missed
        /\ p = "finish" =>
             /\ heard' = heard
             /\ missed' = missed \cup turn[u].items
  BY DEF SpeakReport, AfterFailure
<1>3. ReportTypeOK /\ p \in Places /\ turn[u].items \in SUBSET Tasks
  BY TurnFields DEF Inv, Places
<1>4. /\ turn' \in [Turns -> TurnStates]
      /\ turn'[u].at = p
      /\ turn'[u].items = turn[u].items
      /\ turn'[u].todo = turn[u].todo
      /\ \A v \in Turns \ {u} : turn'[v] = turn[v]
  BY <1>2, <1>3, GotoTypes
<1>5. OneVoice' /\ \A v \in Turns \ {u} : TurnInv(v)'
  BY <1>1, <1>2, <1>4, TurnGoesOn
<1>6. /\ heard' \in [Tasks -> Times]
      /\ missed' \subseteq Tasks
      /\ missed \subseteq missed'
      /\ \A t \in Tasks : heard[t] # "never" => heard'[t] # "never"
      /\ \A t \in Tasks : heard'[t] # heard[t] => t \in turn[u].items
  BY <1>2, <1>3 DEF ReportTypeOK, Times
<1>7. ReportTypeOK'
  BY <1>1, <1>3, <1>4, <1>6 DEF ReportTypeOK
<1>8. TurnInv(u)
  BY DEF Inv
<1>9. TurnInv(u)'
  BY <1>1, <1>2, <1>3, <1>4, <1>8 DEF TurnInv, Sending
<1>10. NoLostWakeUp'
  BY <1>1, <1>4, <1>6 DEF Inv, NoLostWakeUp, At, HasChannel
<1>11. ClearedWasHeard'
  BY <1>1, <1>3, <1>6 DEF Inv, ClearedWasHeard, ReportTypeOK, Snapshots
<1>12. ASSUME NEW t \in Tasks PROVE TaskInv(t)'
  <2>1. t \in turn[u].items => t \in ran
    BY <1>8 DEF TurnInv
  <2>2. heard'[t] = "now" /\ t \in mem.pending =>
          \E v \in Turns : At(v, "mark")' /\ t \in turn'[v].items
    <3>1. ~\E v \in Turns : At(v, "mark")
      BY <1>1, OthersAreFree DEF At
    <3>2. heard[t] = "now" => t \notin mem.pending
      BY <3>1 DEF Inv, TaskInv
    <3> QED
      BY <1>1, <1>2, <1>4, <1>6, <3>2 DEF At
  <2> QED
    BY <1>1, <1>4, <1>6, <2>1, <2>2 DEF Inv, TaskInv, At
<1> QED
  BY <1>5, <1>7, <1>9, <1>10, <1>11, <1>12 DEF Inv

\* What is cleared was heard: the turn that clears it has just told it.
LEMMA MarkReportedStep ==
  ASSUME Inv, NEW u \in Turns, MarkResultReported(u) PROVE Inv'
<1> DEFINE cleared == [mem EXCEPT !.pending = Reported(turn[u].items)]
<1>1. turn[u].at = "mark" /\ ~Free(u)
      /\ UNCHANGED <<ran, hooks, busy, ready, channel, heard, sent, missed>>
  BY DEF MarkResultReported, At, Free, serviceVars
<1>2. Goto(u, "finish") /\ Write(cleared)
  BY DEF MarkResultReported
<1>3. ReportTypeOK /\ "finish" \in Places /\ TurnInv(u)
  BY DEF Inv, Places
<1>4. /\ turn' \in [Turns -> TurnStates]
      /\ turn'[u].at = "finish"
      /\ turn'[u].items = turn[u].items
      /\ turn'[u].todo = turn[u].todo
      /\ \A v \in Turns \ {u} : turn'[v] = turn[v]
  BY <1>2, <1>3, GotoTypes
<1>5. OneVoice' /\ \A v \in Turns \ {u} : TurnInv(v)'
  BY <1>1, <1>4, TurnGoesOn
<1>6. /\ cleared \in Snapshots
      /\ cleared.done = mem.done
      /\ cleared.pending = mem.pending \ turn[u].items
      /\ cleared.delivery = mem.delivery
  BY <1>3 DEF ReportTypeOK, Snapshots, Reported
<1> HIDE DEF cleared
<1>7. mem' = cleared /\ rows' \in {rows, cleared} /\ rows' \in Snapshots
  BY <1>2, <1>3, <1>6, WriteTypes
<1>8. ReportTypeOK'
  BY <1>1, <1>3, <1>4, <1>6, <1>7 DEF ReportTypeOK
<1>9. NoLostWakeUp'
  BY <1>1, <1>4, <1>6, <1>7 DEF Inv, NoLostWakeUp, At, HasChannel
<1>10. ClearedWasHeard'
  <2>1. \A t \in turn[u].items : heard[t] = "now"
    BY <1>1, <1>3 DEF TurnInv
  <2>2. \A t \in cleared.done \ cleared.pending : heard[t] # "never"
    BY <1>6, <2>1 DEF Inv, ClearedWasHeard
  <2> QED
    BY <1>1, <1>7, <2>2 DEF Inv, ClearedWasHeard
<1>11. TurnInv(u)'
  BY <1>1, <1>3, <1>4, <1>6, <1>7 DEF TurnInv, Sending
<1>12. ASSUME NEW t \in Tasks PROVE TaskInv(t)'
  <2>1. heard[t] = "now" => t \notin mem'.pending
    BY <1>1, <1>6, <1>7, OthersAreFree DEF Inv, TaskInv, At
  <2>2. rows'.delivery[t] \in {rows.delivery[t], mem.delivery[t]}
        /\ rows'.pending \subseteq rows.pending \cup mem.pending
    BY <1>6, <1>7
  <2> QED
    BY <1>1, <1>4, <1>6, <1>7, <2>1, <2>2 DEF Inv, TaskInv, At
<1> QED
  BY <1>5, <1>8, <1>9, <1>10, <1>11, <1>12 DEF Inv

\* A turn that ends leaves nothing behind but what was tried in vain: it sees
\* the flag, or the flag is down.
LEMMA FinishStep ==
  ASSUME Inv, NEW u \in Turns, FinishVoiceTurn(u) PROVE Inv'
<1>1. turn[u].at = "finish" /\ ~Free(u) /\ busy
      /\ UNCHANGED <<mem, rows, ran, hooks, channel, heard, sent, missed>>
  BY OthersAreFree DEF FinishVoiceTurn, At, Free, managerVars
<1>2. ReportTypeOK /\ TurnInv(u) /\ "list" \in Places
  BY DEF Inv, Places
<1>3. ClearedWasHeard'
  BY <1>1 DEF Inv, ClearedWasHeard
<1>4. CASE Begin(u, "list") /\ busy' = TRUE /\ ready' = FALSE
  <2>1. /\ turn' \in [Turns -> TurnStates]
        /\ turn'[u].at = "list" /\ turn'[u].items = {} /\ turn'[u].todo = {}
        /\ \A v \in Turns \ {u} : turn'[v] = turn[v]
    BY <1>2, <1>4, BeginTypes
  <2>2. OneVoice' /\ \A v \in Turns \ {u} : TurnInv(v)'
    BY <1>1, <1>2, <1>4, <2>1, TurnGoesOn DEF ReportTypeOK
  <2>3. TurnInv(u)'
    BY <2>1 DEF TurnInv, Sending
  <2>4. ReportTypeOK' /\ NoLostWakeUp'
    BY <1>1, <1>2, <1>4, <2>1 DEF ReportTypeOK, NoLostWakeUp, At
  <2>5. \A t \in Tasks : TaskInv(t)'
    BY <1>1, <2>1 DEF Inv, TaskInv, At
  <2> QED
    BY <1>3, <2>2, <2>3, <2>4, <2>5 DEF Inv
<1>5. CASE /\ ~ReportIsDue
           /\ turn' = [turn EXCEPT ![u] = NoTurn]
           /\ busy' = FALSE
           /\ ready' = ready
  <2>1. NoTurn \in TurnStates
    BY DEF NoTurn, TurnStates
  <2>2. turn' \in [Turns -> TurnStates]
        /\ \A v \in Turns : turn'[v].at = "none" /\ turn'[v].items = {}
                            /\ turn'[v].todo = {}
    BY <1>1, <1>2, <1>5, <2>1, OthersAreFree DEF ReportTypeOK, NoTurn
  <2>3. OneVoice' /\ \A v \in Turns : TurnInv(v)'
    BY <1>5, <2>2, FreeTurn DEF OneVoice, Free
  <2>4. ReportTypeOK'
    BY <1>1, <1>2, <1>5, <2>2 DEF ReportTypeOK
  <2>5. turn[u].items \cap mem.pending \subseteq missed
    BY <1>1, <1>2 DEF TurnInv
  <2>6. NoLostWakeUp'
    BY <1>1, <1>5, <2>5, OthersAreFree DEF Inv, NoLostWakeUp, At, HasChannel, ReportIsDue
  <2>7. \A t \in Tasks : TaskInv(t)'
    BY <1>1, <2>2, OthersAreFree DEF Inv, TaskInv, At
  <2> QED
    BY <1>3, <2>3, <2>4, <2>6, <2>7 DEF Inv
<1> QED
  BY <1>4, <1>5 DEF FinishVoiceTurn

\* A reset leaves nothing to report; a turn in progress goes on.
LEMMA ResetStep == ASSUME Inv, Reset PROVE Inv'
<1>1. UNCHANGED <<ran, hooks, busy, ready, channel, turn, heard, sent, missed>>
  BY DEF Reset, serviceVars
<1>2. /\ EmptySnapshot \in Snapshots
      /\ EmptySnapshot.done = {} /\ EmptySnapshot.pending = {}
      /\ \A t \in Tasks : EmptySnapshot.delivery[t] = Unregistered
  BY DEF EmptySnapshot, Snapshots
<1>3. ReportTypeOK
  BY DEF Inv
<1>4. mem' = EmptySnapshot /\ rows' \in {rows, EmptySnapshot} /\ rows' \in Snapshots
  BY <1>2, <1>3, WriteTypes DEF Reset
<1>5. ReportTypeOK'
  BY <1>1, <1>2, <1>3, <1>4 DEF ReportTypeOK
<1>6. OneVoice' /\ NoLostWakeUp' /\ ClearedWasHeard'
  BY <1>1, <1>2, <1>4 DEF Inv, OneVoice, NoLostWakeUp, ClearedWasHeard, Free,
                          HasChannel, At
<1>7. ASSUME NEW u \in Turns PROVE TurnInv(u)'
  <2>1. \A t \in turn[u].items : mem'.delivery[t] # "pending"
    BY <1>2, <1>3, <1>4, TurnFields DEF Unregistered
  <2> QED
    BY <1>1, <1>2, <1>4, <2>1 DEF Inv, TurnInv, Sending
<1>8. \A t \in Tasks : TaskInv(t)'
  BY <1>1, <1>2, <1>4 DEF Inv, TaskInv, At, Unregistered
<1> QED
  BY <1>5, <1>6, <1>7, <1>8 DEF Inv

\* A new process has told and sent nothing yet, and nobody will call the hook
\* for what is still pending.
LEMMA RestartStep == ASSUME Inv, Restart PROVE Inv'
<1>1. /\ mem' = rows /\ rows' = rows /\ hooks' = {} /\ busy' = FALSE
      /\ ready' = FALSE /\ channel' = NoChannel /\ missed' = rows.pending
      /\ ran \subseteq ran' /\ ran' \subseteq Tasks \cup ran
  BY DEF Restart
<1>2. ReportTypeOK /\ NoTurn \in TurnStates
  BY DEF Inv, NoTurn, TurnStates
<1>3. turn' \in [Turns -> TurnStates]
      /\ \A u \in Turns : turn'[u].at = "none" /\ turn'[u].items = {}
                          /\ turn'[u].todo = {}
  BY <1>2 DEF Restart, NoTurn
<1>4. /\ heard' \in [Tasks -> Times] /\ sent' \in [Tasks -> Times]
      /\ \A t \in Tasks : /\ heard'[t] # "now" /\ sent'[t] # "now"
                          /\ heard'[t] = "never" <=> heard[t] = "never"
                          /\ sent'[t] = "never" <=> sent[t] = "never"
  BY <1>2 DEF Restart, ReportTypeOK, Times
<1>5. ReportTypeOK'
  BY <1>1, <1>2, <1>3, <1>4 DEF ReportTypeOK, Snapshots
<1>6. OneVoice' /\ NoLostWakeUp'
  BY <1>1, <1>3 DEF OneVoice, NoLostWakeUp, Free
<1>7. ClearedWasHeard'
  <2>1. rows.done \subseteq Tasks
    BY <1>2 DEF ReportTypeOK, Snapshots
  <2> QED
    BY <1>1, <1>4, <2>1 DEF Inv, ClearedWasHeard
<1>8. \A u \in Turns : TurnInv(u)'
  BY <1>3, FreeTurn
<1>9. \A t \in Tasks : TaskInv(t)'
  BY <1>1, <1>4 DEF Inv, TaskInv
<1> QED
  BY <1>5, <1>6, <1>7, <1>8, <1>9 DEF Inv

\* Nothing happens.
LEMMA StutterStep == ASSUME Inv, UNCHANGED reportVars PROVE Inv'
<1>1. ReportTypeOK' /\ OneVoice' /\ NoLostWakeUp' /\ ClearedWasHeard'
  BY DEF Inv, reportVars, ReportTypeOK, OneVoice, NoLostWakeUp, ClearedWasHeard,
         Free, HasChannel, At
<1>2. \A u \in Turns : TurnInv(u)'
  BY DEF Inv, reportVars, TurnInv, Sending
<1>3. \A t \in Tasks : TaskInv(t)'
  BY DEF Inv, reportVars, TaskInv, At
<1> QED
  BY <1>1, <1>2, <1>3 DEF Inv

-----------------------------------------------------------------------------
(* The theorems. *)

\* Every step preserves the invariant.
LEMMA InvNext == Inv /\ [ReportNext]_reportVars => Inv'
<1> SUFFICES ASSUME Inv, [ReportNext]_reportVars PROVE Inv'
  OBVIOUS
<1>1. CASE \E t \in Tasks : Conclude(t) \/ ConcludeIgnored(t)
  BY <1>1, ConcludeStep, ConcludeIgnoredStep
<1>2. CASE \E t \in Tasks : TryDeliverTaskResultReports(t)
  BY <1>2, HookStep
<1>3. CASE \E u \in Turns, c \in Channels : BeginVoiceTurn(u, c)
  BY <1>3, BeginVoiceTurnStep
<1>4. ASSUME NEW u \in Turns, TurnStep(u) PROVE Inv'
  BY <1>4, MainReplyStep, ListPendingStep, ListDeliveriesStep, ResolveStep,
     DeliverStep, MarkDeliveryStep, SpeakStep, MarkReportedStep, FinishStep
     DEF TurnStep
<1>5. CASE Reset
  BY <1>5, ResetStep
<1>6. CASE Restart
  BY <1>6, RestartStep
<1>7. CASE UNCHANGED reportVars
  BY <1>7, StutterStep
<1> QED
  BY <1>1, <1>2, <1>3, <1>4, <1>5, <1>6, <1>7 DEF ReportNext

\* The invariant holds of every reachable state.
THEOREM Invariance == ReportSpec => []Inv
<1> QED
  BY InvInit, InvNext, PTL DEF ReportSpec

\* The variables have their types.
THEOREM TypeCorrect == ReportSpec => []ReportTypeOK
<1>1. Inv => ReportTypeOK
  BY DEF Inv
<1> QED
  BY <1>1, Invariance, PTL

\* However hooks, texts and the ends of turns interleave, one turn at most is
\* in progress, and the service is busy exactly then.
THEOREM OneTurnAtATime == ReportSpec => []OneVoice
<1>1. Inv => OneVoice
  BY DEF Inv
<1> QED
  BY <1>1, Invariance, PTL

\* A report that is pending, and was not tried in vain, has somebody who will
\* come for it.
THEOREM WakeUpsAreKept == ReportSpec => []NoLostWakeUp
<1>1. Inv => NoLostWakeUp
  BY DEF Inv
<1> QED
  BY <1>1, Invariance, PTL

\* A report is cleared only after it was heard, whatever is saved of it.
THEOREM OnlyToldIsCleared == ReportSpec => []ClearedWasHeard
<1>1. Inv => ClearedWasHeard
  BY DEF Inv
<1> QED
  BY <1>1, Invariance, PTL

\* A report that is spoken knows what became of every artifact it names.
THEOREM ReportsFollowDeliveries == ReportSpec => []ArtifactsBeforeReport
<1>1. Inv => ArtifactsBeforeReport
  BY DEF Inv, TurnInv, ArtifactsBeforeReport, At
<1> QED
  BY <1>1, Invariance, PTL

\* No result is told twice by one process.
THEOREM ToldOnce == ReportSpec => NeverToldTwice
<1>1. Inv /\ [ReportNext]_reportVars =>
        \A u \in Turns : At(u, "speak") /\ At(u, "mark")' =>
          \A t \in turn[u].items : heard[t] # "now"
  BY DEF Inv, TurnInv, At
<1>2. ReportSpec => [][\A u \in Turns : At(u, "speak") /\ At(u, "mark")' =>
                         \A t \in turn[u].items : heard[t] # "now"]_reportVars
  BY <1>1, Invariance, PTL DEF ReportSpec
<1> QED
  BY <1>2 DEF NeverToldTwice

\* Only a turn that sends an artifact has just sent it.
LEMMA OnlyDeliverSends ==
  ASSUME ReportTypeOK, NEW u \in Turns, ReportNext, At(u, "send"),
         At(u, "delivered")'
  PROVE  turn'[u].now \in turn[u].todo
<1>1. turn[u].at = "send" /\ turn'[u].at = "delivered" /\ turn'[u] # turn[u]
  BY DEF At
<1>2. ASSUME NEW v \in Turns, v # u,
             \/ turn' = [turn EXCEPT ![v] = NoTurn]
             \/ \E p, items, todo, now : Become(v, p, items, todo, now)
      PROVE  FALSE
  BY <1>1, <1>2 DEF ReportTypeOK, Become
<1>3. ASSUME NEW v \in Turns, NEW p, Begin(v, p), v # u PROVE FALSE
  BY <1>2, <1>3 DEF Begin
<1>4. ASSUME NEW v \in Turns, TurnStep(v), v # u PROVE FALSE
  <2>1. \/ turn' = [turn EXCEPT ![v] = NoTurn]
        \/ \E p, items, todo, now : Become(v, p, items, todo, now)
    BY <1>4 DEF TurnStep, MainReply, ListPendingResultReports,
         ListTaskArtifactDeliveries, ResolveDefaultChannel, DeliverTaskArtifact,
         MarkArtifactDelivery, SpeakReport, MarkResultReported, FinishVoiceTurn,
         Goto, Begin
  <2> QED
    BY <1>2, <1>4, <2>1
<1>5. TurnStep(u) => \E t \in Tasks : DeliverTaskArtifact(u, t)
  BY <1>1 DEF TurnStep, MainReply, ListPendingResultReports,
       ListTaskArtifactDeliveries, ResolveDefaultChannel, MarkArtifactDelivery,
       SpeakReport, MarkResultReported, FinishVoiceTurn, At
<1>6. ASSUME NEW t \in Tasks, DeliverTaskArtifact(u, t)
      PROVE  turn'[u].now \in turn[u].todo
  BY <1>6 DEF DeliverTaskArtifact, Become, ReportTypeOK
<1>7. \A t \in Tasks : ~Conclude(t) /\ ~ConcludeIgnored(t)
  BY <1>1 DEF Conclude, ConcludeIgnored
<1>8. \A t \in Tasks : ~TryDeliverTaskResultReports(t)
  BY <1>1, <1>3 DEF TryDeliverTaskResultReports, Free
<1>9. \A v \in Turns, c \in Channels : ~BeginVoiceTurn(v, c)
  BY <1>1, <1>3 DEF BeginVoiceTurn, Free
<1>10. ~Reset /\ ~Restart
  BY <1>1 DEF Reset, Restart, NoTurn
<1> QED
  BY <1>4, <1>5, <1>6, <1>7, <1>8, <1>9, <1>10 DEF ReportNext

\* What has been sent is changed by the sending, and forgotten by no step.
LEMMA SentSteps ==
  ASSUME ReportNext
  PROVE  \/ sent' = sent
         \/ mem' = mem
         \/ sent' = [t \in Tasks |-> IF sent[t] = "now" THEN "before" ELSE sent[t]]
<1>1. ASSUME NEW u \in Turns, TurnStep(u) PROVE sent' = sent \/ mem' = mem
  BY <1>1 DEF TurnStep, MainReply, ListPendingResultReports,
       ListTaskArtifactDeliveries, ResolveDefaultChannel, DeliverTaskArtifact,
       MarkArtifactDelivery, SpeakReport, MarkResultReported, FinishVoiceTurn,
       managerVars
<1> QED
  BY <1>1 DEF ReportNext, Conclude, ConcludeIgnored, TryDeliverTaskResultReports,
       BeginVoiceTurn, Reset, Restart

\* No artifact is sent twice by one process once it was taken, and none counts
\* as delivered that was never sent.
THEOREM SentOnce == ReportSpec => DeliveredOnce
<1>1. ASSUME Inv, [ReportNext]_reportVars, Inv',
             NEW t \in Tasks, NEW u \in Turns, ~UNCHANGED reportVars
      PROVE  /\ At(u, "send") /\ At(u, "delivered")' => sent[turn'[u].now] # "now"
             /\ mem'.delivery[t] = "delivered" => sent[t] # "never"
  <2>1. SUFFICES ASSUME At(u, "send"), At(u, "delivered")'
                 PROVE  sent[turn'[u].now] # "now"
    BY <1>1, SentSteps DEF Inv, TaskInv
  <2>2. turn'[u].now \in turn[u].todo
    BY <1>1, <2>1, OnlyDeliverSends DEF Inv
  <2> QED
    BY <1>1, <2>1, <2>2 DEF Inv, TurnInv, At, Sending
<1>2. Inv /\ [ReportNext]_reportVars /\ Inv' =>
        [\A t \in Tasks, u \in Turns :
           /\ At(u, "send") /\ At(u, "delivered")' =>
                sent[turn'[u].now] # "now"
           /\ mem'.delivery[t] = "delivered" => sent[t] # "never"]_reportVars
  BY <1>1
<1>3. ReportSpec =>
        [][\A t \in Tasks, u \in Turns :
             /\ At(u, "send") /\ At(u, "delivered")' =>
                  sent[turn'[u].now] # "now"
             /\ mem'.delivery[t] = "delivered" => sent[t] # "never"]_reportVars
  BY <1>2, Invariance, PTL DEF ReportSpec
<1> QED
  BY <1>3 DEF DeliveredOnce

=============================================================================
