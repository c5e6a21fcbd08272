----------------------------- MODULE IMDelivery -----------------------------
(***************************************************************************)
(* The IM gateway (im/service.go, im/store.go) and the part of the runtime *)
(* settings that selects where it delivers (settings/store.go).  Each call *)
(* that writes to one of the two stores is one transaction and one action; *)
(* an operation of the service is several of them, and nothing is locked   *)
(* in between.  A check reads an account and then its target, the fallback *)
(* both lists; the two reads are one action, and nothing is written before *)
(* the check has ended.                                                    *)
(*                                                                         *)
(* Callers are what may be in progress at once: requests, of the dashboard *)
(* or of the assistant that sends the artifacts of a task, and the loop    *)
(* that sends mirrored replies.  Names, tokens, events, texts and the last *)
(* error of an account are left out.                                       *)
(***************************************************************************)
EXTENDS Naturals, Sequences, FiniteSets

CONSTANTS
  Requests,     \* goroutines that serve a request, concurrently
  Logins,       \* WeChat accounts that can be logged in, by remote account ID
  Users,        \* WeChat users that can be targets
  Owner,        \* the user who scanned the code, for each login
  MaxAccounts,  \* bound of the account IDs
  MaxTargets,   \* bound of the target IDs
  QueueCap,     \* the capacity of Service.deliveries
  Faults        \* which of "save", "crash", "reset" may happen

ASSUME BoundsAssumption ==
  /\ MaxAccounts \in Nat /\ MaxTargets \in Nat
  /\ QueueCap \in Nat \ {0}
ASSUME OwnerAssumption == Owner \in [Logins -> Users]
ASSUME FaultsAssumption == Faults \subseteq {"save", "crash", "reset"}
ASSUME RequestsAssumption == "loop" \notin Requests

VARIABLES
  accounts,   \* im_accounts
  targets,    \* im_targets
  lastID,     \* the last account and target ID that nextID has made
  selection,  \* IMDeliveryEnabled and the selected IDs of the settings
  queue,      \* Service.deliveries: selections as they were when mirrored
  calls,      \* where each request and the delivery loop is
  unrepaired  \* history: a crash or a failed save has kept the selection from
              \* being repaired, or it was stored after its target had gone,
              \* and it has not been written since

storeVars == <<accounts, targets, lastID>>
imVars    == <<accounts, targets, lastID, selection, queue, calls, unrepaired>>

AccountIDs == 1..MaxAccounts
TargetIDs  == 1..MaxTargets
None       == 0   \* the empty ID

Accounts   == [id : AccountIDs, login : Logins]
Targets    == [id : TargetIDs, account : AccountIDs, user : Users,
               isDefault : BOOLEAN]
Selections == [enabled : BOOLEAN, account : AccountIDs \cup {None},
               target : TargetIDs \cup {None}]

Selection(on, a, t) == [enabled |-> on, account |-> a, target |-> t]
NothingSelected     == Selection(FALSE, None, None)

Callers == Requests \cup {"loop"}
Places  == {"idle", "login", "owner", "ownerTarget", "seed?", "seed",
            "target", "setDefault", "deleteTarget", "repair?", "repair", "update",
            "check", "fallback", "persist", "resolve", "send", "resetSettings"}

\* A call: its place, the account and target it is about, and what else it has
\* been given or has read.
Call(at, a, t, arg) == [at |-> at, account |-> a, target |-> t, arg |-> arg]
IdleCall            == Call("idle", None, None, None)

At(c, place)   == calls[c].at = place
Goto(c, place) == calls' = [calls EXCEPT ![c].at = place]
Set(c, call)   == calls' = [calls EXCEPT ![c] = call]
Done(c)        == Set(c, IdleCall)

Init ==
  /\ accounts = {}
  /\ targets = {}
  /\ lastID = [account |-> 0, target |-> 0]
  /\ selection = NothingSelected
  /\ queue = << >>
  /\ calls = [c \in Callers |-> IdleCall]
  /\ unrepaired = FALSE

-----------------------------------------------------------------------------
(* The stores. *)

AccountExists(a) == \E x \in accounts : x.id = a

\* resolveDelivery, deliverySelectionExists and UpdateDeliveryConfig ask for
\* the account first and for the target then.
\* Mutant: the target may belong to another account.
TargetIsThere(a, t) == AccountExists(a) /\ \E x \in targets : x.id = t
Deliverable(a, t) ==
  AccountExists(a) /\ \E x \in targets : x.id = t /\ x.account = a

ClearOtherDefaults(T, a, t) ==
  {IF x.account = a /\ x.id # t THEN [x EXCEPT !.isDefault = FALSE] ELSE x : x \in T}

\* Store.UpsertTarget: the target of the account with this user, or a new one.
UpsertTargetRow(a, u, setDefault, t) ==
  \/ /\ \E x \in targets :
          /\ x.account = a /\ x.user = u /\ t = x.id
          /\ LET new == [x EXCEPT !.isDefault = @ \/ setDefault]
             IN  targets' = IF new.isDefault
                            THEN ClearOtherDefaults((targets \ {x}) \cup {new}, a, t)
                            ELSE targets
     /\ UNCHANGED lastID
  \/ /\ \A x \in targets : ~(x.account = a /\ x.user = u)
     /\ t = lastID.target + 1
     /\ t <= MaxTargets
     /\ lastID' = [lastID EXCEPT !.target = t]
     /\ LET new == [id |-> t, account |-> a, user |-> u, isDefault |-> setDefault]
        IN  targets' = IF setDefault
                       THEN ClearOtherDefaults(targets \cup {new}, a, t)
                       ELSE targets \cup {new}

\* settings.UpdateIMDelivery; when the transaction fails nothing changes.
UpdateIMDelivery(new) ==
  \/ /\ selection' = new
     /\ unrepaired' = (new.enabled /\ ~Deliverable(new.account, new.target))
  \/ "save" \in Faults /\ UNCHANGED <<selection, unrepaired>>

\* The same, where it is to repair the selection.
ClearIMDelivery ==
  \/ selection' = NothingSelected /\ unrepaired' = FALSE
  \/ "save" \in Faults /\ unrepaired' = TRUE /\ UNCHANGED selection

-----------------------------------------------------------------------------
(* Logging in. *)

\* ConfirmWeChatLogin of a scan that was polled.  Which scans wait in
\* pendingLogins, for 30 minutes at most, is left open.
BeginConfirm(r, l) ==
  /\ At(r, "idle")
  /\ Set(r, Call("login", None, None, l))
  /\ UNCHANGED <<storeVars, selection, queue, unrepaired>>

UpsertAccount(r) ==
  /\ At(r, "login")
  /\ LET l == calls[r].arg
     IN  \/ /\ \E x \in accounts : x.login = l /\ Set(r, Call("owner", x.id, None, l))
            /\ UNCHANGED <<accounts, lastID>>
         \/ /\ \A x \in accounts : x.login # l
            /\ lastID.account < MaxAccounts
            /\ lastID' = [lastID EXCEPT !.account = @ + 1]
            /\ accounts' = accounts \cup {[id |-> lastID'.account, login |-> l]}
            /\ Set(r, Call("owner", lastID'.account, None, l))
  /\ UNCHANGED <<targets, selection, queue, unrepaired>>

\* EnsureOwnerTarget: hasDefaultTarget, then UpsertTarget.
ReadHasDefault(r) ==
  /\ At(r, "owner")
  /\ \E has \in BOOLEAN :
       /\ has <=> \E x \in targets : x.account = calls[r].account /\ x.isDefault
       /\ Set(r, [calls[r] EXCEPT !.at = "ownerTarget",
                                  !.arg = [login |-> @, hasDefault |-> has]])
  /\ UNCHANGED <<storeVars, selection, queue, unrepaired>>

\* Mutant: what was read of the defaults is believed, and none is cleared.
BelieveHasDefault(r) ==
  /\ At(r, "ownerTarget")
  /\ LET c == calls[r]
         t == lastID.target + 1
     IN  /\ t <= MaxTargets
         /\ \A x \in targets : ~(x.account = c.account /\ x.user = Owner[c.arg.login])
         /\ targets' = targets \cup {[id |-> t, account |-> c.account,
                                     user |-> Owner[c.arg.login],
                                     isDefault |-> ~c.arg.hasDefault]}
         /\ lastID' = [lastID EXCEPT !.target = t]
         /\ Set(r, Call("seed?", c.account, t, None))
  /\ UNCHANGED <<accounts, selection, queue, unrepaired>>
UpsertOwnerTarget(r) ==
  /\ At(r, "ownerTarget")
  /\ LET c == calls[r]
     IN  \E t \in TargetIDs :
           /\ UpsertTargetRow(c.account, Owner[c.arg.login], ~c.arg.hasDefault, t)
           /\ Set(r, Call("seed?", c.account, t, None))
  /\ UNCHANGED <<accounts, selection, queue, unrepaired>>

\* maybeSeedDefaultDeliverySelection
MaybeSeed(r) ==
  /\ At(r, "seed?")
  /\ IF selection.account # None /\ selection.target # None
     THEN Done(r) ELSE Goto(r, "seed")
  /\ UNCHANGED <<storeVars, selection, queue, unrepaired>>

Seed(r) ==
  /\ At(r, "seed")
  /\ UpdateIMDelivery(Selection(FALSE, calls[r].account, calls[r].target))
  /\ Done(r)
  /\ UNCHANGED <<storeVars, queue>>

-----------------------------------------------------------------------------
(* Targets and accounts. *)

BeginUpsertTarget(r, a, u, setDefault) ==
  /\ At(r, "idle")
  /\ AccountExists(a)
  /\ Set(r, Call("target", a, None, [user |-> u, setDefault |-> setDefault]))
  /\ UNCHANGED <<storeVars, selection, queue, unrepaired>>

UpsertTarget(r) ==
  /\ At(r, "target")
  /\ LET c == calls[r]
     IN  \E t \in TargetIDs :
           UpsertTargetRow(c.account, c.arg.user, c.arg.setDefault, t)
  /\ Done(r)
  /\ UNCHANGED <<accounts, selection, queue, unrepaired>>

BeginSetDefault(r, x) ==
  /\ At(r, "idle")
  /\ x \in targets
  /\ Set(r, Call("setDefault", x.account, x.id, None))
  /\ UNCHANGED <<storeVars, selection, queue, unrepaired>>

\* Store.SetDefaultTarget: without looking whether the target is still there.
SetDefaultTarget(r) ==
  /\ At(r, "setDefault")
  /\ targets' = {IF x.account = calls[r].account
                 THEN [x EXCEPT !.isDefault = (x.id = calls[r].target)] ELSE x :
                 x \in targets}
  /\ Done(r)
  /\ UNCHANGED <<accounts, lastID, selection, queue, unrepaired>>

BeginDeleteTarget(r, x) ==
  /\ At(r, "idle")
  /\ x \in targets
  /\ Set(r, Call("deleteTarget", x.account, x.id, None))
  /\ UNCHANGED <<storeVars, selection, queue, unrepaired>>

DeleteTarget(r) ==
  /\ At(r, "deleteTarget")
  /\ targets' = {x \in targets : x.id # calls[r].target}
  /\ Goto(r, "repair?")
  /\ UNCHANGED <<accounts, lastID, selection, queue, unrepaired>>

\* Nobody looks whether the account is still there: after a repair that failed
\* the same deletion may be tried again.
DeleteAccount(r, a) ==
  /\ At(r, "idle")
  /\ a <= lastID.account
  /\ accounts' = {x \in accounts : x.id # a}
  /\ targets' = {x \in targets : x.account # a}
  /\ Set(r, Call("repair?", a, None, None))
  /\ UNCHANGED <<lastID, selection, queue, unrepaired>>

\* repairDeliveryConfigAfterMutation: was it the selected account or target?
\* Mutant: only a deleted account is looked for.
RemovedAccount(a, t) == t = None /\ selection.account = a
RemovedSelected(a, t) ==
  \/ t = None /\ selection.account = a
  \/ t # None /\ selection.target = t

RepairIsNeeded(r) ==
  /\ At(r, "repair?")
  /\ IF RemovedSelected(calls[r].account, calls[r].target)
     THEN Goto(r, "repair") ELSE Done(r)
  /\ UNCHANGED <<storeVars, selection, queue, unrepaired>>

Repair(r) ==
  /\ At(r, "repair")
  /\ ClearIMDelivery
  /\ Done(r)
  /\ UNCHANGED <<storeVars, queue>>

-----------------------------------------------------------------------------
(* Choosing where to deliver. *)

\* UpdateDeliveryConfig of a selection that is to be enabled: it is checked.
BeginUpdate(r, a, t) ==
  /\ At(r, "idle")
  /\ Deliverable(a, t)
  /\ Set(r, Call("update", a, t, TRUE))
  /\ UNCHANGED <<storeVars, selection, queue, unrepaired>>

\* UpdateDeliveryConfig of one that is to be disabled: nothing is checked.  The
\* dashboard may send any account with any target that it has seen, also one of
\* another account or one that is gone, or leave either empty.
BeginDisable(r, a, t) ==
  /\ At(r, "idle")
  /\ a <= lastID.account
  /\ t <= lastID.target
  /\ Set(r, Call("update", a, t, FALSE))
  /\ UNCHANGED <<storeVars, selection, queue, unrepaired>>

UpdateDeliveryConfig(r) ==
  /\ At(r, "update")
  /\ UpdateIMDelivery(Selection(calls[r].arg, calls[r].account, calls[r].target))
  /\ Done(r)
  /\ UNCHANGED <<storeVars, queue>>

\* chooseFallbackTargetForAccount: the default target, or the only one.
FallbackTarget(a, x) ==
  /\ x \in targets
  /\ x.account = a
  /\ \/ x.isDefault
     \/ {y \in targets : y.account = a} = {x}

\* findFallbackDeliverySelection: the selected account, or the only one.
FallbackAccounts(preferred) ==
  IF AccountExists(preferred) THEN {preferred}
  ELSE IF Cardinality(accounts) = 1 THEN {x.id : x \in accounts} ELSE {}

\* resolveDefaultDeliverySelection, called for a debug message and for the
\* artifacts of a task.
BeginSend(r) ==
  /\ At(r, "idle")
  /\ IF selection.account # None /\ selection.target # None
     THEN Set(r, Call("check", selection.account, selection.target, None))
     ELSE Set(r, Call("fallback", selection.account, None, None))
  /\ UNCHANGED <<storeVars, selection, queue, unrepaired>>

\* deliverySelectionExists
CheckSelection(r) ==
  /\ At(r, "check")
  /\ IF Deliverable(calls[r].account, calls[r].target)
     THEN Goto(r, "resolve")
     ELSE Set(r, Call("fallback", calls[r].account, None, None))
  /\ UNCHANGED <<storeVars, selection, queue, unrepaired>>

FindFallback(r) ==
  /\ At(r, "fallback")
  /\ LET found == {x \in targets : \E a \in FallbackAccounts(calls[r].account) :
                                      FallbackTarget(a, x)}
     IN  IF found = {} THEN Done(r)
         ELSE \E x \in found : Set(r, Call("persist", x.account, x.id, None))
  /\ UNCHANGED <<storeVars, selection, queue, unrepaired>>

\* Mutant: the fallback keeps the mirror switched on.
PersistEnabled(r) ==
  Selection(selection.enabled, calls[r].account, calls[r].target)
PersistedFallback(r) == Selection(FALSE, calls[r].account, calls[r].target)

PersistFallback(r) ==
  /\ At(r, "persist")
  /\ UpdateIMDelivery(PersistedFallback(r))
  /\ Goto(r, "resolve")
  /\ UNCHANGED <<storeVars, queue>>

-----------------------------------------------------------------------------
(* Delivering. *)

\* resolveDelivery
Resolve(c) ==
  /\ At(c, "resolve")
  /\ IF Deliverable(calls[c].account, calls[c].target)
     THEN Goto(c, "send") ELSE Done(c)
  /\ UNCHANGED <<storeVars, selection, queue, unrepaired>>

\* The adapter has answered, or its 20 or 45 seconds are over.
Send(c) ==
  /\ At(c, "send")
  /\ Done(c)
  /\ UNCHANGED <<storeVars, selection, queue, unrepaired>>

\* Mutant: the queue takes one text more than it has room for.
RoomForOneMore == Len(queue) <= QueueCap
QueueHasRoom == Len(queue) < QueueCap

\* MirrorText of a reply; when the queue is full the text is dropped.
MirrorText ==
  /\ selection.enabled
  /\ QueueHasRoom
  /\ queue' = Append(queue, selection)
  /\ UNCHANGED <<storeVars, selection, calls, unrepaired>>

\* runDeliveryLoop
TakeText ==
  /\ At("loop", "idle")
  /\ queue # << >>
  /\ Set("loop", Call("resolve", Head(queue).account, Head(queue).target, None))
  /\ queue' = Tail(queue)
  /\ UNCHANGED <<storeVars, selection, unrepaired>>

-----------------------------------------------------------------------------
(* Reset and restart. *)

\* Service.Reset: the tables, then the settings; never the queue.
BeginReset(r) ==
  /\ "reset" \in Faults
  /\ At(r, "idle")
  /\ accounts' = {}
  /\ targets' = {}
  /\ Goto(r, "resetSettings")
  /\ UNCHANGED <<lastID, selection, queue, unrepaired>>

ResetSettings(r) ==
  /\ At(r, "resetSettings")
  /\ ClearIMDelivery
  /\ Done(r)
  /\ UNCHANGED <<storeVars, queue>>

\* The tables and the settings survive.
Restart ==
  /\ "crash" \in Faults
  /\ queue' = << >>
  /\ calls' = [c \in Callers |-> IdleCall]
  /\ unrepaired' =
       (unrepaired \/ (selection.enabled /\
                       ~Deliverable(selection.account, selection.target)))
  /\ UNCHANGED <<storeVars, selection>>

-----------------------------------------------------------------------------
ConfirmStep(r) ==
  \/ UpsertAccount(r) \/ ReadHasDefault(r) \/ UpsertOwnerTarget(r)
  \/ MaybeSeed(r) \/ Seed(r)

BeginRequest(r) ==
  \/ \E l \in Logins : BeginConfirm(r, l)
  \/ \E a \in AccountIDs, u \in Users, d \in BOOLEAN : BeginUpsertTarget(r, a, u, d)
  \/ \E x \in targets : BeginSetDefault(r, x) \/ BeginDeleteTarget(r, x)
  \/ \E a \in AccountIDs, t \in TargetIDs : BeginUpdate(r, a, t)
  \/ \E a \in AccountIDs \cup {None}, t \in TargetIDs \cup {None} :
       BeginDisable(r, a, t)
  \/ \E a \in AccountIDs : DeleteAccount(r, a)
  \/ BeginReset(r)

RequestStep(r) ==
  \/ ConfirmStep(r)
  \/ UpsertTarget(r) \/ SetDefaultTarget(r)
  \/ DeleteTarget(r) \/ RepairIsNeeded(r) \/ Repair(r)
  \/ UpdateDeliveryConfig(r)
  \/ ResetSettings(r)

SendStep(r) ==
  \/ BeginSend(r) \/ CheckSelection(r) \/ FindFallback(r) \/ PersistFallback(r)

Next ==
  \/ \E r \in Requests : BeginRequest(r) \/ RequestStep(r) \/ SendStep(r)
  \/ \E c \in Callers : Resolve(c) \/ Send(c)
  \/ MirrorText
  \/ TakeText
  \/ Restart

Spec == Init /\ [][Next]_imVars

-----------------------------------------------------------------------------
(* Properties. *)

\* The types of the variables; the IDs in use are among those handed out.
IMTypeOK ==
  /\ accounts \subseteq Accounts
  /\ targets \subseteq Targets
  /\ lastID \in [account : 0..MaxAccounts, target : 0..MaxTargets]
  /\ \A x \in accounts : x.id <= lastID.account
  /\ \A x \in targets : x.id <= lastID.target
  /\ selection \in Selections
  /\ queue \in Seq(Selections)
  /\ Len(queue) <= QueueCap
  /\ \A c \in Callers : calls[c].at \in Places
  /\ unrepaired \in BOOLEAN

\* The tables keep their order under concurrent logins, upserts and deletions,
\* although a login asks for a default target before it makes the owner's, and
\* an upsert for the account: an ID names one row, a user is one target of an
\* account, and an account has one default target at most, so that the fallback
\* is determined.  Another request may write between the question and the use.
TablesAreSound ==
  /\ \A x, y \in accounts : x.id = y.id \/ x.login = y.login => x = y
  /\ \A x, y \in targets :
       \/ x.id = y.id
       \/ x.account = y.account /\ (x.user = y.user \/ (x.isDefault /\ y.isDefault))
       => x = y

\* A call that is about to save what it has found, or to send to it.
Aims(k) == \/ k.at \in {"seed?", "seed", "persist", "resolve", "send"}
           \/ k.at = "update" /\ k.arg = TRUE

\* Whatever the settings come to hold, nothing is delivered across accounts: a
\* mirror that is on, a text that is queued for it, and a call about to send or
\* to save what it has found aim at no target of another account.  Only a
\* selection that is off may name one, because UpdateDeliveryConfig stores it
\* unchecked; who reads it later has to check.
NeverCrossesAccounts ==
  LET aims == {s \in {selection} : s.enabled} \cup
              {queue[i] : i \in DOMAIN queue} \cup
              {calls[c] : c \in {c \in Callers : Aims(calls[c])}}
  IN  \A s \in aims, x \in targets : x.id = s.target => x.account = s.account

\* A mirror that is on does not move to another target behind the user's back:
\* seeds and fallbacks switch it off, only an update aims and starts it.
MirrorNeverMoves ==
  [][selection'.enabled /\ selection' # selection =>
       \E r \in Requests : At(r, "update") /\ calls[r].arg]_imVars

\* im/service_test.go:523, TestServiceDeleteSelectedTargetDisablesDelivery: a
\* deletion switches the mirror off.  While it is on, its target is there, or a
\* request is about to switch it off, unless the process or the settings have
\* failed at that, or the update that switched it on was stored after a deletion
\* that came between its check and its write.
MirrorHasTarget ==
  \/ selection.enabled => Deliverable(selection.account, selection.target)
  \/ \E r \in Requests : calls[r].at \in {"repair?", "repair", "resetSettings"}
  \/ unrepaired

=============================================================================
