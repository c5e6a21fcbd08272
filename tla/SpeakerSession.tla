--------------------------- MODULE SpeakerSession ---------------------------
(***************************************************************************)
(* The WebSocket connections of the speaker and the calls made over them:  *)
(* src/internal/server/session.go and server.go.                           *)
(*                                                                         *)
(* A call registers a channel under a new request id, writes the request   *)
(* and waits for the answer or for a timeout.  The read loop of the        *)
(* connection looks the id up, and sends the answer into the channel it    *)
(* found.  The two share the table of pending requests, under pendingMu.   *)
(*                                                                         *)
(* The speaker is external: it may answer each request, in any order and   *)
(* at any time, also after the caller has gone; with the fault "duplicate" *)
(* it may answer one several times.                                        *)
(***************************************************************************)
EXTENDS Naturals, FiniteSets

CONSTANTS
  Sessions,   \* connections that the speaker may open
  Callers,    \* goroutines that call RunShell
  MaxCalls,   \* bound of the number of calls
  LinkFaults  \* the disturbances of the link

ASSUME MaxCallsAssumption == MaxCalls \in Nat
ASSUME LinkFaultsAssumption ==
  LinkFaults \subseteq {"write",      \* a request cannot be written
                        "close",      \* a connection ends, or goes silent
                        "duplicate"}  \* an answer comes several times

VARIABLES
  conn,        \* is a session still to come, open, or closed?
  active,      \* ConnectionStatus.ActiveSessions
  requestSeq,  \* the counter the request ids are made of
  pending,     \* Session.pending: which channel waits for which id
  buffer,      \* what the channel of each call holds
  reader,      \* the answer each read loop has looked up and not yet sent
  wire,        \* the requests that the speaker has got
  call         \* where the call of each caller is

linkVars == <<conn, active, requestSeq, pending, buffer, reader, wire, call>>

Calls    == 1..MaxCalls
Answers  == [id : Calls, of : Calls, ok : BOOLEAN]
Entries  == [id : Calls, chan : Calls]

\* A channel is named by the number of the call that made it; `of` is the
\* number of the call whose request an answer belongs to.
NoCall   == [at |-> "none"]
NoAnswer == [id |-> 0]

OpenConnections == {s \in Sessions : conn[s] = "open"}

LinkInit ==
  /\ conn = [s \in Sessions |-> "new"]
  /\ active = 0
  /\ requestSeq = 0
  /\ pending = [s \in Sessions |-> {}]
  /\ buffer = [n \in Calls |-> {}]
  /\ reader = [s \in Sessions |-> NoAnswer]
  /\ wire = [s \in Sessions |-> {}]
  /\ call = [c \in Callers |-> NoCall]

-----------------------------------------------------------------------------
(* call, by a goroutine that is not the read loop. *)

\* Mutant: the ids are numbered by what is pending.
CountsPending(s) == Cardinality(pending[s]) + 1
RequestID(s) == requestSeq + 1

Registered(s) ==
  {e \in pending[s] : e.id # RequestID(s)}
    \cup {[id |-> RequestID(s), chan |-> requestSeq + 1]}

Unregistered(s, id) == {e \in pending[s] : e.id # id}

\* The channel is registered, then the request is written.  Nobody else knows
\* the id in between, so that the two are one step.
StartCall(c, s) ==
  /\ call[c] = NoCall
  /\ requestSeq < MaxCalls
  /\ conn[s] = "open"
  /\ requestSeq' = requestSeq + 1
  /\ pending' = [pending EXCEPT ![s] = Registered(s)]
  /\ wire' = [wire EXCEPT ![s] =
                @ \cup {[id |-> RequestID(s), of |-> requestSeq + 1]}]
  /\ call' = [call EXCEPT ![c] = [at |-> "waiting", session |-> s,
                                  id |-> RequestID(s), chan |-> requestSeq + 1]]
  /\ UNCHANGED <<conn, active, buffer, reader>>

\* The caller gets an answer, or an error; `of` is the call that the answer
\* belongs to, 0 for none.
Returned(n, of, ok) == [at |-> "returned", chan |-> n, of |-> of, ok |-> ok]

\* The write fails, and the channel is unregistered again.
StartFails(c, s) ==
  /\ call[c] = NoCall
  /\ requestSeq < MaxCalls
  /\ conn[s] = "open" => "write" \in LinkFaults
  /\ requestSeq' = requestSeq + 1
  /\ pending' = [pending EXCEPT ![s] = Unregistered(s, RequestID(s))]
  /\ call' = [call EXCEPT ![c] = Returned(requestSeq + 1, 0, FALSE)]
  /\ UNCHANGED <<conn, active, buffer, reader, wire>>

Call(c, s) == StartCall(c, s) \/ StartFails(c, s)

\* The select of call.  When both are there, either case may be taken.
TakeAnswer(c) ==
  /\ call[c].at = "waiting"
  /\ \E a \in buffer[call[c].chan] :
       /\ buffer' = [buffer EXCEPT ![call[c].chan] = @ \ {a}]
       /\ call' = [call EXCEPT ![c] = Returned(@.chan, a.of, a.ok)]
  /\ UNCHANGED <<conn, active, requestSeq, pending, reader, wire>>

Timeout(c) ==
  /\ call[c].at = "waiting"
  /\ LET s == call[c].session
     IN  pending' = [pending EXCEPT ![s] = Unregistered(s, call[c].id)]
  /\ call' = [call EXCEPT ![c] = Returned(@.chan, 0, FALSE)]
  /\ UNCHANGED <<conn, active, requestSeq, buffer, reader, wire>>

\* The caller goes on with what call has returned.
EndCall(c) ==
  /\ call[c].at = "returned"
  /\ call' = [call EXCEPT ![c] = NoCall]
  /\ UNCHANGED <<conn, active, requestSeq, pending, buffer, reader, wire>>

-----------------------------------------------------------------------------
(* handleWebSocket, the read loop of one connection. *)

Connect(s) ==
  /\ conn[s] = "new"
  /\ conn' = [conn EXCEPT ![s] = "open"]
  /\ active' = active + 1
  /\ UNCHANGED <<requestSeq, pending, buffer, reader, wire, call>>

\* ReadMessage returns an error: the connection ended, or nothing came in time.
\* Who waits for an answer is not told.
Disconnect(s) ==
  /\ "close" \in LinkFaults
  /\ conn[s] = "open"
  /\ reader[s] = NoAnswer
  /\ conn' = [conn EXCEPT ![s] = "closed"]
  /\ active' = IF active > 0 THEN active - 1 ELSE 0
  /\ wire' = [wire EXCEPT ![s] = {}]
  /\ UNCHANGED <<requestSeq, pending, buffer, reader, call>>

\* Mutant: the request stays pending when its answer has come.
KeepsEntry(s, e) == pending[s]
WithoutEntry(s, e) == pending[s] \ {e}

Pending(s, q) == {e \in pending[s] : e.id = q.id}

\* A bound of the model only: the speaker repeats the answer to one request at
\* a time.
MayRepeat(s) ==
  /\ "duplicate" \in LinkFaults
  /\ \A r \in wire[s] : Pending(s, r) # {}

\* onResponse up to the unlock.  An id that is not pending is ignored.
LookUpResponse(s) ==
  /\ conn[s] = "open"
  /\ reader[s] = NoAnswer
  /\ \E q \in wire[s], ok \in BOOLEAN :
       /\ \/ wire' = [wire EXCEPT ![s] = @ \ {q}]
          \/ MayRepeat(s) /\ wire' = wire
       /\ LET found == Pending(s, q)
          IN  \/ /\ found = {}
                 /\ UNCHANGED <<pending, reader>>
              \/ \E e \in found :
                   /\ pending' = [pending EXCEPT ![s] = WithoutEntry(s, e)]
                   /\ reader' = [reader EXCEPT ![s] =
                        [id |-> q.id, of |-> q.of, ok |-> ok, chan |-> e.chan]]
  /\ UNCHANGED <<conn, active, requestSeq, buffer, call>>

\* make(chan responseMessage, 1)
HasRoom(n) == buffer[n] = {}

\* The send into the channel, outside of the lock; it waits for room.
SendResponse(s) ==
  /\ reader[s] # NoAnswer
  /\ HasRoom(reader[s].chan)
  /\ buffer' = [buffer EXCEPT ![reader[s].chan] =
                  {[id |-> reader[s].id, of |-> reader[s].of, ok |-> reader[s].ok]}]
  /\ reader' = [reader EXCEPT ![s] = NoAnswer]
  /\ UNCHANGED <<conn, active, requestSeq, pending, wire, call>>

-----------------------------------------------------------------------------
\* The steps that do not belong to a caller.
ServerStep ==
  \/ \E s \in Sessions : Connect(s)
  \/ \E s \in Sessions : Disconnect(s)
  \/ \E s \in Sessions : LookUpResponse(s)
  \/ \E s \in Sessions : SendResponse(s)

\* A call on its way, up to its return.
CallStep(c) ==
  \/ TakeAnswer(c)
  \/ Timeout(c)

LinkNext ==
  \/ ServerStep
  \/ \E c \in Callers : CallStep(c) \/ EndCall(c)
  \/ \E c \in Callers, s \in Sessions : Call(c, s)

LinkSpec == LinkInit /\ [][LinkNext]_linkVars

-----------------------------------------------------------------------------
(* Properties. *)

CallStates ==
  {NoCall}
    \cup [at : {"waiting"}, session : Sessions, id : Calls,
          chan : Calls]
    \cup [at : {"returned"}, chan : Calls, of : Calls \cup {0}, ok : BOOLEAN]

\* The types of the variables.
LinkTypeOK ==
  /\ conn \in [Sessions -> {"new", "open", "closed"}]
  /\ active \in Nat
  /\ requestSeq \in 0..MaxCalls
  /\ pending \in [Sessions -> SUBSET Entries]
  /\ buffer \in [Calls -> SUBSET Answers]
  /\ reader \in [Sessions -> {NoAnswer} \cup [id : Calls, of : Calls, ok : BOOLEAN,
                                               chan : Calls]]
  /\ wire \in [Sessions -> SUBSET [id : Calls, of : Calls]]
  /\ call \in [Callers -> CallStates]

\* An answer reaches the call whose request it answers and no other: the answer
\* to a call that has timed out is not taken for that of a later one.
AnswerOfItsCall ==
  \A c \in Callers :
    call[c].at = "returned" => call[c].of \in {0, call[c].chan}

\* The send of onResponse finds room: callers that have gone, late and repeated
\* answers never stop the read loop, on which all later input depends.
ReadLoopMoves ==
  \A s \in Sessions : reader[s] # NoAnswer => HasRoom(reader[s].chan)

=============================================================================
