------------------------- MODULE SpeakerSessionProofs -------------------------
(***************************************************************************)
(* What the calls to the speaker promise, for every number of connections, *)
(* callers and calls, and whatever the link does.                          *)
(*                                                                         *)
(* The argument: the ids are numbers that have not been used before, so    *)
(* that an entry of pending, a request, an answer on its way and an answer *)
(* in a channel all carry the number of one call (SameCall); and a call is *)
(* in one of these places at a time: still pending, or taken by a read     *)
(* loop, or answered in its channel (OnePlace), because the read loop takes *)
(* the entry out before it sends.                                          *)
(***************************************************************************)
EXTENDS SpeakerSession, FiniteSetTheorems, TLAPS

\* Whatever belongs to a call carries its number, and that was given out.
SameCall ==
  /\ \A s \in Sessions : \A e \in pending[s] : e.id = e.chan /\ e.id <= requestSeq
  /\ \A s \in Sessions : \A q \in wire[s] : q.id = q.of
  /\ \A s \in Sessions :
       reader[s] # NoAnswer => /\ reader[s].of = reader[s].chan
                               /\ reader[s].chan <= requestSeq
  /\ \A n \in Calls : \A a \in buffer[n] : a.of = n
  /\ \A n \in Calls : n > requestSeq => buffer[n] = {}
  /\ \A c \in Callers : call[c].at = "waiting" => call[c].id = call[c].chan

\* A call is pending once, or taken by one read loop, or has its answer.
OnePlace ==
  /\ \A s, r \in Sessions : \A e \in pending[s], f \in pending[r] :
       e.chan = f.chan => s = r
  /\ \A s, r \in Sessions : \A e \in pending[s] :
       reader[r] # NoAnswer => reader[r].chan # e.chan
  /\ \A s, r \in Sessions :
       reader[s] # NoAnswer /\ reader[r] # NoAnswer
         /\ reader[s].chan = reader[r].chan => s = r
  /\ \A s \in Sessions : \A e \in pending[s] : buffer[e.chan] = {}

\* ConnectionStatus counts the connections that are open.
Counted == IsFiniteSet(OpenConnections) /\ active = Cardinality(OpenConnections)

LinkInv == LinkTypeOK /\ SameCall /\ OnePlace /\ AnswerOfItsCall /\ ReadLoopMoves

-----------------------------------------------------------------------------
LEMMA LinkInitOK == LinkInit => LinkInv
  BY MaxCallsAssumption
     DEF LinkInit, LinkInv, LinkTypeOK, SameCall, OnePlace, AnswerOfItsCall,
         ReadLoopMoves, CallStates, NoCall, NoAnswer, Entries, Answers, Calls,
         HasRoom

LEMMA StartCallStep ==
  ASSUME LinkInv, NEW c \in Callers, NEW s \in Sessions, StartCall(c, s)
  PROVE  LinkInv'
<1> USE MaxCallsAssumption DEF LinkInv, Calls
<1> DEFINE n == requestSeq + 1
<1>1. n \in Calls /\ requestSeq \in Nat
  BY DEF StartCall, LinkTypeOK
<1>2. requestSeq' = n /\ RequestID(s) = n
  BY DEF StartCall, RequestID
<1>3. \A r \in Sessions : \A e \in pending'[r] :
         e \in pending[r] \/ (r = s /\ e = [id |-> n, chan |-> n])
  BY <1>2 DEF StartCall, Registered, LinkTypeOK
<1>4. \A r \in Sessions : \A e \in pending[r] :
        e \in Entries /\ e.id = e.chan /\ e.id < n
  BY <1>1 DEF LinkTypeOK, SameCall, Entries
<1>5. LinkTypeOK'
  <2>1. [id |-> n, chan |-> n] \in Entries /\ [id |-> n, of |-> n] \in [id : Calls, of : Calls]
    BY <1>1 DEF Entries
  <2>2. pending' \in [Sessions -> SUBSET Entries]
    BY <1>2, <2>1 DEF StartCall, Registered, LinkTypeOK
  <2>3. wire' \in [Sessions -> SUBSET [id : Calls, of : Calls]]
    BY <1>2, <2>1 DEF StartCall, LinkTypeOK
  <2>4. call' \in [Callers -> CallStates]
    BY <1>1, <1>2 DEF StartCall, LinkTypeOK, CallStates
  <2> QED BY <1>1, <1>2, <2>2, <2>3, <2>4 DEF StartCall, LinkTypeOK
<1>6. SameCall'
  <2>1. \A r \in Sessions : \A e \in pending'[r] : e.id = e.chan /\ e.id <= n
    BY <1>1, <1>3, <1>4 DEF Entries
  <2>2. \A r \in Sessions : \A q \in wire'[r] : q.id = q.of
    BY <1>2 DEF StartCall, LinkTypeOK, SameCall
  <2>3. \A d \in Callers : call'[d].at = "waiting" => call'[d].id = call'[d].chan
    BY <1>2 DEF StartCall, LinkTypeOK, SameCall
  <2>4. \A r \in Sessions :
          reader'[r] # NoAnswer => /\ reader'[r].of = reader'[r].chan
                                   /\ reader'[r].chan <= n
    <3> TAKE r \in Sessions
    <3>1. reader'[r] = reader[r]
      BY DEF StartCall
    <3>2. reader[r] # NoAnswer => reader[r].chan \in Calls
      BY DEF LinkTypeOK
    <3> QED BY <1>1, <3>1, <3>2 DEF SameCall
  <2>5. \A m \in Calls : m > n => buffer'[m] = {}
    BY <1>1 DEF StartCall, SameCall
  <2>6. \A m \in Calls : \A a \in buffer'[m] : a.of = m
    BY DEF StartCall, SameCall
  <2> QED BY <1>2, <2>1, <2>2, <2>3, <2>4, <2>5, <2>6 DEF SameCall
<1>7. OnePlace'
  <2>1. \A r, q \in Sessions : \A e \in pending'[r], f \in pending'[q] :
          e.chan = f.chan => r = q
    BY <1>1, <1>3, <1>4 DEF OnePlace, Entries
  <2>2. \A q \in Sessions : reader[q] # NoAnswer => reader[q].chan \in Calls /\ reader[q].chan < n
    BY <1>1 DEF SameCall, LinkTypeOK
  <2>3. \A r, q \in Sessions : \A e \in pending'[r] :
          reader'[q] # NoAnswer => reader'[q].chan # e.chan
    BY <1>1, <1>3, <2>2 DEF OnePlace, StartCall
  <2>4. buffer[n] = {}
    BY <1>1 DEF SameCall
  <2>5. \A r \in Sessions : \A e \in pending'[r] : buffer'[e.chan] = {}
    BY <1>3, <2>4 DEF OnePlace, StartCall
  <2>6. \A r, q \in Sessions :
          reader'[r] # NoAnswer /\ reader'[q] # NoAnswer
            /\ reader'[r].chan = reader'[q].chan => r = q
    BY DEF OnePlace, StartCall
  <2> QED BY <2>1, <2>3, <2>5, <2>6 DEF OnePlace
<1>8. AnswerOfItsCall'
  BY DEF AnswerOfItsCall, StartCall, LinkTypeOK
<1>9. ReadLoopMoves'
  BY DEF ReadLoopMoves, StartCall, HasRoom
<1> QED BY <1>5, <1>6, <1>7, <1>8, <1>9

LEMMA StartFailsStep ==
  ASSUME LinkInv, NEW c \in Callers, NEW s \in Sessions, StartFails(c, s)
  PROVE  LinkInv'
<1> USE MaxCallsAssumption DEF LinkInv, Calls
<1> DEFINE n == requestSeq + 1
<1>1. n \in Calls /\ requestSeq \in Nat
  BY DEF StartFails, LinkTypeOK
<1>2. requestSeq' = n
  BY DEF StartFails
<1>3. \A r \in Sessions : pending'[r] \subseteq pending[r]
  BY DEF StartFails, Unregistered, LinkTypeOK
<1>4. call' \in [Callers -> CallStates]
       /\ \A d \in Callers : \/ call'[d] = call[d]
                             \/ call'[d].at = "returned" /\ call'[d].of = 0
  BY <1>1 DEF StartFails, LinkTypeOK, CallStates, Returned
<1>5. LinkTypeOK'
  <2>1. pending' \in [Sessions -> SUBSET Entries]
    BY DEF StartFails, Unregistered, LinkTypeOK
  <2>2. requestSeq' \in 0..MaxCalls
    BY <1>1, <1>2
  <2> QED BY <1>4, <2>1, <2>2 DEF StartFails, LinkTypeOK
<1>6. SameCall'
  <2>1. \A r \in Sessions : \A e \in pending'[r] : e.id = e.chan /\ e.id <= n
    BY <1>1, <1>3 DEF SameCall, LinkTypeOK, Entries
  <2>2. \A r \in Sessions :
          reader'[r] # NoAnswer => /\ reader'[r].of = reader'[r].chan
                                   /\ reader'[r].chan <= n
    <3> TAKE r \in Sessions
    <3>1. reader'[r] = reader[r]
      BY DEF StartFails
    <3>2. reader[r] # NoAnswer => reader[r].chan \in Calls
      BY DEF LinkTypeOK
    <3> QED BY <1>1, <3>1, <3>2 DEF SameCall
  <2>3. \A m \in Calls : m > n => buffer'[m] = {}
    BY <1>1 DEF StartFails, SameCall
  <2>4. \A m \in Calls : \A a \in buffer'[m] : a.of = m
    BY DEF StartFails, SameCall
  <2>5. \A r \in Sessions : \A q \in wire'[r] : q.id = q.of
    BY DEF StartFails, SameCall
  <2>6. \A d \in Callers : call'[d].at = "waiting" => call'[d].id = call'[d].chan
    BY <1>4 DEF SameCall
  <2> QED BY <1>2, <2>1, <2>2, <2>3, <2>4, <2>5, <2>6 DEF SameCall
<1>7. OnePlace'
  BY <1>3 DEF OnePlace, StartFails
<1>8. AnswerOfItsCall'
  BY <1>4 DEF AnswerOfItsCall
<1>9. ReadLoopMoves'
  BY DEF ReadLoopMoves, StartFails, HasRoom
<1> QED BY <1>5, <1>6, <1>7, <1>8, <1>9

LEMMA TakeAnswerStep ==
  ASSUME LinkInv, NEW c \in Callers, TakeAnswer(c)
  PROVE  LinkInv'
<1> USE DEF LinkInv
<1>1. PICK a \in buffer[call[c].chan] :
        /\ buffer' = [buffer EXCEPT ![call[c].chan] = @ \ {a}]
        /\ call' = [call EXCEPT ![c] = Returned(@.chan, a.of, a.ok)]
  BY DEF TakeAnswer
<1>2. call[c].chan \in Calls /\ a \in Answers /\ a.of = call[c].chan
  BY DEF TakeAnswer, LinkTypeOK, CallStates, NoCall, SameCall
<1>3. \A m \in Calls : buffer'[m] \subseteq buffer[m]
  BY <1>1 DEF LinkTypeOK
<1>4. LinkTypeOK'
  <2>1. call' \in [Callers -> CallStates]
    BY <1>1, <1>2 DEF LinkTypeOK, CallStates, Returned, Answers
  <2>2. buffer' \in [Calls -> SUBSET Answers]
    BY <1>1 DEF LinkTypeOK
  <2> QED BY <2>1, <2>2 DEF TakeAnswer, LinkTypeOK
<1>5. SameCall'
  <2>1. \A d \in Callers : call'[d].at = "waiting" => call'[d].id = call'[d].chan
    BY <1>1 DEF LinkTypeOK, SameCall, Returned
  <2>2. \A m \in Calls : m > requestSeq' => buffer'[m] = {}
    BY <1>3 DEF TakeAnswer, SameCall
  <2> QED BY <1>3, <2>1, <2>2 DEF TakeAnswer, SameCall
<1>6. OnePlace'
  <2>1. \A s \in Sessions : \A e \in pending'[s] : buffer'[e.chan] = {}
    BY <1>3 DEF TakeAnswer, OnePlace, LinkTypeOK, Entries
  <2> QED BY <2>1 DEF TakeAnswer, OnePlace
<1>7. AnswerOfItsCall'
  BY <1>1, <1>2 DEF AnswerOfItsCall, LinkTypeOK, Returned
<1>8. ReadLoopMoves'
  <2> SUFFICES ASSUME NEW s \in Sessions, reader'[s] # NoAnswer
               PROVE  buffer'[reader'[s].chan] = {}
    BY DEF ReadLoopMoves, HasRoom
  <2>1. reader'[s] = reader[s] /\ reader[s].chan \in Calls
    BY DEF TakeAnswer, LinkTypeOK
  <2> QED BY <1>3, <2>1 DEF ReadLoopMoves, HasRoom
<1> QED BY <1>4, <1>5, <1>6, <1>7, <1>8

LEMMA TimeoutStep ==
  ASSUME LinkInv, NEW c \in Callers, Timeout(c)
  PROVE  LinkInv'
<1> USE DEF LinkInv
<1>1. /\ \A r \in Sessions : pending'[r] \subseteq pending[r]
      /\ pending' \in [Sessions -> SUBSET Entries]
  BY DEF Timeout, Unregistered, LinkTypeOK
<1>2. /\ call' \in [Callers -> CallStates]
      /\ \A d \in Callers : \/ call'[d] = call[d]
                            \/ call'[d].at = "returned" /\ call'[d].of = 0
  <2>1. call[c].chan \in Calls
    BY DEF Timeout, LinkTypeOK, CallStates, NoCall
  <2> QED BY <2>1 DEF Timeout, LinkTypeOK, CallStates, Returned
<1>3. LinkTypeOK'
  BY <1>1, <1>2 DEF Timeout, LinkTypeOK
<1>4. SameCall'
  BY <1>1, <1>2 DEF Timeout, SameCall
<1>5. OnePlace'
  BY <1>1 DEF Timeout, OnePlace
<1>6. AnswerOfItsCall' /\ ReadLoopMoves'
  BY <1>2 DEF Timeout, AnswerOfItsCall, ReadLoopMoves, HasRoom
<1> QED BY <1>3, <1>4, <1>5, <1>6

LEMMA EndCallStep ==
  ASSUME LinkInv, NEW c \in Callers, EndCall(c)
  PROVE  LinkInv'
<1>1. /\ call' \in [Callers -> CallStates]
      /\ \A d \in Callers : call'[d] = call[d] \/ call'[d].at = "none"
  BY DEF EndCall, LinkInv, LinkTypeOK, CallStates, NoCall
<1> QED BY <1>1 DEF EndCall, LinkInv, LinkTypeOK, SameCall, OnePlace,
                    AnswerOfItsCall, ReadLoopMoves, HasRoom

LEMMA ConnectStep ==
  ASSUME LinkInv, NEW s \in Sessions, Connect(s)
  PROVE  LinkInv'
BY DEF Connect, LinkInv, LinkTypeOK, SameCall, OnePlace, AnswerOfItsCall,
       ReadLoopMoves, HasRoom

LEMMA DisconnectStep ==
  ASSUME LinkInv, NEW s \in Sessions, Disconnect(s)
  PROVE  LinkInv'
<1>1. LinkTypeOK'
  BY DEF Disconnect, LinkInv, LinkTypeOK
<1>2. SameCall'
  BY DEF Disconnect, LinkInv, LinkTypeOK, SameCall
<1> QED BY <1>1, <1>2 DEF Disconnect, LinkInv, OnePlace, AnswerOfItsCall,
                          ReadLoopMoves, HasRoom

LEMMA LookUpStep ==
  ASSUME LinkInv, NEW s \in Sessions, LookUpResponse(s)
  PROVE  LinkInv'
<1> USE DEF LinkInv
<1>1. PICK q \in wire[s], ok \in BOOLEAN :
        /\ wire' = [wire EXCEPT ![s] = @ \ {q}] \/ wire' = wire
        /\ \/ pending' = pending /\ reader' = reader
           \/ \E e \in pending[s] :
                /\ e.id = q.id
                /\ pending' = [pending EXCEPT ![s] = @ \ {e}]
                /\ reader' = [reader EXCEPT ![s] =
                     [id |-> q.id, of |-> q.of, ok |-> ok, chan |-> e.chan]]
  BY DEF LookUpResponse, Pending, WithoutEntry, LinkTypeOK
<1>2. UNCHANGED <<conn, active, requestSeq, buffer, call>>
  BY DEF LookUpResponse
<1>3. \A r \in Sessions : wire'[r] \subseteq wire[r]
  BY <1>1 DEF LinkTypeOK
<1>4. wire' \in [Sessions -> SUBSET [id : Calls, of : Calls]]
  BY <1>1 DEF LinkTypeOK
<1>5. CASE pending' = pending /\ reader' = reader
  <2>1. LinkTypeOK'
    BY <1>2, <1>4, <1>5 DEF LinkTypeOK
  <2> QED BY <1>2, <1>3, <1>5, <2>1 DEF SameCall, OnePlace, AnswerOfItsCall,
                                        ReadLoopMoves, HasRoom
<1>6. ASSUME NEW e \in pending[s], e.id = q.id,
             pending' = [pending EXCEPT ![s] = @ \ {e}],
             reader' = [reader EXCEPT ![s] =
                 [id |-> q.id, of |-> q.of, ok |-> ok, chan |-> e.chan]]
      PROVE  LinkInv'
  <2>1. /\ e \in Entries /\ q \in [id : Calls, of : Calls]
        /\ e.chan = q.of /\ e.chan <= requestSeq
        /\ buffer[e.chan] = {}
    BY <1>6 DEF LinkTypeOK, SameCall, OnePlace
  <2>2. \A r \in Sessions :
          /\ pending'[r] \subseteq pending[r]
          /\ r # s => reader'[r] = reader[r]
    BY <1>6 DEF LinkTypeOK
  <2>3. /\ reader'[s].of = q.of /\ reader'[s].chan = e.chan
        /\ reader'[s] \in [id : Calls, of : Calls, ok : BOOLEAN, chan : Calls]
    BY <1>6, <2>1 DEF LinkTypeOK, Entries
  <2>4. LinkTypeOK'
    <3>1. reader' \in [Sessions -> {NoAnswer}
                  \cup [id : Calls, of : Calls, ok : BOOLEAN, chan : Calls]]
      BY <1>6, <2>3 DEF LinkTypeOK
    <3>2. pending' \in [Sessions -> SUBSET Entries]
      BY <1>6 DEF LinkTypeOK
    <3> QED BY <1>2, <1>4, <3>1, <3>2 DEF LinkTypeOK
  <2>5. SameCall'
    BY <1>2, <1>3, <2>1, <2>2, <2>3 DEF SameCall
  <2>6. OnePlace'
    <3>1. \A f \in pending'[s] : f.chan # e.chan
      <4> SUFFICES ASSUME NEW f \in pending'[s], f.chan = e.chan PROVE FALSE
        OBVIOUS
      <4>1. f \in pending[s] /\ f # e
        BY <1>6 DEF LinkTypeOK
      <4>2. f.id = e.id /\ f \in Entries
        BY <4>1 DEF SameCall, LinkTypeOK
      <4> QED BY <2>1, <4>1, <4>2 DEF Entries
    <3>2. \A r \in Sessions : \A f \in pending'[r] : f.chan # e.chan
      BY <2>2, <3>1 DEF OnePlace
    <3>3. \A r \in Sessions : r # s /\ reader[r] # NoAnswer => reader[r].chan # e.chan
      BY DEF OnePlace
    <3>4. \A r, x \in Sessions : \A f \in pending'[r] :
            reader'[x] # NoAnswer => reader'[x].chan # f.chan
      BY <2>2, <2>3, <3>2 DEF OnePlace
    <3>5. \A r, x \in Sessions :
            reader'[r] # NoAnswer /\ reader'[x] # NoAnswer
              /\ reader'[r].chan = reader'[x].chan => r = x
      BY <2>2, <2>3, <3>3 DEF OnePlace
    <3> QED BY <1>2, <2>2, <3>4, <3>5 DEF OnePlace
  <2>7. AnswerOfItsCall' /\ ReadLoopMoves'
    BY <1>2, <2>1, <2>2, <2>3 DEF AnswerOfItsCall, ReadLoopMoves, HasRoom
  <2> QED BY <2>4, <2>5, <2>6, <2>7
<1> QED BY <1>1, <1>5, <1>6

LEMMA SendStep ==
  ASSUME LinkInv, NEW s \in Sessions, SendResponse(s)
  PROVE  LinkInv'
<1> USE DEF LinkInv
<1> DEFINE n == reader[s].chan
           a == [id |-> reader[s].id, of |-> reader[s].of, ok |-> reader[s].ok]
<1>1. /\ n \in Calls /\ n <= requestSeq
      /\ a \in Answers /\ a.of = n
      /\ reader[s] # NoAnswer
  BY DEF SendResponse, LinkTypeOK, SameCall, Answers
<1>2. /\ buffer' = [buffer EXCEPT ![n] = {a}]
      /\ reader' = [reader EXCEPT ![s] = NoAnswer]
      /\ UNCHANGED <<conn, active, requestSeq, pending, wire, call>>
  BY DEF SendResponse
<1>3. /\ \A m \in Calls : m # n => buffer'[m] = buffer[m]
      /\ buffer'[n] = {a}
  BY <1>1, <1>2 DEF LinkTypeOK
<1>4. \A r \in Sessions : reader'[r] = IF r = s THEN NoAnswer ELSE reader[r]
  BY <1>2 DEF LinkTypeOK
<1>5. LinkTypeOK'
  BY <1>1, <1>2 DEF LinkTypeOK
<1>6. SameCall'
  <2>1. \A m \in Calls : \A b \in buffer'[m] : b.of = m
    BY <1>1, <1>3 DEF SameCall
  <2>2. \A m \in Calls : m > requestSeq' => buffer'[m] = {}
    <3> SUFFICES ASSUME NEW m \in Calls, m > requestSeq PROVE buffer'[m] = {}
      BY <1>2
    <3>1. m # n
      BY <1>1, MaxCallsAssumption DEF Calls, LinkTypeOK
    <3> QED BY <1>3, <3>1 DEF SameCall
  <2> QED BY <1>2, <1>4, <2>1, <2>2 DEF SameCall
<1>7. OnePlace'
  <2>1. \A r \in Sessions : \A e \in pending[r] : e.chan \in Calls /\ e.chan # n
    BY <1>1 DEF OnePlace, LinkTypeOK, Entries
  <2> QED BY <1>2, <1>3, <1>4, <2>1 DEF OnePlace
<1>8. AnswerOfItsCall'
  BY <1>2 DEF AnswerOfItsCall
<1>9. ReadLoopMoves'
  <2> SUFFICES ASSUME NEW r \in Sessions, reader'[r] # NoAnswer
               PROVE  buffer'[reader'[r].chan] = {}
    BY DEF ReadLoopMoves, HasRoom
  <2>1. r # s /\ reader'[r] = reader[r]
    BY <1>4
  <2>2. reader[r].chan \in Calls /\ reader[r].chan # n
    BY <1>1, <2>1 DEF LinkTypeOK, OnePlace
  <2> QED BY <1>3, <2>1, <2>2 DEF ReadLoopMoves, HasRoom
<1> QED BY <1>5, <1>6, <1>7, <1>8, <1>9

-----------------------------------------------------------------------------
LEMMA LinkStepOK ==
  ASSUME LinkInv, [LinkNext]_linkVars
  PROVE  LinkInv'
<1>1. CASE ServerStep
  BY <1>1, ConnectStep, DisconnectStep, LookUpStep, SendStep DEF ServerStep
<1>2. CASE \E c \in Callers : CallStep(c) \/ EndCall(c)
  BY <1>2, TakeAnswerStep, TimeoutStep, EndCallStep DEF CallStep
<1>3. CASE \E c \in Callers, s \in Sessions : Call(c, s)
  BY <1>3, StartCallStep, StartFailsStep DEF Call
<1>4. CASE UNCHANGED linkVars
  BY <1>4 DEF linkVars, LinkInv, LinkTypeOK, SameCall, OnePlace, AnswerOfItsCall,
              ReadLoopMoves, HasRoom
<1> QED BY <1>1, <1>2, <1>3, <1>4 DEF LinkNext

\* The read loop and the callers keep the answers apart in every reachable
\* state, for every number of connections, callers and calls.
THEOREM LinkInvariance == LinkSpec => []LinkInv
BY LinkInitOK, LinkStepOK, PTL DEF LinkSpec

\* ActiveSessions is the number of open connections (markConnected and
\* markDisconnected of server.go).
LEMMA CountedInit == LinkInit => Counted
<1> SUFFICES ASSUME LinkInit PROVE Counted
  OBVIOUS
<1>1. OpenConnections = {}
  BY DEF LinkInit, OpenConnections
<1> QED BY <1>1, FS_EmptySet DEF Counted, LinkInit

LEMMA CountedStep ==
  ASSUME LinkInv, Counted, [LinkNext]_linkVars
  PROVE  Counted'
<1> USE DEF LinkInv
<1>1. ASSUME NEW s \in Sessions, Connect(s) PROVE Counted'
  <2>1. OpenConnections' = OpenConnections \cup {s} /\ s \notin OpenConnections
    BY <1>1 DEF Connect, OpenConnections, LinkTypeOK
  <2>2. /\ IsFiniteSet(OpenConnections \cup {s})
        /\ Cardinality(OpenConnections \cup {s}) = Cardinality(OpenConnections) + 1
    BY <2>1, FS_AddElement DEF Counted
  <2> QED BY <1>1, <2>1, <2>2 DEF Connect, Counted
<1>2. ASSUME NEW s \in Sessions, Disconnect(s) PROVE Counted'
  <2>1. OpenConnections' = OpenConnections \ {s} /\ s \in OpenConnections
    BY <1>2 DEF Disconnect, OpenConnections, LinkTypeOK
  <2>2. /\ IsFiniteSet(OpenConnections \ {s})
        /\ Cardinality(OpenConnections \ {s}) = Cardinality(OpenConnections) - 1
    BY <2>1, FS_RemoveElement DEF Counted
  <2>3. Cardinality(OpenConnections) \in Nat /\ Cardinality(OpenConnections \ {s}) \in Nat
    BY <2>2, FS_CardinalityType DEF Counted
  <2> QED BY <1>2, <2>1, <2>2, <2>3 DEF Disconnect, Counted
<1>3. CASE UNCHANGED <<conn, active>>
  BY <1>3 DEF Counted, OpenConnections
<1>4. ASSUME NEW s \in Sessions, LookUpResponse(s) \/ SendResponse(s)
      PROVE  UNCHANGED <<conn, active>>
  BY <1>4 DEF LookUpResponse, SendResponse
<1>5. ASSUME NEW c \in Callers, CallStep(c) \/ EndCall(c)
      PROVE  UNCHANGED <<conn, active>>
  BY <1>5 DEF CallStep, TakeAnswer, Timeout, EndCall
<1>6. ASSUME NEW c \in Callers, NEW s \in Sessions, Call(c, s)
      PROVE  UNCHANGED <<conn, active>>
  BY <1>6 DEF Call, StartCall, StartFails
<1>7. CASE UNCHANGED linkVars
  BY <1>3, <1>7 DEF linkVars
<1> QED BY <1>1, <1>2, <1>3, <1>4, <1>5, <1>6, <1>7 DEF LinkNext, ServerStep

=============================================================================
