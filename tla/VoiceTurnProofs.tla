--------------------------- MODULE VoiceTurnProofs ---------------------------
(***************************************************************************)
(* What a voice turn promises, for every number of connections, turns and  *)
(* deltas.                                                                 *)
(*                                                                         *)
(* The argument: the text that was heard, the chunk that is being said and *)
(* the player's buffer are cut out of one sequence, the reply (Spoken);    *)
(* the reply counts the model's deltas (SpecTypeOK, Counting), because a   *)
(* turn that plays the reply given ahead has pushed exactly the deltas it  *)
(* has read (PlayKeepsUp); and a turn comes to its end only with an empty  *)
(* player (PlayerEmpty) and, for that reply, with all of it (AllPlayed).   *)
(***************************************************************************)
EXTENDS VoiceTurn, SpeakerSessionProofs, SequenceTheorems

Deltas == 1..MaxDeltas

\* The first deltas of a reply, in their order.
Counting(s) == s \in Seq(Deltas) /\ Len(s) <= MaxDeltas
               /\ \A i \in 1..Len(s) : s[i] = i

Speaking == {"flush", "speak", "speaking"}
Silent   == {"begin", "ahead", "intent", "prepare", "aborting", "tool", "say"}

\* The chunk that is being said.
Chunk == IF turn.at \in {"speak", "speaking"} THEN turn.chunk ELSE << >>

TurnTypeOK ==
  /\ config \in [abortAfterASR : BOOLEAN, parallel : BOOLEAN]
  /\ busy \in BOOLEAN
  /\ busy <=> turn # NoTurn
  /\ channel \in Channels \cup {NoChannel}
  /\ turns \in 0..MaxTurns
  /\ turn \in {NoTurn} \cup Turn

SpecRecords ==
  [at : {"none", "stream", "signal", "over"}, deltas : Seq(Deltas), index : Nat,
   done : BOOLEAN, err : {"none", "failed", "canceled"}, notify : 0..1,
   cancelled : BOOLEAN]

SpecTypeOK ==
  /\ spec \in SpecRecords
  /\ Counting(spec.deltas)
  /\ spec.index <= Len(spec.deltas)
  /\ spec.at = "stream" => ~spec.done

\* Where a turn goes on; a chat that plays the reply given ahead has no other.
PlacesOK ==
  busy =>
    /\ turn.at \in {"prepare", "aborting"} =>
         turn.next \in {"ahead", "tool", "say", "stream", "play"}
    /\ turn.at \in Speaking => turn.next \in {"stream", "play", "closed"}
    /\ turn.kind = "chat" /\ config.parallel =>
         /\ turn.at \notin {"tool", "say", "stream"}
         /\ turn.at \in {"prepare", "aborting"} \cup Speaking =>
              turn.next \notin {"tool", "say", "stream"}

\* The texts of the turn are the deltas of one reply.
Spoken ==
  /\ Counting(reply)
  /\ {player, heard} \subseteq Texts
  /\ busy /\ turn.at # "finish" => (heard \o Chunk) \o player = reply

\* Before the reply begins there is nothing to say, nor was anything played.
SilentFirst ==
  busy /\ turn.at \in Silent =>
    reply = << >> /\ player = << >> /\ heard = << >> /\ spec.index = 0

PlayerEmpty == busy /\ turn.at \in {"closed", "reports"} => player = << >>

PlayKeepsUp ==
  busy /\ (turn.at \in {"play", "wait"} \/ (turn.at \in Speaking /\ turn.next = "play"))
    => Len(reply) = spec.index

AllPlayed ==
  busy /\ turn.kind = "chat" /\ config.parallel
    /\ (turn.at = "closed" \/ (turn.at \in Speaking /\ turn.next = "closed"))
      => spec.done /\ reply = spec.deltas

TurnInv == /\ TurnTypeOK /\ SpecTypeOK /\ PlacesOK /\ Spoken /\ SilentFirst
           /\ PlayerEmpty /\ PlayKeepsUp /\ AllPlayed

-----------------------------------------------------------------------------
(* Texts. *)

LEMMA TextsAreSeqs ==
  ASSUME NEW s
  PROVE  s \in Texts <=> s \in Seq(Deltas) /\ Len(s) <= MaxDeltas
<1>1. ASSUME s \in Texts PROVE s \in Seq(Deltas) /\ Len(s) <= MaxDeltas
  BY <1>1, TurnBoundsAssumption DEF Texts, Deltas
<1>2. ASSUME s \in Seq(Deltas), Len(s) <= MaxDeltas PROVE s \in Texts
  <2>1. Len(s) \in 0..MaxDeltas /\ s \in [1..Len(s) -> Deltas]
    BY <1>2, LenProperties, TurnBoundsAssumption
  <2> QED BY <2>1 DEF Texts, Deltas
<1> QED BY <1>1, <1>2

LEMMA EmptyText == << >> \in Texts /\ Counting(<< >>) /\ << >> \in Seq(Deltas)
<1>1. << >> \in Seq(Deltas) /\ Len(<< >>) = 0
  BY EmptySeq
<1>2. \A i \in 1..Len(<< >>) : << >>[i] = i
  BY <1>1
<1>3. Len(<< >>) <= MaxDeltas
  BY <1>1, TurnBoundsAssumption
<1> QED BY <1>1, <1>2, <1>3, TextsAreSeqs DEF Counting

\* A sequence of deltas that counts is known by its length.
LEMMA CountingEqual ==
  ASSUME NEW s, NEW t, Counting(s), Counting(t), Len(s) = Len(t)
  PROVE  s = t
BY SeqEqual DEF Counting

LEMMA CountingAppend ==
  ASSUME NEW s, Counting(s), Len(s) < MaxDeltas
  PROVE  /\ Len(s) + 1 \in Deltas
         /\ Counting(Append(s, Len(s) + 1))
         /\ Len(Append(s, Len(s) + 1)) = Len(s) + 1
<1>1. s \in Seq(Deltas) /\ Len(s) \in Nat
  BY LenProperties DEF Counting
<1>2. Len(s) + 1 \in Deltas
  BY <1>1, TurnBoundsAssumption DEF Deltas
<1>3. /\ Append(s, Len(s) + 1) \in Seq(Deltas)
      /\ Len(Append(s, Len(s) + 1)) = Len(s) + 1
      /\ \A i \in 1..Len(s) : Append(s, Len(s) + 1)[i] = s[i]
      /\ Append(s, Len(s) + 1)[Len(s) + 1] = Len(s) + 1
  BY <1>1, <1>2, AppendProperties
<1>4. ASSUME NEW i \in 1..Len(s) + 1 PROVE Append(s, Len(s) + 1)[i] = i
  <2>1. CASE i \in 1..Len(s)
    BY <1>3, <2>1 DEF Counting
  <2>2. CASE i = Len(s) + 1
    BY <1>3, <2>2
  <2> QED BY <1>1, <2>1, <2>2
<1> QED BY <1>1, <1>2, <1>3, <1>4, TurnBoundsAssumption DEF Counting

\* A text cut in two.
LEMMA CutJoins ==
  ASSUME NEW s \in Texts, NEW k \in 0..Len(s)
  PROVE  /\ SubSeq(s, 1, k) \in Texts /\ SubSeq(s, k + 1, Len(s)) \in Texts
         /\ SubSeq(s, 1, k) \o SubSeq(s, k + 1, Len(s)) = s
<1>1. s \in Seq(Deltas) /\ Len(s) \in Nat /\ Len(s) <= MaxDeltas /\ MaxDeltas \in Nat
  BY TextsAreSeqs, LenProperties, TurnBoundsAssumption
<1>2. \A i \in 1..Len(s) : s[i] \in Deltas
  BY <1>1, ElementOfSeq
<1>3. /\ SubSeq(s, 1, k) \in Seq(Deltas)
      /\ Len(SubSeq(s, 1, k)) = IF 1 <= k THEN k - 1 + 1 ELSE 0
  <2>1. \A i \in 1..k : s[i] \in Deltas
    BY <1>1, <1>2
  <2> QED BY <2>1, SubSeqProperties
<1>4. /\ SubSeq(s, k + 1, Len(s)) \in Seq(Deltas)
      /\ Len(SubSeq(s, k + 1, Len(s))) =
           IF k + 1 <= Len(s) THEN Len(s) - (k + 1) + 1 ELSE 0
  <2>1. \A i \in (k + 1)..Len(s) : s[i] \in Deltas
    BY <1>1, <1>2
  <2>2. k + 1 \in Int /\ Len(s) \in Int
    BY <1>1
  <2> QED BY <2>1, <2>2, SubSeqProperties
<1>5. SubSeq(s, 1, k) \o SubSeq(s, k + 1, Len(s)) = SubSeq(s, 1, Len(s))
  <2>1. /\ 1 \in 1..Len(s) + 1
        /\ k \in (1 - 1)..Len(s)
        /\ Len(s) \in k..Len(s)
    BY <1>1
  <2> QED BY <1>1, <2>1, ConcatAdjacentSubSeq
<1>6. SubSeq(s, 1, Len(s)) = s
  BY <1>1, SubSeqFull
<1>7. Len(SubSeq(s, 1, k)) <= MaxDeltas /\ Len(SubSeq(s, k + 1, Len(s))) <= MaxDeltas
  BY <1>1, <1>3, <1>4
<1> QED BY <1>3, <1>4, <1>5, <1>6, <1>7, TextsAreSeqs

-----------------------------------------------------------------------------
(* A step of a turn is a step of the connection, or leaves it alone. *)

LEMMA TurnStepIsLinkStep ==
  ASSUME TurnTypeOK, [VoiceNext]_voiceVars
  PROVE  [LinkNext]_linkVars
<1>1. CASE PreparePlayback
  <2>1. CASE UNCHANGED linkVars
    BY <2>1
  <2>2. CASE NeedsAbort /\ Call(Voice, turn.ch)
    <3>1. turn.ch \in Sessions
      BY <1>1, <2>2 DEF PreparePlayback, At, NeedsAbort, TurnTypeOK, Turn, NoTurn, Channels
    <3> QED BY <2>2, <3>1, VoiceAssumption DEF LinkNext
  <2> QED BY <1>1, <2>1, <2>2 DEF PreparePlayback
<1>2. CASE SpeakText
  <2>1. CASE UNCHANGED linkVars
    BY <2>1
  <2>2. CASE turn.ch # Debug /\ Call(Voice, turn.ch)
    <3>1. turn.ch \in Sessions
      BY <1>2, <2>2 DEF SpeakText, At, TurnTypeOK, Turn, NoTurn, Channels
    <3> QED BY <2>2, <3>1, VoiceAssumption DEF LinkNext
  <2> QED BY <1>2, <2>1, <2>2 DEF SpeakText
<1>3. CASE AbortReturns \/ SpeakReturns
  BY <1>3, VoiceAssumption DEF AbortReturns, SpeakReturns, LinkNext
<1>4. CASE LinkStep
  BY <1>4, VoiceAssumption DEF LinkStep, LinkNext
<1>5. CASE \E ch \in Channels : HandleUserText(ch)
  BY <1>5 DEF HandleUserText, Begin
<1>6. CASE BeginReportTurn
  BY <1>6 DEF BeginReportTurn, Begin
<1>7. CASE BlankText \/ HandleDemo \/ NoDemo \/ StartSpeculativeReply \/ Decide \/ CallTool
  BY <1>7 DEF BlankText, HandleDemo, NoDemo, StartSpeculativeReply, Decide, CallTool
<1>8. CASE FlushReady \/ SayWhole \/ NextDelta \/ StreamEnds \/ StreamFails
  BY <1>8 DEF FlushReady, SayWhole, NextDelta, StreamEnds, StreamFails
<1>9. CASE Play \/ PlayIsNotified \/ SpecStep
  BY <1>9 DEF Play, PlayIsNotified, SpecStep, SpecAppend, SpecFinish, SpecSignal
<1>10. CASE StoreReply \/ DeliverReports \/ FinishVoiceTurn
  BY <1>10 DEF StoreReply, DeliverReports, FinishVoiceTurn, GiveBack, Begin
<1>11. CASE UNCHANGED voiceVars
  BY <1>11 DEF voiceVars
<1> QED BY <1>1, <1>2, <1>3, <1>4, <1>5, <1>6, <1>7, <1>8, <1>9, <1>10, <1>11
        DEF VoiceNext, TurnStep

-----------------------------------------------------------------------------
(* The steps of a turn. *)

LEMMA TurnInitOK == VoiceInit => TurnInv
<1> SUFFICES ASSUME VoiceInit PROVE TurnInv
  OBVIOUS
<1>1. TurnTypeOK
  <2>1. turns \in 0..MaxTurns
    BY TurnBoundsAssumption DEF VoiceInit
  <2>2. busy \in BOOLEAN /\ (busy <=> turn # NoTurn)
    BY DEF VoiceInit
  <2> QED BY <2>1, <2>2 DEF VoiceInit, TurnTypeOK
<1>2. SpecTypeOK
  BY EmptyText DEF VoiceInit, SpecTypeOK, SpecRecords, NoSpec
<1>3. Spoken
  BY EmptyText DEF VoiceInit, Spoken
<1> QED BY <1>1, <1>2, <1>3 DEF VoiceInit, TurnInv, PlacesOK, SilentFirst,
                                PlayerEmpty, PlayKeepsUp, AllPlayed

LEMMA BeginStep ==
  ASSUME TurnInv, NEW place \in {"begin", "reports"}, NEW kind \in {"chat", "report"},
         NEW ch \in Channels, Begin(place, kind, ch),
         place = "begin" \/ kind = "report"
  PROVE  TurnInv'
<1> DEFINE t == [at |-> place, kind |-> kind, ch |-> ch, interrupted |-> FALSE,
                 next |-> place, chunk |-> << >>]
<1>1. /\ busy' = TRUE /\ turn' = t /\ channel' = ch /\ turns' = turns + 1
      /\ reply' = << >> /\ player' = << >> /\ heard' = << >> /\ spec' = NoSpec
      /\ config' = config /\ turns < MaxTurns
  BY DEF Begin
<1>2. t \in Turn /\ t # NoTurn
  BY EmptyText DEF Turn, Places, Kinds, NoTurn
<1>3. TurnTypeOK'
  BY <1>1, <1>2, TurnBoundsAssumption DEF TurnInv, TurnTypeOK
<1>4. SpecTypeOK'
  BY <1>1, EmptyText DEF SpecTypeOK, SpecRecords, NoSpec
<1>5. Spoken'
  <2>1. Chunk' = << >>
    BY <1>1 DEF Chunk
  <2>2. (<< >> \o << >>) \o << >> = << >>
    BY EmptyText, ConcatEmptySeq
  <2> QED BY <1>1, <2>1, <2>2, EmptyText DEF Spoken
<1>6. SilentFirst' /\ PlayerEmpty'
  BY <1>1 DEF SilentFirst, PlayerEmpty, NoSpec
<1>7. PlacesOK' /\ PlayKeepsUp' /\ AllPlayed'
  BY <1>1 DEF PlacesOK, PlayKeepsUp, AllPlayed, Speaking
<1> QED BY <1>3, <1>4, <1>5, <1>6, <1>7 DEF TurnInv

\* A step that only moves the turn on, from one place where nothing is being
\* said to another, and leaves its texts alone.
LEMMA MoveStep ==
  ASSUME TurnInv, turn' \in Turn, turn # NoTurn,
         UNCHANGED <<config, busy, channel, turns, reply, player, heard>>,
         turn.at \notin {"speak", "speaking"}, turn'.at \notin {"speak", "speaking"},
         turn'.at # "finish" => turn.at # "finish",
         SpecTypeOK', PlacesOK', SilentFirst', PlayerEmpty', PlayKeepsUp', AllPlayed'
  PROVE  TurnInv'
<1>1. turn' # NoTurn
  BY DEF Turn, Places, NoTurn
<1>2. TurnTypeOK'
  BY <1>1 DEF TurnInv, TurnTypeOK
<1>3. Chunk' = Chunk
  BY DEF Chunk
<1>4. Spoken'
  BY <1>3 DEF TurnInv, Spoken
<1> QED BY <1>2, <1>4 DEF TurnInv

LEMMA InTurn ==
  ASSUME TurnTypeOK, turn.at \in Places
  PROVE  turn \in Turn /\ turn # NoTurn /\ busy
BY DEF TurnTypeOK, NoTurn, Places

LEMMA DecisionStep ==
  ASSUME TurnInv, BlankText \/ HandleDemo \/ NoDemo \/ StartSpeculativeReply \/ Decide \/ CallTool
  PROVE  TurnInv'
<1> USE DEF TurnInv
<1>1. turn.at \in {"begin", "ahead", "intent", "tool"}
  BY DEF BlankText, HandleDemo, NoDemo, StartSpeculativeReply, Decide, CallTool, At
<1>2. turn \in Turn /\ turn # NoTurn /\ busy
  BY <1>1, InTurn DEF Places
<1>3. UNCHANGED <<config, busy, channel, turns, reply, player, heard>>
  BY DEF BlankText, HandleDemo, NoDemo, StartSpeculativeReply, Decide, CallTool, otherVars
<1>4. /\ reply = << >> /\ player = << >> /\ heard = << >> /\ spec.index = 0
      /\ Len(reply) = 0
  BY <1>1, <1>2, EmptySeq DEF SilentFirst, Silent
<1>5. /\ turn' \in Turn
      /\ turn'.at \in {"prepare", "ahead", "intent", "finish", "say", "stream"}
      /\ turn'.at \in {"say", "stream"} => turn.at = "tool" /\ turn'.kind = turn.kind
      /\ turn'.at = "prepare" =>
           \/ turn'.kind \in {"demo", "tool"} /\ turn'.next \in {"stream", "say", "tool"}
           \/ turn'.next = "ahead"
           \/ turn'.next = IF config.parallel THEN "play" ELSE "stream"
  BY <1>1, <1>2 DEF BlankText, HandleDemo, NoDemo, StartSpeculativeReply, Decide, CallTool,
                    Goto, GotoThen, At, Turn, Places, Kinds
<1>6. SpecTypeOK' /\ spec'.index = 0
  <2>1. CASE UNCHANGED spec
    BY <1>4, <2>1 DEF SpecTypeOK
  <2>2. CASE Decide
    BY <1>4, <2>2 DEF Decide, SpecTypeOK, SpecRecords
  <2>3. CASE StartSpeculativeReply
    <3>1. spec'.deltas = << >> /\ spec'.index = 0 /\ spec'.done = FALSE
      BY <2>3 DEF StartSpeculativeReply, NoSpec
    <3>2. spec' \in SpecRecords
      <4>1. spec' = [NoSpec EXCEPT !.at = "stream"] \/ spec' = NoSpec
        BY <2>3 DEF StartSpeculativeReply
      <4>2. NoSpec \in SpecRecords
        BY EmptyText DEF NoSpec, SpecRecords
      <4> QED BY <4>1, <4>2 DEF SpecRecords
    <3>3. Len(<< >>) = 0
      BY EmptySeq
    <3> QED BY <3>1, <3>2, <3>3, EmptyText DEF SpecTypeOK, SpecRecords
  <2> QED BY <2>1, <2>2, <2>3 DEF BlankText, HandleDemo, NoDemo, CallTool
<1>7. PlacesOK'
  BY <1>1, <1>2, <1>3, <1>5 DEF PlacesOK, Speaking
<1>8. SilentFirst' /\ PlayerEmpty'
  BY <1>3, <1>4, <1>6 DEF SilentFirst, PlayerEmpty
<1>9. PlayKeepsUp' /\ AllPlayed'
  BY <1>5 DEF PlayKeepsUp, AllPlayed, Speaking
<1>10. turn.at \notin {"speak", "speaking", "finish"}
       /\ turn'.at \notin {"speak", "speaking"}
  BY <1>1, <1>5
<1> QED BY <1>2, <1>3, <1>5, <1>6, <1>7, <1>8, <1>9, <1>10, MoveStep

LEMMA PrepareStep ==
  ASSUME TurnInv, PreparePlayback \/ AbortReturns
  PROVE  TurnInv'
<1> USE DEF TurnInv
<1>1. turn.at \in {"prepare", "aborting"}
  BY DEF PreparePlayback, AbortReturns, At
<1>2. turn \in Turn /\ turn # NoTurn /\ busy
  BY <1>1, InTurn DEF Places
<1>3. UNCHANGED <<config, busy, channel, turns, reply, player, heard, spec>>
  BY DEF PreparePlayback, AbortReturns, otherVars
<1>4. /\ reply = << >> /\ player = << >> /\ heard = << >> /\ spec.index = 0
      /\ Len(reply) = 0
  BY <1>1, <1>2, EmptySeq DEF SilentFirst, Silent
<1>5. turn.next \in {"ahead", "tool", "say", "stream", "play"}
  BY <1>1, <1>2 DEF PlacesOK
<1>6. /\ turn' \in Turn
      /\ turn'.at \in {"aborting", "finish", turn.next}
      /\ turn'.kind = turn.kind /\ turn'.next = turn.next
  BY <1>1, <1>2, <1>5 DEF PreparePlayback, AbortReturns, Goto, Turn, Places
<1>7. SpecTypeOK'
  BY <1>3 DEF SpecTypeOK
<1>8. PlacesOK'
  BY <1>1, <1>2, <1>3, <1>5, <1>6 DEF PlacesOK, Speaking
<1>9. SilentFirst' /\ PlayerEmpty'
  BY <1>3, <1>4 DEF SilentFirst, PlayerEmpty
<1>10. PlayKeepsUp' /\ AllPlayed'
  BY <1>3, <1>4, <1>5, <1>6 DEF PlayKeepsUp, AllPlayed, Speaking
<1>11. /\ turn.at \notin {"speak", "speaking", "finish"}
       /\ turn'.at \notin {"speak", "speaking"}
  BY <1>1, <1>5, <1>6
<1> QED BY <1>2, <1>3, <1>6, <1>7, <1>8, <1>9, <1>10, <1>11, MoveStep

LEMMA StreamOverStep ==
  ASSUME TurnInv, StreamEnds \/ StreamFails
  PROVE  TurnInv'
<1> USE DEF TurnInv
<1>1. turn.at = "stream"
  BY DEF StreamEnds, StreamFails, At
<1>2. turn \in Turn /\ turn # NoTurn /\ busy
  BY <1>1, InTurn DEF Places
<1>3. UNCHANGED <<config, busy, channel, turns, reply, player, heard, spec>>
  BY DEF StreamEnds, StreamFails, otherVars
<1>4. /\ turn' \in Turn
      /\ turn'.at = "finish" \/ (turn'.at = "flush" /\ turn'.next = "closed")
      /\ turn'.kind = turn.kind
  <2>1. CASE StreamEnds
    BY <1>2, <2>1 DEF StreamEnds, GotoThen, Turn, Places
  <2>2. CASE StreamFails
    BY <1>2, <2>2 DEF StreamFails, Goto, Turn, Places
  <2> QED BY <2>1, <2>2
<1>5. ~(turn.kind = "chat" /\ config.parallel)
  BY <1>1, <1>2 DEF PlacesOK
<1>6. SpecTypeOK'
  BY <1>3 DEF SpecTypeOK
<1>7. PlacesOK' /\ AllPlayed'
  BY <1>3, <1>4, <1>5 DEF PlacesOK, AllPlayed, Speaking
<1>8. SilentFirst' /\ PlayerEmpty' /\ PlayKeepsUp'
  BY <1>4 DEF SilentFirst, Silent, PlayerEmpty, PlayKeepsUp, Speaking
<1> QED BY <1>1, <1>2, <1>3, <1>4, <1>6, <1>7, <1>8, MoveStep

LEMMA StoreStep ==
  ASSUME TurnInv, StoreReply
  PROVE  TurnInv'
<1> USE DEF TurnInv
<1>1. turn.at = "closed"
  BY DEF StoreReply, At
<1>2. turn \in Turn /\ turn # NoTurn /\ busy
  BY <1>1, InTurn DEF Places
<1>3. UNCHANGED <<config, busy, channel, turns, reply, player, heard, spec>>
  BY DEF StoreReply, otherVars
<1>4. /\ turn' \in Turn
      /\ turn'.at \in {"finish", "reports"}
  BY <1>2 DEF StoreReply, Goto, Turn, Places
<1>5. player' = << >>
  BY <1>1, <1>2, <1>3 DEF PlayerEmpty
<1>6. SpecTypeOK'
  BY <1>3 DEF SpecTypeOK
<1>7. PlacesOK' /\ AllPlayed' /\ SilentFirst' /\ PlayerEmpty' /\ PlayKeepsUp'
  BY <1>4, <1>5 DEF PlacesOK, AllPlayed, SilentFirst, Silent, PlayerEmpty, PlayKeepsUp,
                    Speaking
<1> QED BY <1>1, <1>2, <1>3, <1>4, <1>6, <1>7, MoveStep

\* A delta is pushed: it is the next one of the reply, and goes into the player.
LEMMA PushStep ==
  ASSUME TurnInv, NEW next \in {"stream", "play"}, turn.at = next,
         Len(reply) < MaxDeltas, Push(Len(reply) + 1, next),
         UNCHANGED <<config, busy, channel, turns, heard>>, SpecTypeOK',
         next = "play" => spec'.index = spec.index + 1
  PROVE  TurnInv'
<1> USE DEF TurnInv
<1>1. turn \in Turn /\ turn # NoTurn /\ busy
  BY InTurn DEF Places
<1>2. /\ turn' = [turn EXCEPT !.at = "flush", !.next = next]
      /\ reply' = Append(reply, Len(reply) + 1)
      /\ player' = Append(player, Len(reply) + 1)
  BY DEF Push, GotoThen
<1>3. /\ turn' \in Turn /\ turn'.at = "flush" /\ turn'.next = next
      /\ turn'.kind = turn.kind /\ turn' # NoTurn
  BY <1>1, <1>2 DEF Turn, Places, NoTurn
<1>4. TurnTypeOK'
  BY <1>1, <1>3 DEF TurnTypeOK
<1>5. PlacesOK'
  BY <1>1, <1>3 DEF PlacesOK, Speaking
<1>6. Chunk = << >> /\ Chunk' = << >> /\ (heard \o << >>) = heard
  BY <1>3, TextsAreSeqs, ConcatEmptySeq DEF Chunk, Spoken
<1>7. /\ player \in Seq(Deltas) /\ heard \in Seq(Deltas) /\ heard \o player = reply
      /\ Len(reply) = Len(heard) + Len(player)
      /\ Len(heard) \in Nat /\ Len(player) \in Nat
  <2>1. player \in Seq(Deltas) /\ heard \in Seq(Deltas)
    BY TextsAreSeqs DEF Spoken
  <2>2. heard \o player = reply
    BY <1>1, <1>6 DEF Spoken
  <2> QED BY <2>1, <2>2, ConcatProperties, LenProperties
<1>8. /\ Len(reply) + 1 \in Deltas
      /\ Counting(reply') /\ Len(reply') = Len(reply) + 1
  BY <1>2, CountingAppend DEF Spoken
<1>9. player' \in Texts
  <2>1. player' \in Seq(Deltas) /\ Len(player') = Len(player) + 1
    BY <1>2, <1>7, <1>8, AppendProperties
  <2>2. Len(player') <= MaxDeltas
    BY <1>7, <2>1, TurnBoundsAssumption
  <2> QED BY <2>1, <2>2, TextsAreSeqs
<1>10. heard \o player' = reply'
  <2>1. << Len(reply) + 1 >> \in Seq(Deltas)
    BY <1>8
  <2>2. /\ player' = player \o << Len(reply) + 1 >>
        /\ reply' = reply \o << Len(reply) + 1 >>
    BY <1>2, <1>7, <1>8, AppendIsConcat DEF Spoken, Counting
  <2>3. (heard \o player) \o << Len(reply) + 1 >>
          = heard \o (player \o << Len(reply) + 1 >>)
    BY <1>7, <2>1, ConcatAssociative
  <2> QED BY <1>7, <2>2, <2>3
<1>11. Spoken'
  BY <1>6, <1>8, <1>9, <1>10 DEF Spoken
<1>12. PlayKeepsUp'
  BY <1>1, <1>3, <1>8 DEF PlayKeepsUp, Speaking
<1>13. SilentFirst' /\ PlayerEmpty' /\ AllPlayed'
  BY <1>3 DEF SilentFirst, Silent, PlayerEmpty, AllPlayed
<1> QED BY <1>4, <1>5, <1>11, <1>12, <1>13

LEMMA NextDeltaStep ==
  ASSUME TurnInv, NextDelta
  PROVE  TurnInv'
<1>1. SpecTypeOK'
  BY DEF NextDelta, TurnInv, SpecTypeOK, SpecRecords
<1> QED BY <1>1, PushStep DEF NextDelta, At

LEMMA PlayStep ==
  ASSUME TurnInv, Play
  PROVE  TurnInv'
<1> USE DEF TurnInv
<1>1. turn.at = "play"
  BY DEF Play, At
<1>2. turn \in Turn /\ turn # NoTurn /\ busy
  BY <1>1, InTurn DEF Places
<1>3. UNCHANGED <<config, busy, channel, turns, heard>>
  BY DEF Play
<1>4. Len(reply) = spec.index
  BY <1>1, <1>2 DEF PlayKeepsUp
<1>5. /\ Counting(spec.deltas) /\ spec.index <= Len(spec.deltas)
      /\ spec.index \in Nat /\ Len(spec.deltas) \in Nat /\ Len(spec.deltas) <= MaxDeltas
  BY LenProperties DEF SpecTypeOK, SpecRecords, Counting
<1>6. ASSUME spec.index < Len(spec.deltas),
             Push(spec.deltas[spec.index + 1], "play"),
             spec' = [spec EXCEPT !.index = @ + 1]
      PROVE  TurnInv'
  <2>1. spec.deltas[spec.index + 1] = Len(reply) + 1
    BY <1>4, <1>5, <1>6 DEF Counting
  <2>2. SpecTypeOK' /\ spec'.index = spec.index + 1
    BY <1>5, <1>6 DEF SpecTypeOK, SpecRecords
  <2>3. Len(reply) < MaxDeltas
    BY <1>4, <1>5, <1>6, TurnBoundsAssumption
  <2> QED BY <1>1, <1>3, <1>6, <2>1, <2>2, <2>3, PushStep
<1>7. ASSUME spec.index >= Len(spec.deltas), UNCHANGED <<reply, player, spec>>,
             IF ~spec.done THEN Goto("wait")
             ELSE IF spec.err = "failed" THEN Goto("finish") ELSE GotoThen("flush", "closed")
      PROVE  TurnInv'
  <2>1. /\ turn' \in Turn /\ turn'.kind = turn.kind
        /\ turn'.at \in {"wait", "finish", "flush"}
        /\ turn'.at = "flush" => spec.done /\ turn'.next = "closed"
    BY <1>2, <1>7 DEF Goto, GotoThen, Turn, Places
  <2>2. reply = spec.deltas
    <3>1. Len(reply) = Len(spec.deltas)
      BY <1>4, <1>5, <1>7
    <3> QED BY <1>5, <3>1, CountingEqual DEF Spoken
  <2>3. SpecTypeOK'
    BY <1>7 DEF SpecTypeOK
  <2>4. PlacesOK' /\ SilentFirst' /\ PlayerEmpty'
    BY <2>1 DEF PlacesOK, SilentFirst, Silent, PlayerEmpty, Speaking
  <2>5. PlayKeepsUp'
    BY <1>4, <1>7, <2>1 DEF PlayKeepsUp, Speaking
  <2>6. AllPlayed'
    <3>1. reply' = spec'.deltas
      BY <1>7, <2>2
    <3>2. turn'.at = "flush" => spec'.done
      BY <1>7, <2>1
    <3> QED BY <2>1, <3>1, <3>2 DEF AllPlayed, Speaking
  <2>7. /\ turn.at \notin {"speak", "speaking", "finish"}
        /\ turn'.at \notin {"speak", "speaking"}
    BY <1>1, <2>1
  <2> QED BY <1>2, <1>3, <1>7, <2>1, <2>3, <2>4, <2>5, <2>6, <2>7, MoveStep
<1> QED BY <1>6, <1>7 DEF Play

LEMMA NotifiedStep ==
  ASSUME TurnInv, PlayIsNotified
  PROVE  TurnInv'
<1> USE DEF TurnInv
<1>1. turn.at = "wait"
  BY DEF PlayIsNotified, At
<1>2. turn \in Turn /\ turn # NoTurn /\ busy
  BY <1>1, InTurn DEF Places
<1>3. UNCHANGED <<config, busy, channel, turns, reply, player, heard>>
  BY DEF PlayIsNotified, otherVars
<1>4. turn' \in Turn /\ turn'.at = "play" /\ turn'.kind = turn.kind
  BY <1>2 DEF PlayIsNotified, Goto, Turn, Places
<1>5. SpecTypeOK' /\ spec'.index = spec.index
  BY DEF PlayIsNotified, SpecTypeOK, SpecRecords
<1>6. PlacesOK' /\ SilentFirst' /\ PlayerEmpty' /\ AllPlayed'
  BY <1>4 DEF PlacesOK, SilentFirst, Silent, PlayerEmpty, AllPlayed, Speaking
<1>7. PlayKeepsUp'
  BY <1>1, <1>2, <1>3, <1>5 DEF PlayKeepsUp
<1> QED BY <1>1, <1>2, <1>3, <1>4, <1>5, <1>6, <1>7, MoveStep

LEMMA FlushStep ==
  ASSUME TurnInv, FlushReady
  PROVE  TurnInv'
<1> USE DEF TurnInv
<1>1. turn.at = "flush"
  BY DEF FlushReady, At
<1>2. turn \in Turn /\ turn # NoTurn /\ busy
  BY <1>1, InTurn DEF Places
<1>3. UNCHANGED <<config, busy, channel, turns, reply, heard, spec>>
  BY DEF FlushReady
<1>4. turn.next \in {"stream", "play", "closed"}
  BY <1>1, <1>2 DEF PlacesOK, Speaking
<1>5. player \in Texts /\ Len(player) \in Nat /\ heard \in Seq(Deltas)
      /\ (heard \o << >>) \o player = reply
  BY <1>1, <1>2, TextsAreSeqs, LenProperties DEF Spoken, Chunk
<1>6. SpecTypeOK'
  BY <1>3 DEF SpecTypeOK
<1>7. PICK k \in Cuts(turn.next = "closed") :
        IF k = 0
        THEN Goto(turn.next) /\ player' = player
        ELSE /\ turn' = [turn EXCEPT !.at = "speak", !.chunk = SubSeq(player, 1, k)]
             /\ player' = RestAfter(k)
  BY DEF FlushReady
<1>8. k \in 0..Len(player)
  BY <1>5, <1>7 DEF Cuts
<1>9. CASE k = 0
  <2>1. /\ turn' \in Turn /\ turn'.at = turn.next
        /\ turn'.kind = turn.kind /\ turn'.next = turn.next
    BY <1>2, <1>7, <1>9 DEF Goto, Turn
  <2>2. turn.next = "closed" => player = << >>
    BY <1>5, <1>7, <1>9 DEF Cuts
  <2>3. PlayerEmpty'
    BY <1>4, <1>7, <1>9, <2>1, <2>2 DEF PlayerEmpty
  <2>4. PlacesOK'
    BY <1>1, <1>2, <1>3, <1>4, <2>1 DEF PlacesOK, Speaking
  <2>5. PlayKeepsUp' /\ SilentFirst' /\ AllPlayed'
    BY <1>1, <1>2, <1>3, <1>4, <2>1 DEF PlayKeepsUp, SilentFirst, Silent, AllPlayed, Speaking
  <2>6. /\ turn.at \notin {"speak", "speaking", "finish"}
        /\ turn'.at \notin {"speak", "speaking"}
    BY <1>1, <1>4, <2>1
  <2> QED BY <1>2, <1>3, <1>6, <1>7, <1>9, <2>1, <2>3, <2>4, <2>5, <2>6, MoveStep
<1>10. CASE k # 0
  <2> DEFINE chunk == SubSeq(player, 1, k)
             rest  == SubSeq(player, k + 1, Len(player))
  <2>1. chunk \in Texts /\ rest \in Texts /\ chunk \o rest = player
    BY <1>5, <1>8, CutJoins
  <2>2. /\ turn' = [turn EXCEPT !.at = "speak", !.chunk = chunk]
        /\ player' = rest
    BY <1>7, <1>10 DEF RestAfter
  <2> HIDE DEF chunk, rest
  <2>3. /\ turn' \in Turn /\ turn' # NoTurn /\ turn'.at = "speak"
        /\ turn'.kind = turn.kind /\ turn'.next = turn.next /\ turn'.chunk = chunk
    BY <1>2, <2>1, <2>2 DEF Turn, Places, NoTurn
  <2>4. TurnTypeOK'
    BY <1>2, <1>3, <2>3 DEF TurnTypeOK
  <2>5. Spoken'
    <3>1. Chunk' = chunk
      BY <2>3 DEF Chunk
    <3>2. /\ chunk \in Seq(Deltas) /\ rest \in Seq(Deltas)
      BY <2>1, TextsAreSeqs
    <3>3. (heard \o chunk) \o rest = heard \o player
      <4>1. heard \in Seq(Deltas)
        BY <1>5
      <4>2. (heard \o chunk) \o rest = heard \o (chunk \o rest)
        BY <3>2, <4>1, ConcatAssociative
      <4> QED BY <2>1, <4>2
    <3>4. heard \o << >> = heard
      BY <1>5, ConcatEmptySeq
    <3>5. (heard' \o Chunk') \o player' = reply'
      BY <1>3, <1>5, <2>2, <3>1, <3>3, <3>4
    <3> QED BY <1>3, <2>1, <2>2, <3>5 DEF Spoken
  <2>6. PlacesOK' /\ SilentFirst' /\ PlayerEmpty'
    BY <1>1, <1>2, <1>3, <1>4, <2>3 DEF PlacesOK, SilentFirst, Silent, PlayerEmpty, Speaking
  <2>7. PlayKeepsUp' /\ AllPlayed'
    BY <1>1, <1>2, <1>3, <2>3 DEF PlayKeepsUp, AllPlayed, Speaking
  <2> QED BY <1>6, <2>4, <2>5, <2>6, <2>7
<1> QED BY <1>9, <1>10

\* What was said goes over to what was heard.
LEMMA HeardStep ==
  ASSUME TurnInv, turn.at \in {"speak", "speaking"},
         turn' = [turn EXCEPT !.at = "flush"], heard' = heard \o turn.chunk,
         UNCHANGED <<config, busy, channel, turns, reply, player, spec>>
  PROVE  TurnInv'
<1> USE DEF TurnInv
<1>1. turn \in Turn /\ turn # NoTurn /\ busy
  BY InTurn DEF Places
<1>2. turn.next \in {"stream", "play", "closed"}
  BY <1>1 DEF PlacesOK, Speaking
<1>3. /\ turn' \in Turn /\ turn' # NoTurn /\ turn'.at = "flush"
      /\ turn'.kind = turn.kind /\ turn'.next = turn.next
  BY <1>1 DEF Turn, Places, NoTurn
<1>4. TurnTypeOK'
  BY <1>1, <1>3 DEF TurnTypeOK
<1>5. SpecTypeOK'
  BY DEF SpecTypeOK
<1>6. Spoken'
  <2>1. /\ heard \in Seq(Deltas) /\ turn.chunk \in Seq(Deltas) /\ player \in Seq(Deltas)
        /\ (heard \o turn.chunk) \o player = reply
    BY <1>1, TextsAreSeqs DEF Spoken, Chunk, Turn
  <2>2. /\ heard' \in Seq(Deltas) /\ Len(heard') \in Nat /\ Len(player) \in Nat
        /\ Len(reply) = Len(heard') + Len(player)
    BY <2>1, ConcatProperties, LenProperties
  <2>3. heard' \in Texts
    <3>1. Len(reply) <= MaxDeltas /\ MaxDeltas \in Nat
      BY TurnBoundsAssumption DEF Spoken, Counting
    <3>2. Len(heard') <= MaxDeltas
      BY <2>2, <3>1
    <3> QED BY <2>2, <3>2, TextsAreSeqs
  <2>4. Chunk' = << >> /\ heard' \o << >> = heard'
    BY <1>3, <2>2, ConcatEmptySeq DEF Chunk
  <2>5. (heard' \o Chunk') \o player' = reply'
    BY <2>1, <2>4
  <2> QED BY <2>3, <2>5 DEF Spoken
<1>7. PlacesOK' /\ SilentFirst' /\ PlayerEmpty'
  BY <1>1, <1>2, <1>3 DEF PlacesOK, SilentFirst, Silent, PlayerEmpty, Speaking
<1>8. PlayKeepsUp' /\ AllPlayed'
  BY <1>1, <1>3 DEF PlayKeepsUp, AllPlayed, Speaking
<1> QED BY <1>4, <1>5, <1>6, <1>7, <1>8

LEMMA SpeakStep ==
  ASSUME TurnInv, SpeakText \/ SpeakReturns
  PROVE  TurnInv'
<1> USE DEF TurnInv
<1>1. turn.at \in {"speak", "speaking"}
  BY DEF SpeakText, SpeakReturns, At
<1>2. UNCHANGED <<config, busy, channel, turns, reply, player, spec>>
  BY DEF SpeakText, SpeakReturns
<1>3. turn \in Turn /\ turn # NoTurn /\ busy
  BY <1>1, InTurn DEF Places
<1>4. CASE turn' = [turn EXCEPT !.at = "flush"] /\ heard' = heard \o turn.chunk
  BY <1>1, <1>2, <1>4, HeardStep
<1>5. ASSUME NEW p \in {"speaking", "finish"},
             turn' = [turn EXCEPT !.at = p], heard' = heard
      PROVE  TurnInv'
  <2>1. /\ turn' \in Turn /\ turn' # NoTurn /\ turn'.at = p /\ turn'.chunk = turn.chunk
        /\ turn'.kind = turn.kind /\ turn'.next = turn.next
    BY <1>3, <1>5 DEF Turn, Places, NoTurn
  <2>2. TurnTypeOK'
    BY <1>2, <1>3, <2>1 DEF TurnTypeOK
  <2>3. SpecTypeOK'
    BY <1>2 DEF SpecTypeOK
  <2>4. p = "speaking" => Chunk' = Chunk
    BY <1>1, <2>1 DEF Chunk
  <2>5. Spoken'
    BY <1>1, <1>2, <1>5, <2>1, <2>4 DEF Spoken
  <2>6. PlacesOK' /\ SilentFirst' /\ PlayerEmpty'
    BY <1>1, <1>2, <1>3, <2>1 DEF PlacesOK, SilentFirst, Silent, PlayerEmpty, Speaking
  <2>7. PlayKeepsUp' /\ AllPlayed'
    BY <1>1, <1>2, <1>3, <2>1 DEF PlayKeepsUp, AllPlayed, Speaking
  <2> QED BY <2>2, <2>3, <2>5, <2>6, <2>7
<1>6. CASE SpeakText
  BY <1>4, <1>5, <1>6 DEF SpeakText, Goto
<1>7. CASE SpeakReturns
  BY <1>4, <1>5, <1>7 DEF SpeakReturns, Goto
<1> QED BY <1>6, <1>7

LEMMA SayWholeStep ==
  ASSUME TurnInv, SayWhole
  PROVE  TurnInv'
<1> USE DEF TurnInv
<1>1. turn.at = "say"
  BY DEF SayWhole, At
<1>2. turn \in Turn /\ turn # NoTurn /\ busy
  BY <1>1, InTurn DEF Places
<1>3. /\ UNCHANGED <<config, busy, channel, turns, player, heard, spec>>
      /\ reply' = <<1>>
      /\ turn' = [turn EXCEPT !.at = "speak", !.next = "closed", !.chunk = <<1>>]
  BY DEF SayWhole
<1>4. player = << >> /\ heard = << >>
  BY <1>1, <1>2 DEF SilentFirst, Silent
<1>5. /\ Counting(<<1>>) /\ <<1>> \in Texts /\ <<1>> \in Seq(Deltas)
  <2>1. <<1>> \in Seq(Deltas) /\ Len(<<1>>) = 1 /\ <<1>>[1] = 1
    BY TurnBoundsAssumption DEF Deltas
  <2>2. \A i \in 1..Len(<<1>>) : <<1>>[i] = i
    BY <2>1
  <2>3. Len(<<1>>) <= MaxDeltas
    BY <2>1, TurnBoundsAssumption
  <2> QED BY <2>1, <2>2, <2>3, TextsAreSeqs DEF Counting
<1>6. /\ turn' \in Turn /\ turn' # NoTurn /\ turn'.at = "speak" /\ turn'.chunk = <<1>>
      /\ turn'.kind = turn.kind /\ turn'.next = "closed"
  BY <1>2, <1>3, <1>5 DEF Turn, Places, NoTurn
<1>7. ~(turn.kind = "chat" /\ config.parallel)
  BY <1>1, <1>2 DEF PlacesOK
<1>8. TurnTypeOK'
  BY <1>2, <1>3, <1>6 DEF TurnTypeOK
<1>9. SpecTypeOK'
  BY <1>3 DEF SpecTypeOK
<1>10. Spoken'
  <2>1. Chunk' = <<1>>
    BY <1>6 DEF Chunk
  <2>2. (<< >> \o <<1>>) \o << >> = <<1>>
    BY <1>5, ConcatEmptySeq
  <2>3. (heard' \o Chunk') \o player' = reply'
    BY <1>3, <1>4, <2>1, <2>2
  <2> QED BY <1>3, <1>5, <2>3 DEF Spoken
<1>11. PlacesOK' /\ AllPlayed'
  BY <1>3, <1>6, <1>7 DEF PlacesOK, AllPlayed, Speaking
<1>12. SilentFirst' /\ PlayerEmpty' /\ PlayKeepsUp'
  BY <1>6 DEF SilentFirst, Silent, PlayerEmpty, PlayKeepsUp, Speaking
<1> QED BY <1>8, <1>9, <1>10, <1>11, <1>12

LEMMA ReportsStep ==
  ASSUME TurnInv, DeliverReports
  PROVE  TurnInv'
<1> USE DEF TurnInv
<1>1. turn.at = "reports"
  BY DEF DeliverReports, At
<1>2. turn \in Turn /\ turn # NoTurn /\ busy
  BY <1>1, InTurn DEF Places
<1>3. UNCHANGED <<config, busy, channel, turns, player>> /\ spec' = NoSpec
  BY DEF DeliverReports
<1>4. player = << >>
  BY <1>1, <1>2 DEF PlayerEmpty
<1>5. SpecTypeOK'
  <2>1. NoSpec \in SpecRecords
    BY EmptyText DEF NoSpec, SpecRecords
  <2>2. NoSpec.deltas = << >> /\ NoSpec.index = 0 /\ NoSpec.at = "none"
    BY DEF NoSpec, SpecRecords
  <2>3. Len(<< >>) = 0
    BY EmptySeq
  <2> QED BY <1>3, <2>1, <2>2, <2>3, EmptyText DEF SpecTypeOK, SpecRecords
<1>6. /\ turn' \in Turn /\ turn' # NoTurn
      /\ \/ turn'.at = "finish" /\ UNCHANGED <<reply, heard>>
         \/ turn'.at = "stream" /\ turn'.kind = "report" /\ reply' = << >> /\ heard' = << >>
  BY <1>2 DEF DeliverReports, Goto, Turn, Places, Kinds, NoTurn
<1>7. TurnTypeOK'
  BY <1>2, <1>3, <1>6 DEF TurnTypeOK
<1>8. Spoken'
  <2>1. CASE turn'.at = "finish" /\ UNCHANGED <<reply, heard>>
    BY <1>3, <2>1 DEF Spoken
  <2>2. CASE turn'.at = "stream" /\ reply' = << >> /\ heard' = << >>
    <3>1. Chunk' = << >>
      BY <2>2 DEF Chunk
    <3>2. (<< >> \o << >>) \o << >> = << >>
      BY EmptyText, ConcatEmptySeq
    <3> QED BY <1>3, <1>4, <2>2, <3>1, <3>2, EmptyText DEF Spoken
  <2> QED BY <1>6, <2>1, <2>2
<1>9. PlacesOK' /\ AllPlayed' /\ SilentFirst' /\ PlayerEmpty' /\ PlayKeepsUp'
  BY <1>6 DEF PlacesOK, AllPlayed, SilentFirst, Silent, PlayerEmpty, PlayKeepsUp, Speaking
<1> QED BY <1>5, <1>7, <1>8, <1>9

LEMMA GiveBackStep ==
  ASSUME TurnInv, GiveBack
  PROVE  TurnInv'
<1> USE DEF TurnInv
<1>1. /\ busy' = FALSE /\ turn' = NoTurn /\ spec' = NoSpec /\ reply' = << >>
      /\ player' = << >> /\ heard' = << >> /\ UNCHANGED <<config, channel, turns>>
  BY DEF GiveBack
<1>2. TurnTypeOK'
  BY <1>1 DEF TurnTypeOK
<1>3. SpecTypeOK'
  <2>1. NoSpec \in SpecRecords
    BY EmptyText DEF NoSpec, SpecRecords
  <2>2. NoSpec.deltas = << >> /\ NoSpec.index = 0 /\ NoSpec.at = "none"
    BY DEF NoSpec, SpecRecords
  <2>3. Len(<< >>) = 0
    BY EmptySeq
  <2> QED BY <1>1, <2>1, <2>2, <2>3, EmptyText DEF SpecTypeOK, SpecRecords
<1>4. Spoken'
  BY <1>1, EmptyText DEF Spoken
<1>5. PlacesOK' /\ AllPlayed' /\ SilentFirst' /\ PlayerEmpty' /\ PlayKeepsUp'
  BY <1>1 DEF PlacesOK, AllPlayed, SilentFirst, PlayerEmpty, PlayKeepsUp
<1> QED BY <1>2, <1>3, <1>4, <1>5

LEMMA FinishStep ==
  ASSUME TurnInv, FinishVoiceTurn
  PROVE  TurnInv'
<1>1. CASE GiveBack
  BY <1>1, GiveBackStep
<1>2. CASE channel # NoChannel /\ Begin("reports", "report", channel)
  <2>1. channel \in Channels
    BY <1>2 DEF TurnInv, TurnTypeOK
  <2> QED BY <1>2, <2>1, BeginStep
<1> QED BY <1>1, <1>2 DEF FinishVoiceTurn

\* The goroutine of the reply given ahead adds to its deltas and nothing else;
\* what Play has found complete stays so.
LEMMA SpecStepOK ==
  ASSUME TurnInv, SpecStep
  PROVE  TurnInv'
<1> USE DEF TurnInv
<1>1. UNCHANGED <<config, busy, channel, turns, turn, reply, player, heard>>
  BY DEF SpecStep, SpecAppend, SpecFinish, SpecSignal, turnVars, otherVars
<1>2. /\ spec'.index = spec.index
      /\ spec.done => spec'.done /\ spec'.deltas = spec.deltas
  BY DEF SpecStep, SpecAppend, SpecFinish, SpecSignal, SpecTypeOK, SpecRecords
<1>3. SpecTypeOK'
  <2>1. CASE SpecAppend
    <3>1. /\ Counting(spec.deltas) /\ Len(spec.deltas) < MaxDeltas
          /\ spec' = [spec EXCEPT !.deltas = Append(@, Len(@) + 1), !.at = "signal"]
      BY <2>1 DEF SpecAppend, SpecTypeOK, SpecRecords
    <3>2. /\ Counting(Append(spec.deltas, Len(spec.deltas) + 1))
          /\ Len(Append(spec.deltas, Len(spec.deltas) + 1)) = Len(spec.deltas) + 1
      BY <3>1, CountingAppend
    <3>3. spec'.deltas = Append(spec.deltas, Len(spec.deltas) + 1) /\ spec'.at = "signal"
          /\ spec'.index = spec.index
      BY <3>1 DEF SpecTypeOK, SpecRecords
    <3>4. Append(spec.deltas, Len(spec.deltas) + 1) \in Seq(Deltas)
      BY <3>2 DEF Counting
    <3>5. spec' \in SpecRecords
      BY <3>1, <3>4 DEF SpecTypeOK, SpecRecords
    <3>6. spec'.index <= Len(spec'.deltas)
      <4>1. spec.index \in Nat /\ Len(spec.deltas) \in Nat /\ spec.index <= Len(spec.deltas)
        BY LenProperties DEF SpecTypeOK, SpecRecords
      <4> QED BY <3>2, <3>3, <4>1
    <3> QED BY <3>2, <3>3, <3>5, <3>6 DEF SpecTypeOK, SpecRecords
  <2>2. CASE SpecFinish
    BY <2>2 DEF SpecFinish, AfterFinish, SpecTypeOK, SpecRecords
  <2>3. CASE SpecSignal
    <3>1. PICK a \in {"over", "stream"} :
            /\ spec' = [spec EXCEPT !.notify = 1, !.at = a]
            /\ a = "stream" => ~spec.done
      BY <2>3 DEF SpecSignal, Notified
    <3>2. /\ spec'.deltas = spec.deltas /\ spec'.index = spec.index
          /\ spec'.done = spec.done /\ spec'.at = a
      BY <3>1 DEF SpecTypeOK, SpecRecords
    <3>3. spec' \in SpecRecords
      <4>1. 1 \in 0..1 /\ spec \in SpecRecords
        BY DEF SpecTypeOK
      <4>2. CASE a = "over"
        BY <3>1, <4>1, <4>2 DEF SpecRecords
      <4>3. CASE a = "stream"
        BY <3>1, <4>1, <4>3 DEF SpecRecords
      <4> QED BY <4>2, <4>3
    <3> QED BY <3>1, <3>2, <3>3 DEF SpecTypeOK, SpecRecords
  <2> QED BY <2>1, <2>2, <2>3 DEF SpecStep
<1>4. TurnTypeOK' /\ PlacesOK' /\ PlayerEmpty'
  BY <1>1 DEF TurnTypeOK, PlacesOK, PlayerEmpty
<1>5. Spoken'
  BY <1>1 DEF Spoken, Chunk
<1>6. SilentFirst' /\ PlayKeepsUp' /\ AllPlayed'
  BY <1>1, <1>2 DEF SilentFirst, PlayKeepsUp, AllPlayed
<1> QED BY <1>3, <1>4, <1>5, <1>6

\* Nothing of the turn changes.
LEMMA QuietStep ==
  ASSUME TurnInv, UNCHANGED <<config, busy, turnVars, spec>>
  PROVE  TurnInv'
BY DEF TurnInv, turnVars, otherVars, TurnTypeOK, SpecTypeOK, PlacesOK, Spoken, Chunk,
       SilentFirst, PlayerEmpty, PlayKeepsUp, AllPlayed

LEMMA TurnStepOK ==
  ASSUME TurnInv, [VoiceNext]_voiceVars
  PROVE  TurnInv'
<1>1. CASE \E ch \in Channels : HandleUserText(ch)
  BY <1>1, BeginStep DEF HandleUserText
<1>2. CASE BeginReportTurn
  <2>1. channel \in Channels
    BY <1>2 DEF BeginReportTurn, TurnInv, TurnTypeOK
  <2> QED BY <1>2, <2>1, BeginStep DEF BeginReportTurn
<1>3. CASE TurnStep
  BY <1>3, DecisionStep, PrepareStep, StreamOverStep, StoreStep, NextDeltaStep, PlayStep,
     NotifiedStep, FlushStep, SpeakStep, SayWholeStep, ReportsStep, FinishStep
     DEF TurnStep
<1>4. CASE SpecStep
  BY <1>4, SpecStepOK
<1>5. CASE LinkStep
  BY <1>5, QuietStep DEF LinkStep
<1>6. CASE UNCHANGED voiceVars
  BY <1>6, QuietStep DEF voiceVars
<1> QED BY <1>1, <1>2, <1>3, <1>4, <1>5, <1>6 DEF VoiceNext

-----------------------------------------------------------------------------
(* The theorems. *)

\* The whole invariant of a turn and of the connections below it: it holds at
\* first and every step of the turn, of the goroutine that fills the reply given
\* ahead, of the speaker and of its connections keeps it.
THEOREM VoiceInvariance == VoiceSpec => [](TurnInv /\ LinkInv /\ Counted)
<1> DEFINE Inv == TurnInv /\ LinkInv /\ Counted
<1>1. VoiceInit => Inv
  BY TurnInitOK, LinkInitOK, CountedInit DEF VoiceInit
<1>2. Inv /\ [VoiceNext]_voiceVars => Inv'
  <2> SUFFICES ASSUME Inv, [VoiceNext]_voiceVars PROVE Inv'
    OBVIOUS
  <2>1. [LinkNext]_linkVars
    BY TurnStepIsLinkStep DEF TurnInv
  <2> QED BY <2>1, TurnStepOK, LinkStepOK, CountedStep
<1> QED BY <1>1, <1>2, PTL DEF VoiceSpec

\* Whatever a turn does with the connections, they behave as SpeakerSession
\* says: what is proved of the calls holds for those of the turns
\* (handleUserText and what it calls, over session.go).
THEOREM TurnsUseTheLink == VoiceSpec => LinkSpec
<1>1. VoiceInit => LinkInit
  BY DEF VoiceInit
<1>2. TurnInv /\ [VoiceNext]_voiceVars => [LinkNext]_linkVars
  BY TurnStepIsLinkStep DEF TurnInv
<1> QED BY <1>1, <1>2, VoiceInvariance, PTL DEF VoiceSpec, LinkSpec

\* The variables keep their types, the service is busy exactly as long as there
\* is a turn, and ConnectionStatus counts the open connections.
THEOREM VoiceTypes == VoiceSpec => []VoiceTypeOK
<1>1. TurnInv /\ LinkInv /\ Counted => VoiceTypeOK
  <2> SUFFICES ASSUME TurnInv, LinkInv, Counted PROVE VoiceTypeOK
    OBVIOUS
  <2>1. {reply, player, heard, spec.deltas} \subseteq Texts
    BY TextsAreSeqs DEF TurnInv, Spoken, SpecTypeOK, SpecRecords, Counting
  <2>2. spec.index \in 0..Len(spec.deltas)
    BY LenProperties DEF TurnInv, SpecTypeOK, SpecRecords
  <2>3. LinkTypeOK /\ active = Cardinality(OpenConnections)
    BY DEF LinkInv, Counted
  <2>4. /\ spec.at \in {"none", "stream", "signal", "over"}
        /\ spec.done \in BOOLEAN /\ spec.cancelled \in BOOLEAN
        /\ spec.err \in {"none", "failed", "canceled"}
        /\ spec.notify \in 0..1
    BY DEF TurnInv, SpecTypeOK, SpecRecords
  <2> QED BY <2>1, <2>2, <2>3, <2>4 DEF VoiceTypeOK, TurnInv, TurnTypeOK
<1> QED BY <1>1, VoiceInvariance, PTL

\* Between the model and the ear nothing is lost, repeated or said out of turn
\* (StreamSpeaker and speculativeReply.Play).
THEOREM NothingSaidTwice == VoiceSpec => []SaidInOrder
<1>1. TurnInv => SaidInOrder
  <2> SUFFICES ASSUME TurnInv, busy, turn.at # "finish" PROVE
        /\ (heard \o Chunk) \o player = reply
        /\ reply = [i \in 1..Len(reply) |-> i]
    BY DEF SaidInOrder, Chunk
  <2>1. Counting(reply) /\ reply \in [1..Len(reply) -> Deltas]
    BY LenProperties DEF TurnInv, Spoken, Counting
  <2> QED BY <2>1 DEF TurnInv, Spoken, Counting
<1> QED BY <1>1, VoiceInvariance, PTL

\* Only what the speaker has confirmed in full is stored, mirrored and marked as
\* told (runChatDecision, handleToolCall and deliverTaskResultReports).
THEOREM OnlyHeardIsStored == VoiceSpec => []StoredWasHeard
<1>1. TurnInv => StoredWasHeard
  <2> SUFFICES ASSUME TurnInv, turn.at = "closed"
               PROVE  /\ heard = reply
                      /\ turn.kind = "chat" /\ config.parallel =>
                           spec.done /\ reply = spec.deltas
    BY DEF StoredWasHeard, At
  <2>1. busy
    BY InTurn DEF TurnInv, Places
  <2>2. player = << >> /\ Chunk = << >>
    BY <2>1 DEF TurnInv, PlayerEmpty, Chunk
  <2>3. heard \in Seq(Deltas)
    BY TextsAreSeqs DEF TurnInv, Spoken
  <2>4. (heard \o << >>) \o << >> = heard
    BY <2>3, ConcatEmptySeq
  <2>5. heard = reply
    BY <2>1, <2>2, <2>4 DEF TurnInv, Spoken
  <2> QED BY <2>1, <2>5 DEF TurnInv, AllPlayed
<1> QED BY <1>1, VoiceInvariance, PTL

\* An answer reaches the call it belongs to and no other (call and onResponse of
\* session.go), also for the calls of turns that a timeout has ended.
THEOREM TurnsGetTheirAnswers == VoiceSpec => []AnswerOfItsCall
<1>1. LinkInv => AnswerOfItsCall
  BY DEF LinkInv
<1> QED BY <1>1, VoiceInvariance, PTL

\* The send of onResponse finds room: the read loop goes on, whatever the callers
\* and the speaker do.
THEOREM ReadLoopNeverBlocks == VoiceSpec => []ReadLoopMoves
<1>1. LinkInv => ReadLoopMoves
  BY DEF LinkInv
<1> QED BY <1>1, VoiceInvariance, PTL
=============================================================================
