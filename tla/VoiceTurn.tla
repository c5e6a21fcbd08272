------------------------------ MODULE VoiceTurn ------------------------------
(***************************************************************************)
(* A voice turn from the user's text to the reply that is stored:          *)
(* handleUserText, handleToolCall, handleAsyncTask, handleDemo and         *)
(* deliverTaskResultReports of src/internal/assistant/service.go, with the *)
(* reply that is generated ahead (speculative.go), the player that cuts it *)
(* into sentences (voice/stream_speaker.go) and the calls to the speaker   *)
(* (SpeakerSession).  ResultReport has what a report reads and marks;      *)
(* SessionHistory has what storing a turn does.                            *)
(*                                                                         *)
(* The models are external: a reply is some deltas, and an end or a        *)
(* failure.  A text is a sequence of deltas, a delta is its number.        *)
(***************************************************************************)
EXTENDS SpeakerSession, Sequences

CONSTANTS
  MaxTurns,   \* bound of the number of turns
  MaxDeltas   \* bound of the number of deltas of a reply

ASSUME TurnBoundsAssumption == MaxTurns \in Nat /\ MaxDeltas \in Nat \ {0}

VARIABLES
  config,   \* Config: AbortAfterASR and UseParallelIntentChat
  busy,     \* Service.busy
  channel,  \* Service.lastChannel
  turns,    \* how many turns have begun
  turn,     \* the turn in progress
  reply,    \* replyText of the turn: the deltas it has pushed
  player,   \* the buffer of its StreamSpeaker
  spec,     \* its speculativeReply, and the goroutine that fills it
  heard     \* history: what the channel has confirmed to have said

otherVars  == <<channel, turns, reply, player, heard>>
turnVars   == <<turn, otherVars>>
voiceVars  == <<linkVars, config, busy, turnVars, spec>>

\* The goroutines of turns call one after the other; they are one caller.
Voice == "voice"
ASSUME VoiceAssumption == Voice \in Callers

Debug     == "debug"
NoChannel == "none"
Channels  == Sessions \cup {Debug}

Texts == UNION {[1..n -> 1..MaxDeltas] : n \in 0..MaxDeltas}

\* The steps of a turn between two calls, and what kind of reply it gives.
Places == {"begin", "ahead", "intent", "prepare", "aborting", "tool", "say",
           "stream", "play", "wait", "flush", "speak", "speaking", "closed",
           "reports", "finish"}
Kinds  == {"chat", "tool", "demo", "report"}

\* `next` is where the turn goes on after an interruption or a flush.
NoTurn == [at |-> "none"]
Turn   == [at : Places, kind : Kinds, ch : Channels, interrupted : BOOLEAN,
           next : Places, chunk : Texts]

NoSpec == [at |-> "none", deltas |-> << >>, index |-> 0, done |-> FALSE,
           err |-> "none", notify |-> 0, cancelled |-> FALSE]

VoiceInit ==
  /\ LinkInit
  /\ config \in [abortAfterASR : BOOLEAN, parallel : BOOLEAN]
  /\ busy = FALSE
  /\ channel = NoChannel
  /\ turns = 0
  /\ turn = NoTurn
  /\ reply = << >>
  /\ player = << >>
  /\ spec = NoSpec
  /\ heard = << >>

At(p) == turn.at = p
Goto(p) == turn' = [turn EXCEPT !.at = p]
GotoThen(p, next) == turn' = [turn EXCEPT !.at = p, !.next = next]

-----------------------------------------------------------------------------
(* Turns begin: tryBeginVoiceTurn, tryBeginInjectedVoiceTurn and           *)
(* tryBeginResultReportTurn.  A text that finds the service busy is        *)
(* ignored.                                                                *)

\* A bound of the model only: a turn and its report need at most one call to
\* interrupt and one for each delta.
CallsLeft == requestSeq + 1 + 2 * MaxDeltas <= MaxCalls

Begin(place, kind, ch) ==
  /\ turns < MaxTurns /\ CallsLeft
  /\ busy' = TRUE
  /\ channel' = ch
  /\ turns' = turns + 1
  /\ turn' = [at |-> place, kind |-> kind, ch |-> ch, interrupted |-> FALSE,
              next |-> place, chunk |-> << >>]
  /\ reply' = << >>
  /\ player' = << >>
  /\ heard' = << >>
  /\ spec' = NoSpec
  /\ UNCHANGED <<linkVars, config>>

\* The final text of a speaker, handed over by the read loop of its session, or
\* a text from the dashboard.
HandleUserText(ch) ==
  /\ ~busy
  /\ ch = Debug \/ (ch \in OpenConnections /\ reader[ch] = NoAnswer)
  /\ Begin("begin", "chat", ch)

\* A report goes to the channel of the last turn, whatever became of it.
BeginReportTurn ==
  /\ ~busy
  /\ channel # NoChannel
  /\ Begin("reports", "report", channel)

-----------------------------------------------------------------------------
(* From the text to the decision. *)

\* The texts of handleDemo are answered by fixed chunks, or in one piece.
HandleDemo ==
  /\ At("begin")
  /\ \E next \in {"stream", "say"} :
       turn' = [turn EXCEPT !.at = "prepare", !.next = next, !.kind = "demo"]
  /\ UNCHANGED <<linkVars, config, busy, spec, otherVars>>

\* A speaker may hand over a blank text; SubmitRecognizedText has refused it.
BlankText ==
  /\ At("begin")
  /\ turn.ch # Debug
  /\ Goto("finish")
  /\ UNCHANGED <<linkVars, config, busy, spec, otherVars>>

\* With AbortAfterASR the native flow is interrupted before the intent is known.
NoDemo ==
  /\ At("begin")
  /\ IF config.abortAfterASR THEN GotoThen("prepare", "ahead") ELSE Goto("ahead")
  /\ UNCHANGED <<linkVars, config, busy, spec, otherVars>>

\* startSpeculativeReply, with UseParallelIntentChat.
StartSpeculativeReply ==
  /\ At("ahead")
  /\ spec' = IF config.parallel THEN [NoSpec EXCEPT !.at = "stream"] ELSE NoSpec
  /\ Goto("intent")
  /\ UNCHANGED <<linkVars, config, busy, otherVars>>

\* The decision: to chat, which is also what a failed one means, or a tool.
Decide ==
  /\ At("intent")
  /\ \/ /\ GotoThen("prepare", IF config.parallel THEN "play" ELSE "stream")
        /\ spec' = spec
     \/ /\ turn' = [turn EXCEPT !.at = "prepare", !.next = "tool", !.kind = "tool"]
        /\ spec' = [spec EXCEPT !.cancelled = TRUE]
  /\ UNCHANGED <<linkVars, config, busy, otherVars>>

\* Tools.Call fails or gives no text, or its result is to be said as it is (a
\* task was submitted, or a direct answer), or to be put into words.
CallTool ==
  /\ At("tool")
  /\ \E next \in {"finish", "say", "stream"} : Goto(next)
  /\ UNCHANGED <<linkVars, config, busy, spec, otherVars>>

-----------------------------------------------------------------------------
(* Channel.PreparePlayback: AbortXiaoAI, unless it was done before.        *)

NeedsAbort == turn.ch # Debug /\ ~turn.interrupted

PreparePlayback ==
  /\ At("prepare")
  /\ IF NeedsAbort
     THEN Call(Voice, turn.ch) /\ Goto("aborting")
     ELSE Goto(turn.next) /\ UNCHANGED linkVars
  /\ UNCHANGED <<config, busy, spec, otherVars>>

AbortReturns ==
  /\ At("aborting")
  /\ EndCall(Voice)
  /\ turn' = IF call[Voice].ok
             THEN [turn EXCEPT !.at = turn.next, !.interrupted = TRUE]
             ELSE [turn EXCEPT !.at = "finish"]
  /\ UNCHANGED <<config, busy, spec, otherVars>>

-----------------------------------------------------------------------------
(* The StreamSpeaker, called for every delta and once more at the end.     *)

\* Push, with the delta the turn has also added to replyText.
Push(d, next) ==
  /\ reply' = Append(reply, d)
  /\ player' = Append(player, d)
  /\ GotoThen("flush", next)

\* Mutant: the end of the reply is cut like any other part of it.
CutsEnds(force) == 0..Len(player)
\* nextBoundary: some place to cut at, or none (0); the end always counts when
\* the reply is over.
Cuts(force) == IF ~force THEN 0..Len(player)
               ELSE IF player = << >> THEN {0} ELSE 1..Len(player)

\* Mutant: what was said stays in the buffer.
AllOf(k) == player
RestAfter(k) == SubSeq(player, k + 1, Len(player))

\* One round of flushReady; Close forces.
FlushReady ==
  /\ At("flush")
  /\ \E k \in Cuts(turn.next = "closed") :
       IF k = 0
       THEN Goto(turn.next) /\ player' = player
       ELSE /\ turn' = [turn EXCEPT !.at = "speak", !.chunk = SubSeq(player, 1, k)]
            /\ player' = RestAfter(k)
  /\ UNCHANGED <<linkVars, config, busy, spec, channel, turns, reply, heard>>

\* SpeakText of the debug channel only logs; that of the speaker is a call.
SpeakText ==
  /\ At("speak")
  /\ IF turn.ch = Debug
     THEN Goto("flush") /\ heard' = heard \o turn.chunk /\ UNCHANGED linkVars
     ELSE Goto("speaking") /\ Call(Voice, turn.ch) /\ heard' = heard
  /\ UNCHANGED <<config, busy, spec, channel, turns, reply, player>>

SpeakReturns ==
  /\ At("speaking")
  /\ EndCall(Voice)
  /\ Goto(IF call[Voice].ok THEN "flush" ELSE "finish")
  /\ heard' = IF call[Voice].ok THEN heard \o turn.chunk ELSE heard
  /\ UNCHANGED <<config, busy, spec, channel, turns, reply, player>>

\* A text that is known as a whole is said without the StreamSpeaker.
SayWhole ==
  /\ At("say")
  /\ reply' = <<1>>
  /\ turn' = [turn EXCEPT !.at = "speak", !.next = "closed", !.chunk = <<1>>]
  /\ UNCHANGED <<linkVars, config, busy, spec, channel, turns, player, heard>>

-----------------------------------------------------------------------------
(* The reply, from a model that calls back with every delta.  The texts of *)
(* handleDemo are there and do not fail.                                   *)

NextDelta ==
  /\ At("stream")
  /\ Len(reply) < MaxDeltas
  /\ Push(Len(reply) + 1, "stream")
  /\ UNCHANGED <<linkVars, config, busy, spec, channel, turns, heard>>

StreamEnds ==
  /\ At("stream")
  /\ turn.kind = "demo" => reply # << >>
  /\ GotoThen("flush", "closed")
  /\ UNCHANGED <<linkVars, config, busy, spec, otherVars>>

StreamFails ==
  /\ At("stream")
  /\ turn.kind # "demo"
  /\ Goto("finish")
  /\ UNCHANGED <<linkVars, config, busy, spec, otherVars>>

-----------------------------------------------------------------------------
(* speculativeReply: Play reads what a goroutine of its own appends.       *)

\* The section of Play under the mutex.
Play ==
  /\ At("play")
  /\ \/ /\ spec.index < Len(spec.deltas)
        /\ Push(spec.deltas[spec.index + 1], "play")
        /\ spec' = [spec EXCEPT !.index = @ + 1]
     \/ /\ spec.index >= Len(spec.deltas)
        /\ IF ~spec.done THEN Goto("wait")
           ELSE IF spec.err = "failed" THEN Goto("finish")
           ELSE GotoThen("flush", "closed")
        /\ UNCHANGED <<reply, player, spec>>
  /\ UNCHANGED <<linkVars, config, busy, channel, turns, heard>>

\* Outside of the mutex it waits for a signal.
PlayIsNotified ==
  /\ At("wait")
  /\ spec.notify > 0
  /\ spec' = [spec EXCEPT !.notify = @ - 1]
  /\ Goto("play")
  /\ UNCHANGED <<linkVars, config, busy, otherVars>>

SpecAppend ==
  /\ spec.at = "stream"
  /\ Len(spec.deltas) < MaxDeltas
  /\ spec' = [spec EXCEPT !.deltas = Append(@, Len(@) + 1), !.at = "signal"]
  /\ UNCHANGED <<linkVars, config, busy, turnVars>>

\* Mutant: only a delta is signalled, not the end.
AfterEnd == "over"
AfterFinish == "signal"

SpecFinish ==
  /\ spec.at = "stream"
  /\ \E err \in {"none", "failed"} \cup IF spec.cancelled THEN {"canceled"} ELSE {} :
       spec' = [spec EXCEPT !.done = TRUE, !.err = err, !.at = AfterFinish]
  /\ UNCHANGED <<linkVars, config, busy, turnVars>>

\* Mutant: the signal is not dropped when one is there already.
OneMore == spec.notify + 1
Notified == 1

\* signal does not wait: the channel holds one signal at most.
SpecSignal ==
  /\ spec.at = "signal"
  /\ spec' = [spec EXCEPT !.notify = Notified,
                          !.at = IF spec.done THEN "over" ELSE "stream"]
  /\ UNCHANGED <<linkVars, config, busy, turnVars>>

-----------------------------------------------------------------------------
(* After the player has been closed. *)

\* A chat whose reply was empty is stored all the same.
IsWorthStoring == turn.kind = "chat" \/ reply # << >>

\* appendConversationTurn and mirrorReply (a demo is not mirrored); a report
\* is marked as told.
StoreReply ==
  /\ At("closed")
  /\ Goto(IF turn.kind \in {"chat", "tool"} /\ IsWorthStoring THEN "reports"
                                                           ELSE "finish")
  /\ UNCHANGED <<linkVars, config, busy, spec, otherVars>>

\* deliverTaskResultReports: without results there is nothing to say; with
\* some, their report is one more reply.  The context of the turn's own reply
\* has been cancelled by then, and nobody reads what is left of it.
DeliverReports ==
  /\ At("reports")
  /\ \/ Goto("finish") /\ UNCHANGED <<reply, heard>>
     \/ /\ turn' = [turn EXCEPT !.at = "stream", !.kind = "report"]
        /\ reply' = << >>
        /\ heard' = << >>
  /\ spec' = NoSpec
  /\ UNCHANGED <<linkVars, config, busy, channel, turns, player>>

GiveBack ==
  /\ busy' = FALSE
  /\ turn' = NoTurn
  /\ spec' = NoSpec
  /\ reply' = << >>
  /\ player' = << >>
  /\ heard' = << >>
  /\ UNCHANGED <<linkVars, config, channel, turns>>

\* The voice is given back, or kept for a report that was asked for meanwhile
\* (resultReportReady, see ResultReport).
FinishVoiceTurn ==
  /\ At("finish")
  /\ \/ GiveBack
     \/ channel # NoChannel /\ Begin("reports", "report", channel)

-----------------------------------------------------------------------------
TurnStep ==
  \/ BlankText
  \/ HandleDemo
  \/ NoDemo
  \/ StartSpeculativeReply
  \/ Decide
  \/ CallTool
  \/ PreparePlayback
  \/ AbortReturns
  \/ FlushReady
  \/ SpeakText
  \/ SpeakReturns
  \/ SayWhole
  \/ NextDelta
  \/ StreamEnds
  \/ StreamFails
  \/ Play
  \/ PlayIsNotified
  \/ StoreReply
  \/ DeliverReports
  \/ FinishVoiceTurn

SpecStep == SpecAppend \/ SpecFinish \/ SpecSignal

\* The steps of SpeakerSession that leave the turn alone.
LinkStep ==
  /\ CallStep(Voice) \/ ServerStep
  /\ UNCHANGED <<config, busy, turnVars, spec>>

VoiceNext ==
  \/ \E ch \in Channels : HandleUserText(ch)
  \/ BeginReportTurn
  \/ TurnStep
  \/ SpecStep
  \/ LinkStep

VoiceSpec == VoiceInit /\ [][VoiceNext]_voiceVars

\* Goroutines run, calls return (their timeout does it), models end (their
\* contexts do it).  Nothing makes the speaker answer or stay connected.
VoiceFairness ==
  /\ WF_voiceVars(TurnStep)
  /\ WF_voiceVars(SpecStep)
  /\ WF_voiceVars(CallStep(Voice) /\ UNCHANGED <<config, busy, turnVars, spec>>)

VoiceFairSpec == VoiceSpec /\ VoiceFairness

-----------------------------------------------------------------------------
(* Properties. *)

\* The types of the variables; ConnectionStatus counts the open connections,
\* and the service is busy as long as there is a turn.
VoiceTypeOK ==
  /\ LinkTypeOK
  /\ active = Cardinality(OpenConnections)
  /\ config \in [abortAfterASR : BOOLEAN, parallel : BOOLEAN]
  /\ busy \in BOOLEAN
  /\ busy <=> turn # NoTurn
  /\ channel \in Channels \cup {NoChannel}
  /\ turns \in 0..MaxTurns
  /\ turn \in {NoTurn} \cup Turn
  /\ {reply, player, heard, spec.deltas} \subseteq Texts
  /\ spec.at \in {"none", "stream", "signal", "over"}
  /\ spec.index \in 0..Len(spec.deltas)
  /\ spec.done \in BOOLEAN /\ spec.cancelled \in BOOLEAN
  /\ spec.err \in {"none", "failed", "canceled"}
  /\ spec.notify \in 0..1

\* Between the model and the ear nothing is lost, repeated or said out of turn:
\* what was heard, what is being said and what the player still holds are the
\* deltas of the reply, and those are the first ones of the model's.
SaidInOrder ==
  busy /\ turn.at # "finish" =>
    /\ heard \o (IF turn.at \in {"speak", "speaking"} THEN turn.chunk ELSE << >>)
         \o player = reply
    /\ reply = [i \in 1..Len(reply) |-> i]

\* A reply is stored, mirrored to the user's phone and, when it is a report,
\* marked as told only after its last delta was said and the speaker confirmed
\* all of it; one that the reply model gave ahead only when it was complete.
StoredWasHeard ==
  At("closed") => /\ heard = reply
                  /\ turn.kind = "chat" /\ config.parallel =>
                       spec.done /\ reply = spec.deltas

\* A turn ends, whatever the speaker, the models and the connection do: no
\* signal of the speculative reply is lost, and no call waits for ever.  The next
\* turn may be a report that has kept the voice.
TurnEnds ==
  \A n \in 1..MaxTurns : busy /\ turns = n ~> ~busy \/ turns # n

=============================================================================
