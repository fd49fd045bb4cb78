----------------------------- MODULE Evaluation -----------------------------
(***************************************************************************)
(* The generation evaluation: the driver runs every golden fixture as a    *)
(* conversation (evals/driver.py), the results are scored and written as   *)
(* the artifact of a column (evals/run_generation_eval.py), the judge goes *)
(* over recorded artifacts (evals/rejudge_run.py), and two artifacts give  *)
(* the verdict (finetune/ft_verdict.py).                                   *)
(*                                                                         *)
(* The model of a live column plays the labels but may, Slips times in     *)
(* all, say something else from Messages, or its endpoint may fail; in the *)
(* dry run the mock plays them with its two seeded faults.                 *)
(***************************************************************************)
EXTENDS ScriptedModel

CONSTANTS Fixtures,        \* the golden fixtures, in order
          Order,           \* the columns, in the order they are captured
          Messages,        \* what a model may say out of turn
          MaxToolRounds,
          Scores,          \* what the judge may give
          Slips,           \* bound: how often models and endpoints misbehave
          Judgings         \* bound: the judge passes over recorded artifacts

(* A fixture has labels for each of its turns; a message of the model is   *)
(* one with calls or one with an answer.                                   *)
IsSeq(s) == s \in Seq(ToSet(s))
FixtureOK(f) ==
    /\ f.turns \in Nat \ {0}
    /\ IsSeq(f.calls) /\ IsSeq(f.intents) /\ IsSeq(f.slots) /\ Len(f.slots) = f.turns
    /\ \A k \in 1 .. f.turns : IsFiniteSet(DOMAIN f.slots[k])
CallOK(call) == call = [tool |-> call.tool, arguments |-> call.arguments]
MessageOK(m) ==
    /\ m = [role |-> "assistant", calls |-> m.calls, answer |-> m.answer]
    /\ IsSeq(m.calls) /\ \A i \in DOMAIN m.calls : CallOK(m.calls[i])
    /\ m.calls # <<>> => m.answer = NoAnswer
    /\ IsFiniteSet(DOMAIN m.answer.slots)
ASSUME EvaluationAssumption ==
    /\ IsSeq(Fixtures) /\ Fixtures # <<>>
    /\ \A k \in DOMAIN Fixtures : FixtureOK(Fixtures[k])
    /\ \A m \in Messages : MessageOK(m)

VARIABLES artifacts,   \* column -> what was written for it
          column,      \* the column the evaluation in progress captures
          results,     \* its fixtures so far
          fixture, turn, round,               \* the driver's loops
          pc,                                 \* "idle", "chat", "tools" or "scored"
          messages, calls, answers,           \* the transcript of the fixture
          left, judgings                      \* what is left of the bounds
loops == <<fixture, turn, round>>
transcript == <<messages, calls, answers>>
vars == <<artifacts, column, results, loops, pc, transcript, left, judgings>>

Columns == ToSet(Order)
Live == Columns \ {"dry_run"}
NotRun == [fixtures |-> <<>>]

Init ==
    /\ artifacts = [c \in Columns |-> NotRun]
    /\ column = None /\ results = <<>>
    /\ fixture = 1 /\ turn = 1 /\ round = 0
    /\ pc = "idle"
    /\ messages = <<>> /\ calls = <<>> /\ answers = <<>>
    /\ left = Slips /\ judgings = Judgings

Driven == Fixtures[fixture]

StartRun(i) ==
    /\ pc = "idle"
    /\ artifacts[Order[i]] = NotRun
    /\ \A j \in 1 .. i - 1 : artifacts[Order[j]] # NotRun
    /\ column' = Order[i]
    /\ pc' = "chat"
    /\ fixture' = 1
    /\ messages' = <<User(1)>>
    /\ UNCHANGED <<artifacts, results, turn, round, calls, answers, left, judgings>>

-----------------------------------------------------------------------------
(* The end of a fixture and of a turn; msgs are the messages by then.      *)

EndFixture(status, msgs, said) ==
    /\ results' = Append(results, ScoreFixture(Driven,
           [chat_status |-> status, messages |-> msgs, calls |-> calls, answers |-> said]))
    /\ turn' = 1 /\ round' = 0
    /\ calls' = <<>> /\ answers' = <<>>
    /\ IF fixture = Len(Fixtures)
       THEN pc' = "scored" /\ fixture' = 1 /\ messages' = <<>>
       ELSE pc' = "chat" /\ fixture' = fixture + 1 /\ messages' = <<User(1)>>

EndTurn(answer, msgs) ==
    IF turn = Driven.turns
    THEN EndFixture("up", msgs, Append(answers, answer))
    ELSE /\ turn' = turn + 1 /\ round' = 0
         /\ pc' = "chat"
         /\ answers' = Append(answers, answer)
         /\ messages' = Append(msgs, User(turn + 1))
         /\ UNCHANGED <<results, fixture, calls>>

(* A message with calls opens them; any other, also an empty one, is the   *)
(* answer of the turn.                                                     *)
Receive(m) ==
    /\ pc = "chat"
    /\ IF m.calls = <<>>
       THEN EndTurn(m.answer, Append(messages, m))
       ELSE /\ pc' = "tools"
            /\ messages' = Append(messages, m)
            /\ UNCHANGED <<results, loops, calls, answers>>
    /\ UNCHANGED <<artifacts, column, judgings>>

ModelPlays ==
    /\ Receive(IF column = "dry_run" THEN SeededAction(Driven, messages)
               ELSE NextAction(Driven, messages))
    /\ UNCHANGED left

ModelSlips(m) ==
    /\ column \in Live
    /\ left > 0 /\ left' = left - 1
    /\ Receive(m)

(* Mutant: the aborted turn is left without an answer.                     *)
AbortUnanswered == EndFixture("error", messages, answers)

Abort == EndFixture("error", messages, Append(answers, NoAnswer))

(* The first chat() that is not up, "error" or "off" alike, ends the       *)
(* fixture; the next one is tried.                                         *)
EndpointFails ==
    /\ pc = "chat"
    /\ column \in Live
    /\ left > 0 /\ left' = left - 1
    /\ Abort
    /\ UNCHANGED <<artifacts, column, judgings>>

-----------------------------------------------------------------------------
(* The calls of the last assistant message, one after the other.           *)

LastAssistant ==
    CHOOSE i \in DOMAIN messages :
        /\ messages[i].role = "assistant"
        /\ \A j \in i + 1 .. Len(messages) : messages[j].role = "tool"
Asked == messages[LastAssistant].calls
Answered == Len(messages) - LastAssistant

EmittedCallRecord(call, result) ==
    [turn |-> turn, tool |-> call.tool, arguments |-> call.arguments,
     valid |-> ValidCall(call), result |-> result]

(* A call that is not valid, or whose tool reports an error, is answered   *)
(* with the error and the loop goes on.                                    *)
HandleCall ==
    /\ pc = "tools"
    /\ Answered < Len(Asked)
    /\ LET call == Asked[Answered + 1]
           result == IF ValidCall(call) THEN Execute(Driven, call.tool, call.arguments) ELSE Error
       IN  /\ calls' = Append(calls, EmittedCallRecord(call, result))
           /\ messages' = Append(messages, ToolSays(call.tool, result))
    /\ UNCHANGED <<artifacts, column, results, loops, pc, answers, left, judgings>>

RoundsLeft == round + 1 < MaxToolRounds

NextRound ==
    /\ pc = "tools"
    /\ Answered = Len(Asked)
    /\ RoundsLeft
    /\ round' = round + 1
    /\ pc' = "chat"
    /\ UNCHANGED <<artifacts, column, results, fixture, turn, transcript, left, judgings>>

(* The turn ends without an answer; the next one follows all the same.     *)
RoundsExhausted ==
    /\ pc = "tools"
    /\ Answered = Len(Asked)
    /\ ~RoundsLeft
    /\ EndTurn(NoAnswer, messages)
    /\ UNCHANGED <<artifacts, column, left, judgings>>

-----------------------------------------------------------------------------
(* The artifact is written whatever the exit code is going to be.          *)

Judged == {i \in DOMAIN Fixtures : Fixtures[i].slice = "backtracking"}
Verdicts == {Judge(guided, plain, text) : guided \in {"up", "off", "error"},
                 plain \in {"up", "off", "error"}, text \in Scores \cup {Unusable}}

ExitCode(mode, metrics) ==
    IF mode = "live" /\ metrics.fixtures_completed = 0 THEN 4
    ELSE IF metrics.gs02_inventions # 0 THEN 3 ELSE 0

(* Of a stored transcript only the status and the presence of answers are  *)
(* kept here: nothing that reads an artifact looks further.                *)
Stored(result) ==
    LET t == result.transcript
    IN  [result EXCEPT !.transcript =
            [chat_status |-> t.chat_status,
             answers |-> [i \in DOMAIN t.answers |-> [text |-> t.answers[i].text]]]]

Artifact(mode, fixtures) ==
    LET metrics == AggregateMetrics(fixtures)
    IN  [fixtures |-> [k \in DOMAIN fixtures |-> Stored(fixtures[k])],
         judged |-> FALSE, metrics |-> metrics, exit |-> ExitCode(mode, metrics)]

WriteRun ==
    /\ pc = "scored"
    /\ LET mode == IF column \in Live THEN "live" ELSE "dry_run"
       IN  artifacts' = [artifacts EXCEPT ![column] = Artifact(mode, results)]
    /\ pc' = "idle" /\ column' = None /\ results' = <<>>
    /\ UNCHANGED <<loops, transcript, left, judgings>>

Rejudged(artifact, verdicts) ==
    LET fixtures == ApplyJudgeScores(artifact.fixtures, verdicts)
    IN  [artifact EXCEPT !.fixtures = fixtures, !.judged = TRUE,
                         !.metrics = AggregateMetrics(fixtures)]

(* The judge's pass follows the last capture (infra/gpu/jarvis.py).        *)
Rejudge(c, verdicts) ==
    /\ pc = "idle"
    /\ \A d \in Columns : artifacts[d] # NotRun
    /\ judgings > 0 /\ judgings' = judgings - 1
    /\ artifacts' = [artifacts EXCEPT ![c] = Rejudged(artifacts[c], verdicts)]
    /\ UNCHANGED <<column, results, loops, pc, transcript, left>>

Next ==
    \/ \E i \in DOMAIN Order : StartRun(i)
    \/ ModelPlays
    \/ \E m \in Messages : ModelSlips(m)
    \/ EndpointFails
    \/ HandleCall
    \/ NextRound
    \/ RoundsExhausted
    \/ WriteRun
    \/ \E c \in Live : \E verdicts \in [Judged -> Verdicts] : Rejudge(c, verdicts)

Spec == Init /\ [][Next]_vars

-----------------------------------------------------------------------------
(* What scorers, judge and auditor read off a transcript is what was said: *)
(* who reads the messages in order finds one answer to each user message,  *)
(* the prose after it, if any, that asks for no tool; and the calls the    *)
(* model made, in order, each answered once with what the tool returned,   *)
(* before the model speaks again.                                          *)
NothingRead == [answers |-> <<>>, made |-> <<>>, told |-> <<>>]
ReadMessage(read, m) ==
    CASE m.role = "user"      -> [read EXCEPT !.answers = Append(@, NoAnswer)]
      [] m.role = "tool"      -> [read EXCEPT !.told = Append(@, m)]
      [] m.role = "assistant" -> [read EXCEPT !.made = @ \o m.calls,
                                              !.answers = [@ EXCEPT ![Len(@)] = m.answer]]
ReadOff(msgs) == FoldLeft(ReadMessage, NothingRead, msgs)
TranscriptOK(t) ==
    LET read == ReadOff(t.messages)
    IN  /\ t.answers = read.answers
        /\ read.told = [k \in DOMAIN t.calls |-> ToolSays(t.calls[k].tool, t.calls[k].result)]
        /\ \A k \in DOMAIN t.calls :
               read.made[k] = [tool |-> t.calls[k].tool, arguments |-> t.calls[k].arguments]
        /\ t.chat_status = "up" => Len(read.made) = Len(read.told)
TranscriptFaithful ==
    /\ \A k \in DOMAIN results : TranscriptOK(results[k].transcript)
    /\ pc = "chat" => LET read == ReadOff(messages) IN Len(read.made) = Len(read.told)

(* A sequence match is what DEC-P3-5 calls one: the expected calls appear  *)
(* in this order among the emitted ones, placeholders bound to ids that    *)
(* earlier results returned; and the metrics and the verdict's column of   *)
(* an artifact are those of the fixtures stored in it.                     *)
Appear(expected, emitted) ==
    \E f \in [DOMAIN expected -> DOMAIN emitted] :
        /\ \A i, j \in DOMAIN expected : i < j => f[i] < f[j]
        /\ \A i \in DOMAIN expected :
               CallMatchesExpected(expected[i], emitted[f[i]], SeenBefore(emitted, f[i]))
RecordedScoresExact ==
    /\ \A k \in DOMAIN results : Fixtures[k].calls # <<>> =>
           results[k].tool_calls.sequence_match
               = Appear(Fixtures[k].calls, results[k].transcript.calls)
    /\ \A c \in Columns : artifacts[c] # NotRun =>
           LET a == artifacts[c]
               read == ExtractColumn(a)
           IN  /\ a.metrics = AggregateMetrics(a.fixtures)
               /\ Same(read.gs08_coherence, a.metrics.backtracking_coherence)
               /\ Same(read.gs07_intent_accuracy, a.metrics.code_mixed_intent_accuracy)

(* The judge's noise alone never keeps an adapter (clause (ii) of the      *)
(* frozen rule, "judge/small-n noise alone can never trigger a keep"): if  *)
(* it does as the base model does on the code-mixed slice, it is cut.      *)
SameCodeMixed(a, b) ==
    LET scored(x) == [k \in DOMAIN InSlice(x.fixtures, "code_mixed") |->
                         <<InSlice(x.fixtures, "code_mixed")[k].intent_matches,
                           InSlice(x.fixtures, "code_mixed")[k].slot_counts>>]
    IN  scored(a) = scored(b)
NoiseNeverKeeps ==
    \A base, qlora \in Live :
        /\ artifacts[base] # NotRun /\ artifacts[qlora] # NotRun
        /\ SameCodeMixed(artifacts[base], artifacts[qlora])
        => ~Keep(ExtractColumn(artifacts[base]), ExtractColumn(artifacts[qlora]))
=============================================================================
