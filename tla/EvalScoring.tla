---------------------------- MODULE EvalScoring -----------------------------
(***************************************************************************)
(* The pure scorers of the generation evaluation: tool calls, intents,     *)
(* slots and invented titles (evals/generation.py), one fixture and a      *)
(* whole run (evals/generation_run.py), the judge's reply (evals/judge.py) *)
(* and the verdict over two runs (finetune/verdict.py).                    *)
(*                                                                         *)
(* Every argument and slot value is a set of strings: {"t1"} is the string *)
(* "t1", {"v1", "v2"} a list of version ids.  A number between 0 and 1 is a *)
(* fraction [n, d]; a missing one is NoValue.                              *)
(***************************************************************************)
EXTENDS Integers, Sequences, FiniteSets, SequencesExt

CONSTANTS KeyOf   \* spelling -> the title it is a spelling of, where they differ

None == "none"
MatchKey(title) == IF title \in DOMAIN KeyOf THEN KeyOf[title] ELSE title
MatchKeys(titles) == {MatchKey(t) : t \in titles}

-----------------------------------------------------------------------------
(* Fractions.                                                              *)

Ratio(n, d) == [n |-> n, d |-> d]
Zero == Ratio(0, 1)
One  == Ratio(1, 1)
NoValue == Ratio(0, 0)
Less(a, b) == a.n * b.d < b.n * a.d
Plus(a, b) == Ratio(a.n * b.d + b.n * a.d, a.d * b.d)
Share(n, d) == IF d = 0 THEN NoValue ELSE Ratio(n, d)
Same(a, b) == IF NoValue \in {a, b} THEN a = b ELSE a.n * b.d = b.n * a.d
Count(flags) == Cardinality({i \in DOMAIN flags : flags[i]})
Total(counts) == FoldLeft(LAMBDA a, b : a + b, 0, counts)

(* The elements that pass, in order, and sequences one after the other:    *)
(* SelectSeq and FlattenSeq, as folds that a proof can follow.             *)
Selected(s, Test(_)) ==
    FoldLeft(LAMBDA kept, x : IF Test(x) THEN Append(kept, x) ELSE kept, <<>>, s)
Joined(seqs) == FoldLeft(LAMBDA a, b : a \o b, <<>>, seqs)

(* Of the values there are.                                                *)
Mean(values) ==
    LET known == Selected(values, LAMBDA v : v # NoValue)
        sum == FoldLeft(Plus, Zero, known)
    IN  IF known = <<>> THEN NoValue ELSE Ratio(sum.n, sum.d * Len(known))

-----------------------------------------------------------------------------
(* Tool calls.  An emitted call is [tool, arguments, valid, result]; ids   *)
(* returned before it may stand for the placeholders of the expected call. *)

WorkId     == {"$work_id"}
VersionSet == {"$version_set"}

SeenBefore(emitted, j) == UNION {emitted[i].result.ids : i \in 1 .. j - 1}

ValuesMatch(key, expected, value, seen) ==
    CASE expected = WorkId     -> Cardinality(value) = 1 /\ value \subseteq seen
      [] expected = VersionSet -> value # {} /\ value \subseteq seen
      [] key = "title"         -> MatchKeys(value) = MatchKeys(expected)
      [] OTHER                 -> value = expected

CallMatchesExpected(expected, emitted, seen) ==
    /\ emitted.valid
    /\ emitted.tool = expected.tool
    /\ \A key \in DOMAIN expected.arguments :
          /\ key \in DOMAIN emitted.arguments
          /\ ValuesMatch(key, expected.arguments[key], emitted.arguments[key], seen)

Matching(expected, emitted, from) ==
    {j \in from .. Len(emitted) :
        CallMatchesExpected(expected, emitted[j], SeenBefore(emitted, j))}
Earliest(S) == CHOOSE j \in S : \A k \in S : j <= k

(* Mutant: each expected call is looked for from the beginning.            *)
MatchNextAnywhere(state, expected, emitted) ==
    LET found == Matching(expected, emitted, 1)
    IN  [cursor |-> 1, matches |-> Append(state.matches, found # {})]

(* One expected call consumes emitted calls up to its match, or all.       *)
MatchNext(state, expected, emitted) ==
    LET found == Matching(expected, emitted, state.cursor)
    IN  [cursor  |-> IF found = {} THEN Len(emitted) + 1 ELSE Earliest(found) + 1,
         matches |-> Append(state.matches, found # {})]

ScoreToolCalls(expected, emitted) ==
    LET scan == FoldLeft(LAMBDA s, e : MatchNext(s, e, emitted),
                         [cursor |-> 1, matches |-> <<>>], expected)
        invalid == Cardinality({i \in DOMAIN emitted : ~emitted[i].valid})
    IN  [call_matches    |-> scan.matches,
         call_level      |-> Ratio(Count(scan.matches), Len(scan.matches)),
         sequence_match  |-> Count(scan.matches) = Len(scan.matches),
         schema_validity |-> IF emitted = <<>> THEN One
                             ELSE Ratio(Len(emitted) - invalid, Len(emitted))]

-----------------------------------------------------------------------------
(* Intents, slots and asserted titles of the final answers.  An answer is  *)
(* [text, preamble, intent, slots, titles]: whether there is any text, and *)
(* whether its first line is a preamble that parses.                       *)

NoAnswer == [text |-> FALSE, preamble |-> FALSE, intent |-> None, slots |-> <<>>, titles |-> {}]
AnswerOf(answers, i) == IF i \in DOMAIN answers THEN answers[i] ELSE NoAnswer

ScoreIntents(expected, answers) ==
    [i \in DOMAIN expected |->
        AnswerOf(answers, i).preamble /\ AnswerOf(answers, i).intent = expected[i]]

SlotHit(key, expected, predicted) ==
    /\ key \in DOMAIN expected \cap DOMAIN predicted
    /\ ValuesMatch(key, expected[key], predicted[key], {})

ScoreSlots(expected, predicted) ==
    LET hits == {key \in DOMAIN expected : SlotHit(key, expected, predicted)}
    IN  [tp |-> Cardinality(hits),
         fp |-> Cardinality(DOMAIN predicted \ hits),
         fn |-> Cardinality(DOMAIN expected \ hits)]

AddCounts(a, b) == [tp |-> a.tp + b.tp, fp |-> a.fp + b.fp, fn |-> a.fn + b.fn]
NoCounts == [tp |-> 0, fp |-> 0, fn |-> 0]

ScoreSlotsPerTurn(expected, answers) ==
    FoldLeft(AddCounts, NoCounts,
        [i \in DOMAIN expected |->
            LET answer == AnswerOf(answers, i)
            IN  ScoreSlots(expected[i], IF answer.preamble THEN answer.slots ELSE <<>>)])

MicroF1(c) ==
    LET d == 2 * c.tp + c.fp + c.fn IN IF d = 0 THEN One ELSE Ratio(2 * c.tp, d)

CollectResultTitles(calls) == UNION {calls[i].result.titles : i \in DOMAIN calls}

Inventions(answer, allowed) ==
    {t \in answer.titles : MatchKey(t) \notin MatchKeys(allowed)}

-----------------------------------------------------------------------------
(* One fixture, and the metrics of a run.                                  *)

(* A fixture that expects no calls is not scored on them.                  *)
NotScored == [call_matches |-> <<>>, call_level |-> NoValue, sequence_match |-> FALSE,
              schema_validity |-> NoValue]

ScoreFixture(fixture, transcript) ==
    LET allowed == CollectResultTitles(transcript.calls)
        answers == transcript.answers
    IN  [fixture_id |-> fixture.id, slice |-> fixture.slice, transcript |-> transcript,
         tool_calls |-> IF fixture.calls = <<>> THEN NotScored
                        ELSE ScoreToolCalls(fixture.calls, transcript.calls),
         intent_matches |-> ScoreIntents(fixture.intents, answers),
         slot_counts |-> ScoreSlotsPerTurn(fixture.slots, answers),
         asserted |-> [i \in DOMAIN answers |-> Cardinality(answers[i].titles)],
         inventions |-> [i \in DOMAIN answers |-> Cardinality(Inventions(answers[i], allowed))],
         judge_coherence |-> NoValue, judge_error |-> FALSE]

Completed(result) ==
    /\ result.transcript.chat_status = "up"
    /\ \A i \in DOMAIN result.transcript.answers : result.transcript.answers[i].text

InSlice(results, slice) == Selected(results, LAMBDA r : r.slice = slice)
IntentAccuracy(results) ==
    LET flags == Joined([i \in DOMAIN results |-> results[i].intent_matches])
    IN  Share(Count(flags), Len(flags))
Invented(results) == Total([i \in DOMAIN results |-> Total(results[i].inventions)])
SlotF1(results) ==
    IF results = <<>> THEN NoValue
    ELSE MicroF1(FoldLeft(AddCounts, NoCounts, [i \in DOMAIN results |-> results[i].slot_counts]))
Coherence(results) == Mean([i \in DOMAIN results |-> results[i].judge_coherence])
MeanOf(Value(_), results) ==
    Mean([i \in DOMAIN results |-> IF results[i].tool_calls = NotScored THEN NoValue
                                   ELSE Value(results[i].tool_calls)])

AggregateMetrics(results) ==
    LET asserted == Total([i \in DOMAIN results |-> Total(results[i].asserted)])
    IN  [fixtures_completed |-> Cardinality({i \in DOMAIN results : Completed(results[i])}),
         tool_call_sequence_accuracy |->
             MeanOf(LAMBDA s : IF s.sequence_match THEN One ELSE Zero, results),
         tool_call_call_level |-> MeanOf(LAMBDA s : s.call_level, results),
         schema_validity |-> MeanOf(LAMBDA s : s.schema_validity, results),
         intent_accuracy |-> IntentAccuracy(results),
         code_mixed_intent_accuracy |-> IntentAccuracy(InSlice(results, "code_mixed")),
         slot_micro_f1 |-> SlotF1(results),
         titles_asserted |-> asserted,
         inventions |-> Invented(results),
         hallucinated_movie_rate |-> IF asserted = 0 THEN Zero
                                     ELSE Ratio(Invented(results), asserted),
         gs02_inventions |-> Invented(InSlice(results, "negative")),
         backtracking_coherence |-> Coherence(results)]

-----------------------------------------------------------------------------
(* The judge: asked with guided decoding, once more without it when the    *)
(* endpoint reports an error.  Replies: a score, or text without one.      *)

Unusable == NoValue
JudgeError == [score |-> NoValue, error |-> TRUE]
ParseVerdict(text) == IF text = Unusable THEN JudgeError ELSE [score |-> text, error |-> FALSE]
Judge(guided, plain, text) ==
    LET status == IF guided = "error" THEN plain ELSE guided
    IN  IF status = "up" THEN ParseVerdict(text) ELSE JudgeError

(* An error is noted and leaves the score as it was; a score leaves the    *)
(* error as it was.                                                        *)
ApplyVerdict(result, verdict) ==
    IF result.slice # "backtracking" THEN result
    ELSE IF verdict.error THEN [result EXCEPT !.judge_error = TRUE]
    ELSE [result EXCEPT !.judge_coherence = verdict.score]
ApplyJudgeScores(results, verdicts) ==
    [i \in DOMAIN results |-> ApplyVerdict(results[i], verdicts[i])]

-----------------------------------------------------------------------------
(* The keep-or-cut rule over the columns of two runs.                      *)

ExtractColumn(artifact) ==
    LET code_mixed == InSlice(artifact.fixtures, "code_mixed")
    IN  [gs07_intent_accuracy |-> IntentAccuracy(code_mixed),
         gs07_slot_f1 |-> SlotF1(code_mixed),
         gs08_coherence |-> Coherence(artifact.fixtures),
         gs02_inventions |-> artifact.metrics.gs02_inventions,
         schema_validity |-> artifact.metrics.schema_validity,
         tool_call_sequence_accuracy |-> artifact.metrics.tool_call_sequence_accuracy]

PrimaryMetrics == {"gs07_intent_accuracy", "gs07_slot_f1", "gs08_coherence"}
Guards == {"schema_validity", "tool_call_sequence_accuracy"}

Missing(base, qlora)  == {m \in PrimaryMetrics : NoValue \in {base[m], qlora[m]}}
Improved(base, qlora) == {m \in PrimaryMetrics \ Missing(base, qlora) : Less(base[m], qlora[m])}
Regressed(base, qlora) == {m \in PrimaryMetrics \ Missing(base, qlora) : Less(qlora[m], base[m])}
(* At least 0.05.                                                          *)
MarginMet(base, qlora) ==
    \E m \in Improved(base, qlora) :
        20 * (qlora[m].n * base[m].d - base[m].n * qlora[m].d) >= qlora[m].d * base[m].d
GuardFailures(base, qlora) ==
    {m \in Guards : qlora[m] = NoValue \/ (base[m] # NoValue /\ Less(qlora[m], base[m]))}
    \cup (IF base.gs02_inventions + qlora.gs02_inventions > 0 THEN {"gs02_inventions"} ELSE {})

(* Mutant: one better metric is enough.                                    *)
KeepOnOne(base, qlora) ==
    /\ Missing(base, qlora) = {}
    /\ Improved(base, qlora) # {}
    /\ MarginMet(base, qlora)
    /\ Regressed(base, qlora) = {}
    /\ GuardFailures(base, qlora) = {}

Keep(base, qlora) ==
    /\ Missing(base, qlora) = {}
    /\ Cardinality(Improved(base, qlora)) >= 2
    /\ MarginMet(base, qlora)
    /\ Regressed(base, qlora) = {}
    /\ GuardFailures(base, qlora) = {}
=============================================================================
