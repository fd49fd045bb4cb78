------------------------- MODULE DatasetValidation -------------------------
(***************************************************************************)
(* The validation layers a dataset passes before it is sealed              *)
(* (finetune/validate.py): tool calls and results against the frozen       *)
(* schema, grounding, the formatting contracts, entities, quotas and the   *)
(* decontamination of the user utterances.  An issue is <<row, kind>>.     *)
(***************************************************************************)
EXTENDS TrainingData, ToolSchema

CONSTANTS Protected,      \* surface name -> the protected queries, as sequences of words
          KnownEntities   \* ids of finetune/training_slice_entities.json

Intents  == DOMAIN BEHAVIOUR_SHARES
SlotKeys == {"title", "plot_description", "actor", "language", "year", "era", "relationship"}

ToolCallIssues(conv) ==
    {"tool_call" : i \in {j \in DOMAIN conv.turns :
        \E k \in DOMAIN conv.turns[j].calls : ~ValidCall(conv.turns[j].calls[k])}}

(* The tool of the last call before turn i.                                *)
Pending(conv, i) ==
    LET asked == {j \in 1..i : conv.turns[j].calls # <<>>}
        last == CHOOSE j \in asked : \A k \in asked : k <= j
    IN  IF asked = {} THEN None ELSE conv.turns[last].calls[Len(conv.turns[last].calls)].tool

ToolResultIssues(conv) ==
    {"tool_result" : i \in {j \in DOMAIN conv.turns :
        /\ conv.turns[j].role = "tool"
        /\ conv.turns[j].result.tool # Pending(conv, j)}}

-----------------------------------------------------------------------------
FinalAnswers(conv) ==
    LET isAnswer(t) == t.role = "assistant" /\ t.content # NoText /\ t.calls = <<>>
        turns == SelectSeq(conv.turns, isAnswer)
    IN  [i \in DOMAIN turns |-> turns[i].content]

ConvTitles(conv) == UNION {ResultTitles(conv.turns[i].result) : i \in DOMAIN conv.turns}

(* Bold spans, list lines, and unbolded titles before a "(year".           *)
AssertedTitles(text) ==
    {text.body[i].text : i \in {j \in DOMAIN text.body : text.body[j].bold \/ text.body[j].dated}}
    \cup {text.items[i] : i \in DOMAIN text.items}

Inventions(text, allowed) ==
    LET keys == {MatchKey(a) : a \in allowed}
    IN  {t \in AssertedTitles(text) : MatchKey(t) \notin keys}

GroundingIssues(conv) ==
    LET answers == FinalAnswers(conv)
        allowed == ConvTitles(conv)
    IN  {"invented_title" : i \in {j \in DOMAIN answers : Inventions(answers[j], allowed) # {}}}

SlotNames(text) == {s[1] : s \in text.slots}

ContractIssues(conv) ==
    LET answers == FinalAnswers(conv)
        broken(i) == \/ answers[i].intent # conv.intents[i]
                     \/ answers[i].intent \notin Intents
                     \/ ~(SlotNames(answers[i]) \subseteq SlotKeys)
    IN  IF Len(answers) # Len(conv.intents) THEN {"contract"}
        ELSE {"contract" : i \in {j \in DOMAIN answers : broken(j)}}
             \cup {"contract" : i \in {j \in DOMAIN conv.turns :
                      conv.turns[j].calls # <<>> /\ conv.turns[j].content # NoText}}

EntityIssues(conv) == IF conv.entities \subseteq KnownEntities THEN {} ELSE {"entity"}

-----------------------------------------------------------------------------
Utterances(conv) ==
    {conv.turns[i].content.body : i \in {j \in DOMAIN conv.turns : conv.turns[j].role = "user"}}

(* The utterance is as close to the query as the threshold: here, the same *)
(* words up to their match key.                                            *)
Similar(body, query) ==
    [i \in DOMAIN body |-> MatchKey(body[i].text)] = [i \in DOMAIN query |-> MatchKey(query[i])]

Contaminated(conv) ==
    \E body \in Utterances(conv), name \in DOMAIN Protected :
        \E query \in Protected[name] : Similar(body, query)

Decontamination(rows) == {rows[i].id : i \in {j \in DOMAIN rows : Contaminated(rows[j])}}

(* Behaviour shares within 3 points, 40% code-mixed, 10% native.           *)
Tolerance    == 3
CodeMixedMin == 40
NativeMin    == 10

QuotaIssues(rows) ==
    LET total == Len(rows)
        of(P(_)) == Cardinality({i \in DOMAIN rows : P(rows[i])})
        off(b) == LET gap == 100 * of(LAMBDA c : c.behaviour = b) - BEHAVIOUR_SHARES[b] * total
                  IN  gap > Tolerance * total \/ -gap > Tolerance * total
    IN  IF \/ total = 0
           \/ \E b \in Intents : off(b)
           \/ 100 * of(LAMBDA c : c.lang \in CODE_MIXED_LANGS) < CodeMixedMin * total
           \/ 100 * of(LAMBDA c : c.lang = "native") < NativeMin * total
        THEN {"quota"} ELSE {}

RowIssues(conv) ==
    ToolCallIssues(conv) \cup ToolResultIssues(conv) \cup GroundingIssues(conv)
    \cup ContractIssues(conv) \cup EntityIssues(conv)

ValidateDataset(rows) ==
    [issues |-> UNION {{<<rows[i].id, kind>> : kind \in RowIssues(rows[i])} : i \in DOMAIN rows}
                \cup {<<<<0, 0>>, kind>> : kind \in QuotaIssues(rows)},
     violations |-> Decontamination(rows)]

ReportOK(report) == report.issues = {} /\ report.violations = {}
=============================================================================
