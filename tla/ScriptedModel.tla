--------------------------- MODULE ScriptedModel ----------------------------
(***************************************************************************)
(* The tools of the evaluation (evals/driver.py, build_executor) and the   *)
(* mock endpoint that plays a well-behaved assistant from the golden       *)
(* labels (evals/mock_llm.py).                                             *)
(*                                                                         *)
(* A fixture is [id, slice, turns, calls, intents, slots, versions,        *)
(* no_match]: the number of user turns, the expected calls over the whole  *)
(* conversation, the labels per turn, the expected titles in order.        *)
(***************************************************************************)
EXTENDS EvalScoring, ToolSchema

CONSTANTS Versions,          \* version id -> [work, title, language, original]
          Recorded,          \* fixture id -> the works the pinned retrieval run found
          SeededTool,        \* the fixture whose first call is of an unknown tool
          SeededInvention,   \* the fixture whose answer invents a film
          Invention          \* that film

-----------------------------------------------------------------------------
(* Results: ids and titles they show, candidate works, and the version set *)
(* get_versions returns, its original with it.                             *)

ResultOf(works, versions) ==
    [ok |-> TRUE, works |-> works, versions |-> versions,
     ids |-> ToSet(works) \cup versions,
     titles |-> {Versions[v].title : v \in versions}]
Error == [ok |-> FALSE, works |-> <<>>, versions |-> {}, ids |-> {}, titles |-> {}]

WorkIds == {Versions[v].work : v \in DOMAIN Versions}
OfWork(w) == {v \in DOMAIN Versions : Versions[v].work = w}
Titled(titles) == {v \in DOMAIN Versions : MatchKey(Versions[v].title) \in MatchKeys(titles)}
Satisfies(v, by) == Versions[v].language \in by \/ ("original" \in by /\ Versions[v].original)
IsUuid(ids) == ids \subseteq WorkIds \cup DOMAIN Versions

(* Candidates and plot results name works, with the titles they matched;   *)
(* they show no version ids.                                               *)
Candidates(found) ==
    LET result == ResultOf(SetToSeq({Versions[v].work : v \in found}), found)
    IN  [result EXCEPT !.versions = {}, !.ids = ToSet(result.works)]

RecordedPlotSearch(fixture) ==
    IF fixture.id \in DOMAIN Recorded
    THEN Candidates({v \in DOMAIN Versions :
                         Versions[v].work \in Recorded[fixture.id] /\ Versions[v].original})
    ELSE Candidates({})

Execute(fixture, tool, args) ==
    CASE tool = "resolve_title"  -> Candidates(Titled(args.title))
      [] tool = "search_by_plot" -> RecordedPlotSearch(fixture)
      [] tool = "get_work"       ->
            IF args.work_id \subseteq WorkIds
            THEN [Candidates({v \in DOMAIN Versions :
                        {Versions[v].work} = args.work_id /\ Versions[v].original})
                     EXCEPT !.works = <<>>]
            ELSE Error
      [] tool = "get_versions"   ->
            IF IsUuid(args.work_id)
            THEN ResultOf(<<>>, UNION {OfWork(w) : w \in args.work_id}) ELSE Error
      [] tool = "refine_filter"  ->
            IF IsUuid(args.version_set)
            THEN ResultOf(<<>>, {v \in args.version_set \cap DOMAIN Versions :
                                     Satisfies(v, args.by)})
            ELSE Error

-----------------------------------------------------------------------------
(* Messages of a conversation, the system message left out.                *)

User(turn) == [role |-> "user", turn |-> turn]
Calls(calls) == [role |-> "assistant", calls |-> calls, answer |-> NoAnswer]
Says(answer) == [role |-> "assistant", calls |-> <<>>, answer |-> answer]
ToolSays(tool, result) == [role |-> "tool", tool |-> tool, result |-> result]

OfRole(messages, role) == Selected(messages, LAMBDA m : m.role = role)
LastUser(messages) ==
    CHOOSE i \in DOMAIN messages :
        /\ messages[i].role = "user"
        /\ \A j \in i + 1 .. Len(messages) : messages[j].role # "user"
SinceLastUser(messages) == SubSeq(messages, LastUser(messages) + 1, Len(messages))

-----------------------------------------------------------------------------
(* The play.                                                               *)

(* The last calls go one to each later turn, the others to the first.      *)
AllocateCalls(fixture, turn) ==
    LET n == Len(fixture.calls)
        head == n - (fixture.turns - 1)
    IN  IF fixture.turns = 1 \/ n < fixture.turns
        THEN IF turn = 1 THEN fixture.calls ELSE <<>>
        ELSE IF turn = 1 THEN SubSeq(fixture.calls, 1, head)
        ELSE <<fixture.calls[head + turn - 1]>>

FirstWorkId(messages) ==
    LET with == SelectSeq(OfRole(messages, "tool"), LAMBDA m : m.result.works # <<>>)
    IN  IF with = <<>> THEN "unresolved" ELSE Head(with).result.works[1]

LatestVersionSet(messages) ==
    LET with == SelectSeq(OfRole(messages, "tool"),
                          LAMBDA m : m.tool = "get_versions" /\ m.result.ok)
    IN  IF with = <<>> THEN {} ELSE with[Len(with)].result.versions

Bind(call, messages) ==
    [tool |-> call.tool,
     arguments |-> [key \in DOMAIN call.arguments |->
        CASE call.arguments[key] = WorkId     -> {FirstWorkId(messages)}
          [] call.arguments[key] = VersionSet -> LatestVersionSet(messages)
          [] OTHER                            -> call.arguments[key]]]

(* One version to each turn that is not an abstention, in order; all of    *)
(* them when there is one turn.                                            *)
AnswerVersions(fixture, turn) ==
    LET answered == {k \in 1 .. turn : fixture.intents[k] # "out_of_catalog"}
        place == Cardinality(answered)
    IN  IF fixture.turns = 1 THEN ToSet(fixture.versions)
        ELSE IF turn \in answered /\ place \in DOMAIN fixture.versions
        THEN {fixture.versions[place]} ELSE {}

PlayedAnswer(fixture, turn) ==
    LET abstains == fixture.no_match \/ fixture.intents[turn] = "out_of_catalog"
    IN  [text |-> TRUE, preamble |-> TRUE,
         intent |-> fixture.intents[turn], slots |-> fixture.slots[turn],
         titles |-> IF abstains THEN {} ELSE AnswerVersions(fixture, turn)]

LookupMovie == Calls(<<[tool |-> "lookup_movie", arguments |-> [name |-> {"query"}]]>>)

(* The next message when `done' of the turn's calls have been answered.    *)
Play(fixture, messages, done) ==
    LET turn == Len(OfRole(messages, "user"))
        plan == AllocateCalls(fixture, turn)
    IN  IF done < Len(plan) THEN Calls(<<Bind(plan[done + 1], messages)>>)
        ELSE Says(PlayedAnswer(fixture, turn))

ResultsThisTurn(messages) == Len(OfRole(SinceLastUser(messages), "tool"))
NextAction(fixture, messages) == Play(fixture, messages, ResultsThisTurn(messages))

(* The dry run is seeded with two faults; the answer to the unknown call   *)
(* does not count as one of the turn's.                                    *)
SeededAction(fixture, messages) ==
    LET seeded == fixture.id = SeededTool /\ Len(OfRole(messages, "user")) = 1
        done == ResultsThisTurn(messages) - (IF seeded THEN 1 ELSE 0)
        next == Play(fixture, messages, done)
    IN  IF done < 0 THEN LookupMovie
        ELSE IF fixture.id = SeededInvention /\ next.calls = <<>>
        THEN [next EXCEPT !.answer.titles = @ \cup {Invention}]
        ELSE next
=============================================================================
