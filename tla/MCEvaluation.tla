---------------------------- MODULE MCEvaluation ----------------------------
(***************************************************************************)
(* Evaluation over one fixture of each slice: a code-mixed plot query, a   *)
(* two-turn backtracking conversation and an out-of-catalog title.  The    *)
(* first carries both faults the mock seeds, each in a fixture of its own  *)
(* in the code.                                                            *)
(***************************************************************************)
EXTENDS Evaluation

MCVersions ==
    [v1 |-> [work |-> "w1", title |-> "Drishyam", language |-> "ml", original |-> TRUE],
     v2 |-> [work |-> "w1", title |-> "Papanasam", language |-> "ta", original |-> FALSE],
     v3 |-> [work |-> "w2", title |-> "Devdas", language |-> "hi", original |-> TRUE]]
MCKeyOf == [Drushyam |-> "Drishyam"]
MCRecorded == [codemixed |-> {"w1"}]

Call(tool, args) == [tool |-> tool, arguments |-> args]
Plot == {"a family and a policeman"}

MCFixtures == <<
    [id |-> "codemixed", slice |-> "code_mixed", turns |-> 1, no_match |-> FALSE,
     calls |-> <<Call("search_by_plot", [description |-> Plot]),
                 Call("get_versions", [work_id |-> WorkId])>>,
     intents |-> <<"find_by_plot">>, slots |-> <<[plot_description |-> Plot]>>,
     versions |-> <<"Papanasam", "Drishyam">>],
    [id |-> "backtrack", slice |-> "backtracking", turns |-> 2, no_match |-> FALSE,
     calls |-> <<Call("resolve_title", [title |-> {"Drushyam"}]),
                 Call("get_versions", [work_id |-> WorkId]),
                 Call("refine_filter", [version_set |-> VersionSet, by |-> {"ta"}])>>,
     intents |-> <<"find_by_title", "refine">>,
     slots |-> <<[title |-> {"Drishyam"}], [language |-> {"ta"}]>>,
     versions |-> <<"Drishyam", "Papanasam">>],
    [id |-> "nomatch", slice |-> "negative", turns |-> 1, no_match |-> TRUE,
     calls |-> <<Call("resolve_title", [title |-> {"Salaar"}])>>,
     intents |-> <<"out_of_catalog">>, slots |-> <<[title |-> {"Salaar"}]>>,
     versions |-> <<>>]>>

(* An unknown tool; two calls in the wrong order; an answer that invents,  *)
(* one without a preamble, and silence.                                    *)
MCMessages == {
    LookupMovie,
    Calls(<<Call("get_versions", [work_id |-> {"w1"}]),
            Call("resolve_title", [title |-> {"Drishyam"}])>>),
    Says([PlayedAnswer(Fixtures[2], 1) EXCEPT !.titles = {"Salaar"}]),
    Says([NoAnswer EXCEPT !.text = TRUE]),
    Says(NoAnswer)}

MCOrder == <<"dry_run", "base", "qlora">>
MCScores == {Ratio(0, 2), Ratio(2, 2)}
=============================================================================
