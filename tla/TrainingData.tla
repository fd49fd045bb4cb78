---------------------------- MODULE TrainingData ----------------------------
(***************************************************************************)
(* The fine-tuning conversations and the generator that writes them        *)
(* (finetune/dataset.py, finetune/scaffold.py, finetune/snapshot.py).      *)
(*                                                                         *)
(* A text is kept as what the later stages tell apart: the INTENT preamble *)
(* (intent and slots), the spans of its prose (titles, years, words; bold  *)
(* or not; followed by "(year" or not), the titles of its list lines and   *)
(* whether it abstains with NO_MATCH.  Wording is left out.  The generator *)
(* draws from one pseudo-random stream: Draws[seed][i][k] is the k-th draw *)
(* made for conversation i, and index 0 holds the draws of the shuffles.   *)
(***************************************************************************)
EXTENDS Integers, Sequences, FiniteSets, SequencesExt, TLC

CONSTANTS Draws,      \* the stream of the generator, per seed and conversation
          Keys        \* match_key of the titles and queries that are not their own key

BEHAVIOUR_SHARES ==
    [find_by_plot |-> 30, find_by_title |-> 15, list_versions |-> 10,
     refine |-> 25, disambiguate |-> 5, out_of_catalog |-> 15]
CODE_MIXED_LANGS == {"ta-latin", "hi-latin", "kn-latin", "te-latin", "ml-latin"}
CodeMixedShare == 45
NativeShare    == 15

(* Keys in the order of Python's sorted().                                 *)
BehaviourOrder == <<"disambiguate", "find_by_plot", "find_by_title",
                    "list_versions", "out_of_catalog", "refine">>
LangOrder == <<"en", "hi-latin", "kn-latin", "ml-latin", "native", "ta-latin", "te-latin">>

MatchKey(t) == IF t \in DOMAIN Keys THEN Keys[t] ELSE t

None == "none"
NoYear == 0

-----------------------------------------------------------------------------
(* Lists, as folds that a proof can follow: the indices up to n that are   *)
(* in a set, in order; the elements at them; several lists as one.         *)

InOrder(n, indices) ==
    FoldLeft(LAMBDA kept, i : IF i \in indices THEN Append(kept, i) ELSE kept,
             <<>>, [i \in 1..n |-> i])
Sub(s, indices) ==
    LET kept == InOrder(Len(s), indices)
    IN  [k \in DOMAIN kept |-> s[kept[k]]]
Joined(lists) == FoldLeft(LAMBDA all, list : all \o list, <<>>, lists)

-----------------------------------------------------------------------------
(* Rows of tool results and the two shapes a result has: rows and a flag   *)
(* (ambiguous or abstain).                                                 *)

Result(tool, rows, flag) == [tool |-> tool, rows |-> rows, flag |-> flag]
NoResult == Result(None, <<>>, FALSE)
ResultTitles(result) == {result.rows[i].title : i \in DOMAIN result.rows}
ResultYears(result) == {ToString(result.rows[i].year) : i \in DOMAIN result.rows}

Word(t) == [text |-> t, bold |-> FALSE, dated |-> FALSE, mark |-> 0]
Bold(t) == [Word(t) EXCEPT !.bold = TRUE]
Words(s) == [i \in DOMAIN s |-> Word(s[i])]

UserText(body) ==
    [intent |-> None, slots |-> {}, body |-> body, items |-> <<>>, nomatch |-> FALSE]
Answer(intent, slots, body, rows) ==
    [intent |-> intent, slots |-> slots, body |-> body,
     items |-> [i \in DOMAIN rows |-> rows[i].title], nomatch |-> FALSE]
NoText == UserText(<<Word(None)>>)

Turn(role, content, calls, result) ==
    [role |-> role, content |-> content, calls |-> calls, result |-> result]
Asks(body)  == Turn("user", UserText(body), <<>>, NoResult)
Says(text)  == Turn("assistant", text, <<>>, NoResult)
ToolTurns(tool, arguments, result) ==
    << Turn("assistant", NoText, <<[tool |-> tool, arguments |-> arguments]>>, NoResult),
       Turn("tool", NoText, <<>>, result) >>

(* The structural invariants every row is re-validated against when a file *)
(* is read.                                                                *)
MessageOK(turn) ==
    /\ turn.calls # <<>> => turn.role = "assistant"
    /\ (turn.result # NoResult) <=> (turn.role = "tool")
    /\ turn.content # NoText \/ turn.calls # <<>> \/ turn.result # NoResult
ConversationOK(conv) ==
    LET userTurns == SelectSeq(conv.turns, LAMBDA t : t.role = "user")
    IN  /\ userTurns # <<>>
        /\ \A i \in DOMAIN conv.turns : MessageOK(conv.turns[i])
        /\ Len(conv.intents) = Len(userTurns)
        /\ Len(conv.slots) = Len(userTurns)

-----------------------------------------------------------------------------
(* The pseudo-random helpers.                                              *)

Choice(n, s) == s[(n % Len(s)) + 1]

Swap(s, i, j) == [s EXCEPT ![i] = s[j], ![j] = s[i]]

(* Fisher-Yates from the last position down.                               *)
Shuffle(s, d) ==
    FoldLeft(LAMBDA mixed, n : Swap(mixed, n, (d[n] % n) + 1),
             s, [k \in 1..Len(s) - 1 |-> Len(s) - k + 1])

(* Largest-remainder allocation of total over shares that add up to whole. *)
Allocate(shares, whole, total, order) ==
    LET floor(k) == (shares[k] * total) \div whole
        frac(k)  == (shares[k] * total) % whole
        given    == FoldLeft(LAMBDA acc, k : acc + floor(k), 0, order)
        ahead(p) == {q \in DOMAIN order :
                        \/ frac(order[q]) > frac(order[p])
                        \/ frac(order[q]) = frac(order[p]) /\ q < p}
    IN  [p \in DOMAIN order |->
            floor(order[p]) + IF Cardinality(ahead(p)) < total - given THEN 1 ELSE 0]

(* The language shares, in five-hundredths so that the code-mixed share    *)
(* divides evenly over its five languages.                                 *)
LanguageShares ==
    [lang \in {LangOrder[i] : i \in DOMAIN LangOrder} |->
        CASE lang \in CODE_MIXED_LANGS -> CodeMixedShare
          [] lang = "native" -> 5 * NativeShare
          [] OTHER -> 5 * (100 - CodeMixedShare - NativeShare)]

Spread(order, counts) ==
    Joined([p \in DOMAIN order |-> [n \in 1..counts[p] |-> order[p]]])

-----------------------------------------------------------------------------
(* The local mirror of repository.refine_filter over recorded rows.        *)

MinOf(S) == CHOOSE y \in S : \A z \in S : y <= z

RefineLocal(rows, by) ==
    LET dated == {i \in DOMAIN rows : rows[i].year # NoYear}
        originals == {rows[i].year : i \in {j \in dated : rows[j].orig}}
        years == IF originals # {} THEN originals ELSE {rows[i].year : i \in dated}
        placed(e) == years # {} /\ e.year # NoYear
        keeps(e) == CASE by[1] = "language" -> e.language = by[2]
                      [] by[1] = "year"     -> e.year = by[2]
                      [] by[1] = "actor"    -> e.actor = by[2]
                      [] by = <<"era", "original">> -> e.orig
                      [] by = <<"era", "newer">>    -> placed(e) /\ e.year > MinOf(years)
                      [] by = <<"era", "older">>    -> placed(e) /\ e.year < MinOf(years)
    IN  SelectSeq(rows, keeps)

(* The dimensions a conversation may refine by: those that split the set.  *)
RefineDimensions(rows) ==
    LET all == DOMAIN rows
        langs  == {rows[i].language : i \in
                      {j \in all : \E k \in all : rows[k].language # rows[j].language}}
        years  == {rows[i].year : i \in
                      {j \in all : rows[j].year # NoYear
                                   /\ \E k \in all : rows[k].year # rows[j].year}}
        actors == {rows[i].actor : i \in {j \in all : rows[j].actor # None}}
        named  == IF Cardinality(actors) < 3 THEN Cardinality(actors) ELSE 3
    IN     [i \in 1..Cardinality(langs) |-> <<"language", SetToSeq(langs)[i]>>]
        \o [i \in 1..Cardinality(years) |-> <<"year", SetToSeq(years)[i]>>]
        \o [i \in 1..named |-> <<"actor", SetToSeq(actors)[i]>>]
        \o IF Len(rows) > 1 /\ \E i \in all : rows[i].orig
           THEN << <<"era", "newer">> >> ELSE <<>>
AbsentLangs == <<"bn", "ml", "kn", "te">>

-----------------------------------------------------------------------------
(* The five generators.  A work snapshot has: key, id, title, versions     *)
(* (the recorded "indian" rows), sequels (the rows with sequels, or <<>>), *)
(* queries (query -> recorded resolve_title result), excerpts.             *)

UnambiguousQueries(work) ==
    SetToSeq({q \in DOMAIN work.queries :
                 work.queries[q].rows # <<>> /\ ~work.queries[q].flag})
EntityIds(rows, id) == {id} \cup {rows[i].version : i \in DOMAIN rows}
Draft(behaviour, turns, intents, slots, entities) ==
    [behaviour |-> behaviour, turns |-> turns, intents |-> intents,
     slots |-> slots, entities |-> entities]
Conversation(draft, id, lang) ==
    [id |-> id, lang |-> lang, behaviour |-> draft.behaviour, turns |-> draft.turns,
     intents |-> draft.intents, slots |-> draft.slots, entities |-> draft.entities,
     teacher |-> None]
TitleOf(work) == work.title
VersionsAnswer(title, rows, intent, slots) == Answer(intent, slots, <<Bold(title)>>, rows)

(* An excerpt with the titles of its own film masked.                      *)
PlotDescription(n, work) ==
    LET own == {work.title} \cup {work.versions[i].title : i \in DOMAIN work.versions}
        excerpt == Choice(n, work.excerpts)
    IN  [i \in DOMAIN excerpt |-> IF excerpt[i] \in own THEN "the film" ELSE excerpt[i]]

PlotSearchResult(d, work, others) ==
    LET row(w) == [work |-> w.id, version |-> w.id, title |-> w.title,
                   language |-> w.language, year |-> w.year, actor |-> None, orig |-> FALSE]
    IN  Result("search_by_plot",
               IF others # <<>> /\ d[3] % 2 = 0
               THEN <<row(work), row(Choice(d[4], others))>> ELSE <<row(work)>>, FALSE)

ResolveTurns(query, result) == ToolTurns("resolve_title", [title |-> query], result)
(* Mutant: the argument's name of another tool.                            *)
VersionTurnsById(work) ==
    ToolTurns("get_versions", [id |-> work.id], Result("get_versions", work.versions, FALSE))
VersionTurns(work) ==
    ToolTurns("get_versions", [work_id |-> work.id], Result("get_versions", work.versions, FALSE))

GenFindByPlot(d, works, all) ==
    LET work  == Choice(d[1], works)
        desc  == PlotDescription(d[2], work)
        slots == {<<"plot_description", desc>>}
    IN  Draft("find_by_plot",
              <<Asks(Words(desc))>>
              \o ToolTurns("search_by_plot", [description |-> desc, top_k |-> 10],
                           PlotSearchResult(d, work, SelectSeq(all, LAMBDA w : w # work)))
              \o VersionTurns(work)
              \o <<Says(VersionsAnswer(work.title, work.versions, "find_by_plot", slots))>>,
              <<"find_by_plot">>, <<slots>>, EntityIds(work.versions, work.id))

GenFindByTitle(d, works, behaviour) ==
    LET work  == Choice(d[1], works)
        query == Choice(d[2], UnambiguousQueries(work))
        found == work.queries[query]
        wide  == behaviour = "list_versions" /\ work.sequels # <<>> /\ d[3] % 5 < 3
        rows  == IF wide THEN work.sequels ELSE work.versions
        args  == IF wide THEN [work_id |-> work.id, include_sequels |-> TRUE]
                         ELSE [work_id |-> work.id]
        slots == {<<"title", query>>}
    IN  Draft(behaviour,
              <<Asks(<<Word(query)>>)>> \o ResolveTurns(query, found)
              \o ToolTurns("get_versions", args, Result("get_versions", rows, FALSE))
              \o <<Says(VersionsAnswer(found.rows[1].title, rows, behaviour, slots))>>,
              <<behaviour>>, <<slots>>, EntityIds(rows, work.id))

(* One refinement of a set of versions: asked, filtered, answered.         *)
RefineTurns(rows, by) ==
    LET set   == {rows[i].version : i \in DOMAIN rows}
        kept  == RefineLocal(rows, by)
        value == IF by[1] = "year" THEN ToString(by[2]) ELSE by[2]
    IN  <<Asks(<<Word(value)>>)>>
        \o ToolTurns("refine_filter", [version_set |-> set, by |-> by],
                     Result("refine_filter", kept, FALSE))
        \o <<Says(Answer("refine", {by}, <<>>, kept))>>

(* A title turn followed by one to three refinements of the same set; the  *)
(* last one may ask for a language the set does not have.                  *)
GenRefine(d, works) ==
    LET work  == Choice(d[1], works)
        query == Choice(d[2], UnambiguousQueries(work))
        found == work.queries[query]
        rows  == work.versions
        base  == {<<"title", query>>}
        split == RefineDimensions(rows)
        dims  == IF split # <<>> THEN split ELSE << <<"language", rows[1].language>> >>
        n     == 1 + (d[3] % (IF Len(dims) < 3 THEN Len(dims) ELSE 3))
        absent == SelectSeq(AbsentLangs,
                            LAMBDA l : \A i \in DOMAIN rows : rows[i].language # l)
        by(j) == IF j = n /\ d[4] % 4 = 0 /\ absent # <<>>
                 THEN <<"language", absent[1]>> ELSE Choice(d[4 + j], dims)
    IN  Draft("refine",
              <<Asks(<<Word(query)>>)>> \o ResolveTurns(query, found) \o VersionTurns(work)
              \o <<Says(VersionsAnswer(found.rows[1].title, rows, "list_versions", base))>>
              \o Joined([j \in 1..n |-> RefineTurns(rows, by(j))]),
              <<"list_versions">> \o [j \in 1..n |-> "refine"],
              <<base>> \o [j \in 1..n |-> {by(j)}], EntityIds(rows, work.id))

(* The first candidate of every work.                                      *)
ByWork(rows) ==
    Sub(rows, {i \in DOMAIN rows : \A k \in DOMAIN rows : k < i => rows[k].work # rows[i].work})

Ambiguous(work) == SetToSeq({q \in DOMAIN work.queries : work.queries[q].flag})
AmbiguousPairs(works) ==
    Joined([i \in DOMAIN works |->
        [j \in DOMAIN Ambiguous(works[i]) |-> <<works[i], Ambiguous(works[i])[j]>>]])

(* The question names the candidates with their years; the pick is a year. *)
DisambiguateTurns(query, found, options, chosen, work) ==
    LET ask    == {<<"title", query>>}
        langs  == {options[i].language : i \in DOMAIN options}
        pick   == ask \cup {<<"year", chosen.year>>}
                  \cup IF Cardinality(langs) > 1 THEN {<<"language", chosen.language>>} ELSE {}
        option(c) == <<Bold(c.title), Word(ToString(c.year))>>
    IN  Draft("disambiguate",
              <<Asks(<<Word(query)>>)>> \o ResolveTurns(query, found)
              \o <<Says(Answer("disambiguate", ask, <<Word(query)>>
                        \o Joined([i \in DOMAIN options |-> option(options[i])]), <<>>)),
                   Asks(<<Word(ToString(chosen.year))>>)>>
              \o VersionTurns(work)
              \o <<Says(VersionsAnswer(chosen.title, work.versions, "list_versions", pick))>>,
              <<"disambiguate", "list_versions">>, <<ask, pick>>,
              EntityIds(work.versions, work.id))
GenDisambiguate(d, works) ==
    LET pair    == Choice(d[1], AmbiguousPairs(works))
        found   == pair[1].queries[pair[2]]
        options == ByWork(found.rows)
        chosen  == Choice(d[2], Sub(options, {k \in DOMAIN options :
                        \E i \in DOMAIN works : works[i].id = options[k].work}))
    IN  DisambiguateTurns(pair[2], found, options, chosen,
                          works[CHOOSE i \in DOMAIN works : works[i].id = chosen.work])

Abstention(slots) == [Answer("out_of_catalog", slots, <<>>, <<>>) EXCEPT !.nomatch = TRUE]

GenOutOfCatalog(d, decoys, titled, family) ==
    LET matching == Sub(decoys, {i \in DOMAIN decoys : decoys[i].lang = family})
        desc  == Choice(d[1], IF matching # <<>> THEN matching ELSE decoys).theme
        slots == {<<"plot_description", desc>>}
        abstain == ToolTurns("search_by_plot", [description |-> desc, top_k |-> 10],
                             Result("search_by_plot", <<>>, TRUE))
                   \o <<Says(Abstention(slots))>>
        mid   == d[2] % 3 = 0 /\ titled # <<>>
        work  == Choice(d[3], titled)
        query == Choice(d[4], UnambiguousQueries(work))
        found == work.queries[query]
        first == {<<"title", query>>}
    IN  IF mid
        THEN Draft("out_of_catalog",
                   <<Asks(<<Word(query)>>)>> \o ResolveTurns(query, found) \o VersionTurns(work)
                   \o <<Says(VersionsAnswer(found.rows[1].title, work.versions,
                                            "find_by_title", first)),
                        Asks(Words(desc))>> \o abstain,
                   <<"find_by_title", "out_of_catalog">>, <<first, slots>>,
                   EntityIds(work.versions, work.id))
        ELSE Draft("out_of_catalog", <<Asks(Words(desc))>> \o abstain,
                   <<"out_of_catalog">>, <<slots>>, {})

-----------------------------------------------------------------------------
(* The generator.  A list it draws from and finds empty makes it raise, so *)
(* nothing is written: CanGenerate.                                        *)

PlotWorks(works) ==
    Sub(works, {i \in DOMAIN works : works[i].excerpts # <<>> /\ works[i].versions # <<>>})
TitledWorks(works) ==
    Sub(works, {i \in DOMAIN works : UnambiguousQueries(works[i]) # <<>>})
RefineWorks(works) ==
    Sub(works, {i \in DOMAIN works : Len(works[i].versions) >= 3
                                     /\ UnambiguousQueries(works[i]) # <<>>})

CanGenerate(snap) ==
    /\ PlotWorks(snap.works) # <<>>
    /\ RefineWorks(snap.works) # <<>>
    /\ AmbiguousPairs(snap.works) # <<>>
    /\ snap.decoys # <<>>

(* The conversation of one behaviour in one language, from its draws.      *)
DraftOf(snap, behaviour, lang, d) ==
    LET family == IF lang # "native" THEN lang
                  ELSE IF d[8] % 5 < 2 THEN "native-ta" ELSE "native-hi"
    IN  CASE behaviour = "find_by_plot" ->
                 GenFindByPlot(d, PlotWorks(snap.works), snap.works)
          [] behaviour \in {"find_by_title", "list_versions"} ->
                 GenFindByTitle(d, TitledWorks(snap.works), behaviour)
          [] behaviour = "refine" -> GenRefine(d, RefineWorks(snap.works))
          [] behaviour = "disambiguate" -> GenDisambiguate(d, snap.works)
          [] OTHER -> GenOutOfCatalog(d, snap.decoys, TitledWorks(snap.works), family)

Generate(snap, seed, size) ==
    LET behaviours == Shuffle(Spread(BehaviourOrder,
                          Allocate(BEHAVIOUR_SHARES, 100, size, BehaviourOrder)),
                          Draws[seed][0])
        langs == Shuffle(Spread(LangOrder, Allocate(LanguageShares, 500, size, LangOrder)),
                         Draws[seed][0])
    IN  [i \in 1..size |->
            Conversation(DraftOf(snap, behaviours[i], langs[i], Draws[seed][i]),
                         <<seed, i>>, langs[i])]

(* behaviour -> language -> count.                                         *)
MixStats(rows) ==
    [b \in {rows[i].behaviour : i \in DOMAIN rows} |->
        [l \in {rows[i].lang : i \in {j \in DOMAIN rows : rows[j].behaviour = b}} |->
            Cardinality({i \in DOMAIN rows : rows[i].behaviour = b /\ rows[i].lang = l})]]
=============================================================================
