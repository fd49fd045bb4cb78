-------------------------- MODULE DatasetContents --------------------------
(***************************************************************************)
(* What the dataset commands compute (finetune/build_dataset.py,           *)
(* finetune/render.py, finetune/ft_dryrun.py): the snapshot of the graph,  *)
(* the split of a dataset, the sample of its training part and what the    *)
(* seal demands of it.                                                     *)
(*                                                                         *)
(* Every command is a function of what it reads, so a dataset is known by  *)
(* the name [from, seed, limit, answers] of what it was made from.         *)
(* Tabulated gives each name that can occur its rows and all that the      *)
(* later commands make of them.                                            *)
(***************************************************************************)
EXTENDS TrainingRows

CONSTANTS Graphs,          \* what the gate-visible views show, in the order it changes
          Perturbations,   \* title -> its misspelled variants
          Decoys,          \* the out-of-catalog themes
          Seeds, Size,     \* the options of scaffold
          Limits,          \* the values of teach --limit tried (0: every row)
          SplitSeed, SampleSize,
          Answers,         \* what the teacher may answer: on which rows it misbehaves,
                           \* how, and how again when it is asked once more
          GoldenQuery      \* a protected query a rewrite may happen to produce

(* What the views show: lists of works, each with its versions and its     *)
(* plots; a version is one of the work it is shown under.                  *)
VersionRow ==
    [work : STRING, version : STRING, title : STRING, language : STRING, year : Nat,
     actor : STRING, orig : BOOLEAN]
CatalogWork ==
    [key : STRING, id : STRING, franchise : STRING, title : STRING, language : STRING,
     year : Nat, hidden : SUBSET STRING, versions : Seq(VersionRow),
     plots : Seq([version : STRING, text : Seq(STRING)])]
ASSUME GraphsAssumption ==
    /\ Graphs \in Seq(Seq(CatalogWork)) \ {<<>>}
    /\ \A g \in DOMAIN Graphs : \A i \in DOMAIN Graphs[g] :
          \A k \in DOMAIN Graphs[g][i].versions : Graphs[g][i].versions[k].work = Graphs[g][i].id
    /\ \A t \in DOMAIN Perturbations : IsFiniteSet(Perturbations[t])
    /\ Decoys \in Seq([theme : Seq(STRING), lang : STRING])

(* Sizes are counts, and what is drawn are natural numbers.                *)
ASSUME SizesAssumption ==
    /\ Size \in Nat \ {0} /\ Limits \subseteq Nat /\ SampleSize \in Nat
    /\ \A seed \in Seeds, i \in 1..Size, k \in 1..8 : Draws[seed][i][k] \in Nat
    /\ \A p \in DOMAIN BehaviourOrder, k \in 1..Size : Draws[SplitSeed][p][k] \in Nat
ASSUME AnswersAssumption == \A a \in Answers : a.first \in Quirks /\ a.second \in Quirks

NoSnapshot == 0
NoFile == [from |-> NoSnapshot]
Untaught == [faulty |-> {}, first |-> None, second |-> None]

-----------------------------------------------------------------------------
(* snapshot: the recorded results of every work the gate shows.            *)

Visible(work) ==
    Sub(work.versions, {i \in DOMAIN work.versions : work.versions[i].version \notin work.hidden})
Shown(works) == Sub(works, {i \in DOMAIN works : Visible(works[i]) # <<>>})

Resolve(works, query) ==
    LET all == Joined([i \in DOMAIN works |-> Visible(works[i])])
        found == Sub(all, {i \in DOMAIN all : MatchKey(all[i].title) = MatchKey(query)})
    IN  Result("resolve_title", found,
               Cardinality({found[i].work : i \in DOMAIN found}) > 1)

Franchise(works, work) ==
    Joined([i \in DOMAIN works |->
        IF works[i].franchise = work.franchise THEN Visible(works[i]) ELSE <<>>])

(* The titles of the slice, the hidden versions' too, and their variants,  *)
(* as far as they resolve.                                                 *)
Queries(works, work) ==
    LET titles == {work.title} \cup {work.versions[i].title : i \in DOMAIN work.versions}
        asked == titles \cup UNION {Perturbations[t] : t \in titles \cap DOMAIN Perturbations}
    IN  {q \in asked : Resolve(works, q).rows # <<>>}

Excerpts(work) ==
    Sub(work.plots, {i \in DOMAIN work.plots : work.plots[i].version \notin work.hidden})

WorkSnapshot(works, work) ==
    LET siblings == {i \in DOMAIN works : works[i].franchise = work.franchise}
        texts == Excerpts(work)
    IN  [key |-> work.key, id |-> work.id, title |-> work.title,
         language |-> work.language, year |-> work.year,
         versions |-> Visible(work),
         sequels |-> IF Cardinality(siblings) > 1 THEN Franchise(works, work) ELSE <<>>,
         queries |-> [q \in Queries(works, work) |-> Resolve(works, q)],
         excerpts |-> [i \in DOMAIN texts |-> texts[i].text]]

Export(works) ==
    [works |-> [i \in DOMAIN Shown(works) |-> WorkSnapshot(works, Shown(works)[i])],
     decoys |-> Decoys]

-----------------------------------------------------------------------------
(* The datasets that can be written, and their rows.                       *)

FirstOf(s, n) == SubSeq(s, 1, IF Len(s) < n THEN Len(s) ELSE n)
Stamp == "sarvam-m"

Scaffolded ==
    [from : {g \in DOMAIN Graphs : CanGenerate(Export(Graphs[g]))},
     seed : Seeds, limit : {0}, answers : {Untaught}]
TaughtFrom(d, limit, a) == [d EXCEPT !.limit = limit, !.answers = a]

TaughtNames == {TaughtFrom(d, n, a) : d \in Scaffolded, n \in Limits, a \in Answers}

ScaffoldRows(d) == Generate(Export(Graphs[d.from]), d.seed, Size)
RowsOf(rows, limit) == IF limit = 0 THEN rows ELSE FirstOf(rows, limit)
TaughtRows(t, rows) ==
    SurfacePass(RowsOf(rows, t.limit), t.answers.faulty, t.answers.first, t.answers.second,
                GoldenQuery, Stamp)

(* The surface pass starts from the scaffolds the name tells.              *)
RowsMade(d, rows) == IF d \in Scaffolded THEN rows ELSE TaughtRows(d, rows)
Rows(d) == RowsMade(d, ScaffoldRows(TaughtFrom(d, 0, Untaught)))

-----------------------------------------------------------------------------
(* seal: the stratified split, the sample of the training part, the card.  *)

NVal(n) == LET q == (5 * n) \div 100
               r == (5 * n) % 100
               rounded == IF r > 50 \/ (r = 50 /\ q % 2 = 1) THEN q + 1 ELSE q
           IN  IF rounded > 1 THEN rounded ELSE 1

OfKind(rows, b) == {i \in DOMAIN rows : rows[i].behaviour = b}

ValIndices(rows) ==
    UNION {LET of == InOrder(Len(rows), OfKind(rows, BehaviourOrder[p]))
               mixed == Shuffle(of, Draws[SplitSeed][p])
           IN  {mixed[k] : k \in 1..(IF of = <<>> THEN 0 ELSE NVal(Len(of)))}
           : p \in DOMAIN BehaviourOrder}

ValRows(rows)   == Sub(rows, ValIndices(rows))
TrainRows(rows) == Sub(rows, DOMAIN rows \ ValIndices(rows))

(* As many rows of each behaviour.                                         *)
Balanced(rows, each) ==
    FoldLeft(LAMBDA taken, b : taken \o FirstOf(Sub(rows, OfKind(rows, b)), each),
             <<>>, BehaviourOrder)
PerKind(rows) ==
    LET share == SampleSize \div Cardinality({rows[i].behaviour : i \in DOMAIN rows})
    IN  IF share > 1 THEN share ELSE 1

(* Mutant: the sample is drawn from all rows.                              *)
SampleOfAll(rows) == FirstOf(Balanced(rows, PerKind(rows)), SampleSize)
Sample(rows) == FirstOf(Balanced(TrainRows(rows), PerKind(rows)), SampleSize)

(* Mutant: the decontamination report is not looked at.                    *)
SealableUnscreened(rows) ==
    /\ ValidateDataset(rows).issues = {}
    /\ Cardinality({rows[i].teacher : i \in DOMAIN rows}) = 1

Sealable(rows) ==
    /\ ReportOK(ValidateDataset(rows))
    /\ Cardinality({rows[i].teacher : i \in DOMAIN rows}) = 1

(* The rehearsal without a GPU (finetune/ft_dryrun.py): scaffold, a mock   *)
(* teacher that puts a word in front of every text, validation, rendering. *)
DryRunOK(rows) ==
    LET taughtRows == SurfacePass(rows, DOMAIN rows, "prefix", "prefix", GoldenQuery, "mock")
    IN  /\ ReportOK(ValidateDataset(taughtRows))
        /\ MaskedRight(taughtRows, ToTrlRows(taughtRows), "assistant")

(* What the commands after scaffold and teach make of a dataset.           *)
Content(rows) ==
    [rows |-> rows, train |-> TrainRows(rows), val |-> ValRows(rows), sample |-> Sample(rows),
     trl |-> ToTrlRows(TrainRows(rows)), sealable |-> Sealable(rows)]
Tabulated ==
    [d \in Scaffolded \cup TaughtNames \cup {NoFile} |->
        IF d = NoFile
        THEN [rows |-> <<>>, train |-> <<>>, val |-> <<>>, sample |-> <<>>, trl |-> <<>>,
              sealable |-> FALSE]
        ELSE Content(Rows(d))]
=============================================================================
