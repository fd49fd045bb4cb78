---------------------------- MODULE DatasetBuild ----------------------------
(***************************************************************************)
(* The commands that build the fine-tuning dataset                         *)
(* (finetune/build_dataset.py, finetune/render.py) and the files they pass *)
(* to one another:                                                         *)
(*                                                                         *)
(*   graph -snapshot-> snapshot -scaffold-> scaffolds -teach-> taught      *)
(*   scaffolds or taught -seal-> full, train, val, sample, card            *)
(*   sealed -push-> hub          sealed -export-trl-> trl                  *)
(*                                                                         *)
(* The surface pass holds what it read in memory for hours and writes      *)
(* nothing before its end; the other commands may run meanwhile.  The seal *)
(* writes five files one after the other and may be interrupted.           *)
(*                                                                         *)
(* A file is kept as the name of the dataset in it, and a snapshot as the  *)
(* graph it shows; what a name stands for is looked up in Datasets.        *)
(***************************************************************************)
EXTENDS DatasetContents

CONSTANTS Datasets,   \* name -> contents: Tabulated
          Commands    \* bound: the commands run

ASSUME DatasetsAssumption == Datasets = Tabulated

VARIABLES graph,      \* the index in Graphs of what the views show now
          snapshot, scaffolds, taught,
          pass,       \* the rows the surface pass in progress has read
          sealing,    \* the seal in progress: the file it writes next and its rows
          sealed,     \* the five sealed files
          torn,       \* a seal was interrupted and none has completed since
          hub,        \* the private dataset repository
          trl,        \* the exported training rows
          trained,    \* the rows and the chat template a model was trained with
          left        \* the commands left to run (bound)
buildVars == <<graph, snapshot, scaffolds, taught, pass, sealing, sealed, torn, hub, trl, trained, left>>

Idle == NoFile

(* What the seal writes: the card names the snapshot file of the moment,   *)
(* not the one the dataset came from.                                      *)
Files == <<"full", "train", "val", "sample", "card">>
Card(d) ==
    LET data == Datasets[d]
    IN  [rows |-> d, counts |-> MixStats(data.rows), graph_snapshot |-> snapshot,
         teacher |-> data.rows[1].teacher, seed |-> data.rows[1].id[1],
         train |-> Len(data.train), val |-> Len(data.val)]
Written(file, d) == IF file = "card" THEN Card(d) ELSE d

-----------------------------------------------------------------------------
BuildInit ==
    /\ graph = 1
    /\ snapshot = NoSnapshot /\ scaffolds = NoFile /\ taught = NoFile
    /\ pass = Idle /\ sealing = Idle
    /\ sealed = [f \in {Files[i] : i \in DOMAIN Files} |-> NoFile]
    /\ torn = FALSE
    /\ hub = None
    /\ trl = [train |-> NoFile, val |-> NoFile]
    /\ trained = NoFile
    /\ left = Commands

Runs == left > 0 /\ left' = left - 1

(* An ingest or a review changes what the gate shows.                      *)
GraphChanges ==
    /\ graph < Len(Graphs)
    /\ graph' = graph + 1
    /\ UNCHANGED <<snapshot, scaffolds, taught, pass, sealing, sealed, torn, hub, trl, trained, left>>

WriteSnapshot ==
    /\ Runs
    /\ snapshot' = graph
    /\ UNCHANGED <<graph, scaffolds, taught, pass, sealing, sealed, torn, hub, trl, trained>>

(* Scaffolded holds the snapshots the generator does not raise on.         *)
Scaffold(seed) ==
    /\ Runs
    /\ scaffolds' = [from |-> snapshot, seed |-> seed, limit |-> 0, answers |-> Untaught]
    /\ scaffolds' \in Scaffolded
    /\ UNCHANGED <<graph, snapshot, taught, pass, sealing, sealed, torn, hub, trl, trained>>

TeachStart(limit) ==
    /\ Runs
    /\ pass = Idle
    /\ scaffolds # NoFile
    /\ pass' = [read |-> scaffolds, limit |-> limit]
    /\ UNCHANGED <<graph, snapshot, scaffolds, taught, sealing, sealed, torn, hub, trl, trained>>

(* The taught rows are written before the rejection rate is looked at, so  *)
(* an escalation (exit 2) leaves them in place.                            *)
TeachFinish(answers) ==
    /\ pass # Idle
    /\ taught' = TaughtFrom(pass.read, pass.limit, answers)
    /\ pass' = Idle
    /\ UNCHANGED <<graph, snapshot, scaffolds, sealing, sealed, torn, hub, trl, trained, left>>

(* Five failed attempts of one call, or a crash: the whole pass is lost.   *)
TeachFails ==
    /\ pass # Idle
    /\ pass' = Idle
    /\ UNCHANGED <<graph, snapshot, scaffolds, taught, sealing, sealed, torn, hub, trl, trained, left>>

(* seal reads and validates a dataset; it refuses what does not pass.      *)
SealStart(d) ==
    /\ Runs
    /\ sealing = Idle
    /\ d # NoFile
    /\ Datasets[d].sealable
    /\ sealing' = [next |-> 1, rows |-> d]
    /\ UNCHANGED <<graph, snapshot, scaffolds, taught, pass, sealed, torn, hub, trl, trained>>

SealWrite ==
    /\ sealing # Idle
    /\ sealed' = [sealed EXCEPT ![Files[sealing.next]] =
                                    Written(Files[sealing.next], sealing.rows)]
    /\ IF sealing.next = Len(Files)
       THEN sealing' = Idle /\ torn' = FALSE
       ELSE sealing' = [sealing EXCEPT !.next = @ + 1] /\ UNCHANGED torn
    /\ UNCHANGED <<graph, snapshot, scaffolds, taught, pass, hub, trl, trained, left>>

SealCrash ==
    /\ sealing # Idle
    /\ sealing' = Idle
    /\ torn' = TRUE
    /\ UNCHANGED <<graph, snapshot, scaffolds, taught, pass, sealed, hub, trl, trained, left>>

(* Files are uploaded in order, the card last, and the upload may stop     *)
(* after any of them; nothing compares the card with the files.  hub keeps *)
(* what the repository then is: partly new, or as a whole described by its *)
(* card or not.                                                            *)
Uploads == <<"full", "train", "val", "card">>
Described ==
    /\ Datasets[sealed.card.rows].rows = Datasets[sealed.full].rows
    /\ sealed.card.train = Len(Datasets[sealed.train].train)
    /\ sealed.card.val = Len(Datasets[sealed.val].val)
Push(n) ==
    /\ Runs
    /\ \A i \in DOMAIN Uploads : sealed[Uploads[i]] # NoFile
    /\ hub' = IF n < Len(Uploads) THEN "partial"
              ELSE IF Described THEN "described" ELSE "mismatched"
    /\ UNCHANGED <<graph, snapshot, scaffolds, taught, pass, sealing, sealed, torn, trl, trained>>

ExportTrl ==
    /\ Runs
    /\ sealed.train # NoFile /\ sealed.val # NoFile
    /\ trl' = [train |-> sealed.train, val |-> sealed.val]
    /\ UNCHANGED <<graph, snapshot, scaffolds, taught, pass, sealing, sealed, torn, hub, trained>>

(* On the GPU box: train_qlora.py with the exported rows and a template.   *)
Train(template) ==
    /\ Runs
    /\ trl.train # NoFile
    /\ PreflightMaskProbe(Datasets[trl.train].trl, template)
    /\ trained' = [rows |-> trl.train, template |-> template]
    /\ UNCHANGED <<graph, snapshot, scaffolds, taught, pass, sealing, sealed, torn, hub, trl>>

BuildNext ==
    \/ GraphChanges
    \/ WriteSnapshot
    \/ \E seed \in Seeds : Scaffold(seed)
    \/ \E limit \in Limits : TeachStart(limit)
    \/ \E answers \in Answers : TeachFinish(answers)
    \/ TeachFails
    \/ \E d \in {scaffolds, taught} : SealStart(d)
    \/ SealWrite
    \/ SealCrash
    \/ \E n \in 1..Len(Uploads) : Push(n)
    \/ ExportTrl
    \/ \E template \in Templates : Train(template)

BuildSpec == BuildInit /\ [][BuildNext]_buildVars

-----------------------------------------------------------------------------
(* What the generator writes passes the structural invariants, every layer *)
(* of the validator, "held by construction on fresh output" (validate.py), *)
(* and the rehearsal; and on such rows the masking guard tells the chat    *)
(* template that marks the assistant's turns from every other one.         *)
Passes(data) ==
    /\ \A i \in DOMAIN data.rows : ConversationOK(data.rows[i])
    /\ data.sealable
    /\ DryRunOK(data.rows)
    /\ \A t \in Templates : MaskedRight(data.train, data.trl, t) = (t = "assistant")
PassingScaffolds == {d \in Scaffolded : Passes(Datasets[d])}
ScaffoldsPass ==
    [][scaffolds' # scaffolds => scaffolds' \in PassingScaffolds]_buildVars

(* The surface pass changes surfaces only: whatever the teacher answers,   *)
(* the calls, results, labels, entities, preambles and lists of titles of  *)
(* every row stay those of the row it read, in the same order; what was    *)
(* bold stays bold, and nothing becomes bold but a locked span; an answer  *)
(* that abstained still does.  It may come to abstain as well: only the    *)
(* loss of NO_MATCH is checked (verify_locked).                            *)
BoldOf(text) == {text.body[i].text : i \in {j \in DOMAIN text.body : text.body[j].bold}}
Skeleton(conv) ==
    [id |-> conv.id, behaviour |-> conv.behaviour, lang |-> conv.lang,
     entities |-> conv.entities, intents |-> conv.intents, slots |-> conv.slots,
     turns |-> [i \in DOMAIN conv.turns |->
        LET t == conv.turns[i] IN
        <<t.role, t.calls, t.result, t.content.intent, t.content.slots, t.content.items>>]]
Skeletons(rows) == [i \in DOMAIN rows |-> Skeleton(rows[i])]
Rewritten(before, after, locked) ==
    /\ before.nomatch => after.nomatch
    /\ BoldOf(before) \subseteq BoldOf(after)
    /\ BoldOf(after) \subseteq BoldOf(before) \cup locked
SurfacesOf(before, after) ==
    /\ Skeletons(after) = Skeletons(before)
    /\ \A i \in DOMAIN before : \A k \in DOMAIN before[i].turns :
          Rewritten(before[i].turns[k].content, after[i].turns[k].content, Lockable(before[i]))
RowsRead(t) == RowsOf(Datasets[TaughtFrom(t, 0, Untaught)].rows, t.limit)
OnlySurfaces ==
    {t \in DOMAIN Datasets \ {NoFile} : SurfacesOf(RowsRead(t), Datasets[t].rows)}
OnlySurfacesChange ==
    [][taught' # taught =>
         taught' \in OnlySurfaces /\ pass = [read |-> TaughtFrom(taught', 0, Untaught),
                                          limit |-> taught'.limit]]_buildVars

(* Whatever the teacher wrote, and whichever file was sealed, no exported  *)
(* row asserts a title its own results do not have, calls outside the      *)
(* schema, or says a user utterance of the protected queries.              *)
Clean ==
    {d \in DOMAIN Datasets : \A i \in DOMAIN Datasets[d].rows :
        RowIssues(Datasets[d].rows[i]) = {} /\ ~Contaminated(Datasets[d].rows[i])}
TrainedOnIsClean == [][trl' # trl => {trl'.train, trl'.val} \subseteq Clean]_buildVars

(* Unless a seal is under way or was interrupted, the five files belong    *)
(* together: the held-out rows are in no training row and not in the       *)
(* committed sample, the two parts make up the whole, the card describes   *)
(* the files, and what is pushed then is described by its card.            *)
Ids(rows) == {rows[i].id : i \in DOMAIN rows}
SealedTogether ==
    sealing = Idle /\ ~torn =>
        LET held == Ids(Datasets[sealed.val].val)
            trainedOn == Ids(Datasets[sealed.train].train)
        IN
        /\ held \cap (trainedOn \cup Ids(Datasets[sealed.sample].sample)) = {}
        /\ held \cup trainedOn = Ids(Datasets[sealed.full].rows)
        /\ sealed.card # NoFile => Described

(* The rows trained on pass the masking guard: the probe on the box        *)
(* re-asserts assistant-only masking (the docstring of train_qlora.py).    *)
TrainsOnAssistantOnly ==
    [][trained' # trained => MaskedRight(Datasets[trained'.rows].train, Datasets[trained'.rows].trl, trained'.template)]_buildVars

(* A rewrite adds no title assertion, "bold span or Title (year) pattern"  *)
(* (the docstring of verify_locked).                                       *)
Asserted(conv) == UNION {AssertedTitles(FinalAnswers(conv)[i]) : i \in DOMAIN FinalAnswers(conv)}
TeachingAddsNoTitle ==
    [][taught' # taught /\ pass # Idle =>
         \A i \in DOMAIN Datasets[taught'].rows :
             Asserted(Datasets[taught'].rows[i]) \subseteq Asserted(Datasets[pass.read].rows[i])]_buildVars

(* The snapshot the card names is the one the scaffolds were sampled from  *)
(* (DatasetCard.graph_snapshot).                                           *)
CardNamesItsSnapshot ==
    sealing = Idle /\ ~torn /\ sealed.card # NoFile =>
        sealed.card.graph_snapshot = sealed.card.rows.from
=============================================================================
