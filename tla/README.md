# TLA+ models of Sutradhar

These modules model Sutradhar, an assistant that finds Indian films across languages:
the chat API with its on-demand GPU endpoint, the conversation store and the agent loop;
the laptop tool that rents and returns the GPU; the film catalogue with its loaders,
reviewers and queries; the commands that build the fine-tuning dataset; and the
evaluation that decides whether the fine-tuned model is kept.  TLC checks them on small
instances; TLAPS proves, for every instance, all but two of the safety properties the passing
runs check, on the serving side, the GPU tools, the catalogue, the dataset commands and the
evaluation (the exceptions are `ScaffoldsPass` and `AnswersStayTrue`, section 4).  Paths below are relative to `src/`.

## 1. The system

| Component | Code | State | Operations | Modelled by |
|---|---|---|---|---|
| Endpoint status cache | `serving/degrade.py` (`StatusCache`), `serving/llm_client.py` (`health`) | last verdict, its deadline | `current`, `invalidate` | `StatusCache` |
| Chat service | `serving/app.py`, `security.py`, `obs/cost.py` | per request: handler position, database session, counters | chat, status, health | `ChatService` |
| Conversation store | `serving/sessions.py` | records with a deadline, in Redis or in memory | `load`, `save` (`delete` has no caller) | `Sessions` |
| Orchestrator | `serving/orchestrator.py`, `guardrails.py`, `executor.py` | history; per turn: messages, titles, tracker, trace | `run_turn` | `Orchestrator`, `Transcript`, `Conversation` |
| GPU sessions | `infra/gpu/jarvis.py` | boxes and startup scripts at the provider, `Evidence` | `validate`, the `*_session` functions, `nuke` | `GpuSession` |
| Fine-tune window | `jarvis.py` `finetune_session`, `finetune/gpu_window.py` | marker files in a Hub repository, what runs on the GPU | two drivers | `FinetuneWindow`, `WindowPhases` |
| Catalogue store and queries | `graph/` (`schema.py`, `models.py`, `repository.py`), `alembic/`, `pipeline/report.py` | works, versions, edges, conflicts, candidates, titles; the ground-truth views | `get_work`, `get_versions`, `refine_filter`, coverage | `CatalogTables`, `CatalogQueries` |
| Loaders, graph build, precedence | `pipeline/wikidata.py`, `tmdb.py`, `imdb.py`, `titles.py`, `precedence.py`, `build.py`, the scripts of `data-pipeline/` | the tables, one transaction a command | `ingest_spine`, `enrich_tmdb`, `load_akas`, `rekey_titles`, `build_graph` | `CatalogIngest`, `CatalogReview`, `Catalog` |
| Review gate | `pipeline/extract.py`, `review.py`, `data-pipeline/review_candidates.py`, `resolve_conflicts.py` | candidates, decisions | `load_candidates`, `promote`, `reject`, the MEDIUM gates, `resolve` | `CatalogReview`, `Catalog` |
| Fine-tuning data | `sutradhar/finetune/`, `finetune/build_dataset.py`, `ft_dryrun.py`, `train_qlora.py` | snapshot, scaffolds, taught, five sealed files, the Hub, TRL rows | `snapshot`, `scaffold`, `teach`, `seal`, `push`, `export-trl`, train | `TrainingData`, `ToolSchema`, `DatasetValidation`, `TeacherPass`, `TrainingRows`, `DatasetContents`, `DatasetBuild` |
| Evaluation and verdict | `evals/driver.py`, `mock_llm.py`, `generation.py`, `generation_run.py`, `judge.py`, `evals/run_generation_eval.py`, `rejudge_run.py`, `finetune/verdict.py` | a transcript; one artifact per column | drive, score, write, re-judge, decide | `EvalScoring`, `ScriptedModel`, `Evaluation` |
| Serving benchmark | `serving/benchmark.py` | four steps of a sealed artifact | captures, merge, seal | planned |
| Retrieval | `rag/` | sealed artifact runs, vectors | `retrieve`, `ArtifactRun.open` | planned in part |
| Other evaluation, observability, settings, UI | `evals/`, `obs/`, `config/`, `ui/` | files | metrics, rendering | no |

How they meet: every API request runs on a worker thread of one process (the handlers
are plain `def` functions, so FastAPI runs them on its thread pool).  A chat request
asks the shared status cache for the endpoint's verdict; unless it is `up` the answer
is an offline payload.  Then it is authorized, gets a database session and runs one
orchestrator turn, which loads the conversation record, alternates model calls and tool
calls, and writes the record back.  A turn that finds the endpoint gone invalidates the
cached verdict.  The endpoint is a box that a laptop process rents through the
provider's API and has to give back.

The catalogue is a PostgreSQL database: every loader and every review session is one
transaction, run by hand in no fixed order, any number of times; the chat tools read it
through views that hide what is contested or unverified.  The dataset commands pass files
to one another, from a snapshot of the catalogue to the rows a training run reads; the
evaluation drives the same five tools against an endpoint or a scripted one, and its
artifacts are judged later, in place, before two of them give the verdict.

What is hard: unlocked fields shared by threads (`StatusCache`), a read-modify-write
that spans a whole turn (`Sessions`), long message protocols with failures in the
middle (`Orchestrator`), provider calls that fail before or after they took effect,
killed processes and a global `nuke` (`GpuSession`), two programs that know of each other
only through files and deadlines (`FinetuneWindow`), loaders that meet what humans decided
since their last run (`Catalog`), commands whose inputs change while they hold them, with a
model in between that may answer anything (`DatasetBuild`), and numbers that are computed,
stored, recomputed and compared in different programs (`Evaluation`).  `PROJECT.json` lists each hazard
at its line, with the property aimed at it.

What would make each component correct: a verdict is never older than promised, never
missing and converges; the paid path is entered only as configured; a record is a
conversation that took place, neither miscounted nor lost; the model is sent only
well-formed prompts and a turn is all or nothing; no film an answer marks as the prompt asks
reaches the user unflagged unless a tool returned it or one spelled like it; no box bills without a cause the operator could have seen, and an exit code of
0 means so; a captured column was measured against the model it is named after; no
relationship is served without evidence, and what humans decided about candidates, rows and
edges outlives every re-run; no training row asserts what its own tool results do not say or repeats a test query; a
recorded score is the score of what was said, and noise does not decide the verdict.

## 2. The modules

**StatusCache** has one action per statement of `current()` that touches shared state:
the `None` test (`Enter`), the deadline test (`CheckDeadline`), the probe (`Answer` or
`ProbeRaises`), the assignment (`Store`), the deadline (`Stamp`), the second read of the
field (`Return`).  `Invalidate` is `invalidate()`.  Time is relative: `expiresIn` counts
down to the deadline, `age` (a ghost inside a verdict) counts up since it was observed.
The clock stands still between two statements that do not wait; it moves while a thread
waits for the probe, and up to `ProbeMax` ticks while an observed verdict is on its way
back, which is what the client's timeout allows.

**ChatService** EXTENDS `StatusCache` with the handlers.  Every action that uses the
cache is a conjunction of a cache action and the handler's own part, which is what makes
the refinement `Spec => CacheSpec` a meaningful check.  The turn is reduced to the ways it
can end: answer, abort, session limit, any other exception.

**Sessions** models the two stores and the part of `run_turn` around them.  A request
loads a private copy, works, and saves it.  A record keeps its count and, of its messages,
only which turn (request) they belong to.  A request that ends in a 500 may have been stored or
not: Redis may raise without effect (`StoreRaises`) or after the SET it was asked for
(`SaveRaises`), and composing the reply may raise after a good save (`ReplyRaises`).  `idle`,
`saved` and `disturbed` (conversations that had overlapping turns, or whose store changed) are
ghosts.
`MCSessions` adds the symmetry of requests and conversations.

**Orchestrator** models the turns of one conversation, one after another.  A message is
its role and one number (module `Transcript`): how many calls an assistant message makes,
which of them a tool message answers.  Films and versions are the elements of `Titles`.
The model, the database and the retriever are the environment: they choose answers, calls
and results freely.  An answer names a film marked, as the prompt asks (bold, or with a year), in
plain prose, or both.  The output gate sees marked titles only and takes a title for grounded
when a title the tools returned in this turn is the same or near enough (`Lookalikes` are the
pairs whose ratio reaches the 0.80 of `MATCH_THRESHOLD`); what it flags, it flags wherever the
answer says it (`Inventions`, `Finish`).  **Conversation** is the promise of orchestrator.py 13-17 alone: a turn
appends a whole exchange or leaves the history as it was.

**GpuSession** models the processes that rent boxes.  A session has one leg, the serving
benchmark two.  The provider gives out increasing ids, may lose the answer of a create,
may refuse a destroy, and may raise before or after it took effect.  `End` contains main()'s
exit code.

**FinetuneWindow** models the one-time window: the laptop runs `finetune_session`, the box
`gpu_window.py` inside the wrapper of `build_window_startup_script`, and both see only the set
`markers`.  A wait of the code is a step (`await`, `wait`) with the time spent in it; it ends
in `SeeUp`/`SeeDone` (the marker is there), `SeeExit` (the box has ended, or the deadline has
passed) or `GiveUp` (the box's `TimeoutError`).  `served` says which phase's model answers,
which the laptop cannot see: it asks the same URL all the time.  `gaps` collects what a
running task has missed, `damaged` the tasks that exited 0 with such gaps in their artifact,
and `blame` is a ghost: what went wrong first, nobody's fault, a fault, or a box that gave up on a
laptop still at work (`patience`).
`Tick` lets time pass in units far longer than a poll: the laptop never lets a marker or a
deadline lie for a whole unit; the box may, but it does not give up early.  **WindowPhases**
is the promise alone: three models, six tasks in order, a report, an end.

**CatalogTables** holds the tables as the migrations create them, in one record `db`, with
the constraints a commit must satisfy (`IntegrityOK`) and the ground-truth views.  A row is
named after the slice entry and the year it was inserted for, because the code looks rows up
by work, language and year: a year corrected in the slice of an entry without a QID makes a
second row.  Ingests are modelled where `EachItsOwnRow` holds, that is, where no two entries of
the slice match one row: elsewhere the result depends on the order of the entries and, because
the sessions do not flush by themselves, on what an earlier entry has flushed.  **CatalogIngest** has the field precedence rules (`Resolve` and its strategies)
and the loaders, each an operator from the database it finds to the one its commit leaves.
Credits are kept in a table (`cast`) that only grows, as `version_cast` does, whatever the feed
says later.  **CatalogReview** has the rule builder with its cast-overlap test over that table,
extraction into candidates (known by their titles and their page), binding, promotion, rejection, the MEDIUM gates and the settling of conflicts.
**CatalogQueries** has what the chat tools and the coverage report read; where the code's
answer depends on the order rows come in, the operator is the set of answers.  **Catalog**
is the life of it all: a curator edits the slice, a fetch finds new claims, every command
(`ingest_spine`, `enrich_tmdb`, `load_akas`, `rekey_titles`, `build_graph` and the extraction are
separate transactions) runs any number of times in any order, reviewers decide; a reviewer may
also bind an end to a work, by its title and year.  A commit PostgreSQL refuses
leaves the database as it was, which is also what a crash does.  `MCCatalog` is a film, its
original, a remake, a dub track, a sequel and a novel of the film's title; `Starts` pairs slices,
feeds and extractions, so that each kind of edit, fetch and proposal meets the loaders without
multiplying with the others.

**TrainingData** is the generator of training conversations with its own stream of random
numbers (a constant), **ToolSchema** the frozen schema of the five tools,
**DatasetValidation** the validator's layers, **TeacherPass** the lock, the rewrite, its
verification and the fallback, **TrainingRows** the TRL rows and the masking probe on the
training box.  A text is a sequence of spans, so that bold titles, `Title (year)` patterns,
list lines and preambles are told apart and wording is not.  **DatasetContents** computes
what each command makes of what it read and tabulates it (`Tabulated`); **DatasetBuild** has
the commands, the files between them and the interruptions, with a dataset known by the name
of what it was made from.  The table is a constant, `Datasets`, whose equality with
`Tabulated` is an assumption TLC evaluates.  List comprehensions and `extend` loops are
`Sub` (the elements at some indices, in order) and `Joined`, both left folds; the state machine
is `BuildSpec`, with names of its own so that one module can hold the proofs of both sides
of the fine-tuning.

**EvalScoring** has the deterministic scorers, the metrics of a run, the judge's reply and
the verdict; a score between 0 and 1 is a fraction, so that rounding decides nothing.
A fixture that expects no calls has no call scores and stays out of their means (`NotScored`,
`MeanOf`); each generation fixture of the repository has intents and slots, so those are always
there.  **ScriptedModel** is the executor over recorded results and the mock endpoint.
**Evaluation** composes them: the driver's loops over fixtures, user turns and rounds, an
endpoint that fails, the write of an artifact, judge passes in place, the verdict.  What the
code computes with a loop over a list is a left fold (`Selected`, `Joined`, `ReadOff`), also
where the community modules have a recursive function for it, because proofs can follow a fold
element by element (**LeftFolds**, section 4).

## 3. What is checked

| Run | Instance | Distinct states | Shows |
|---|---|---|---|
| `ChatService` | 2 threads, TTL 2, travel 1 | 72 k | no verdict outlives TTL + travel time; paid path guarded; each answer counted once; handlers refine the cache; requests are answered; verdicts converge |
| `Sessions` | 3 turns, 2 conversations, cap 2, TTL 2, 2 restarts | 284 k | counts and histories are sound under races, expiry, saves that raise before or after they took effect, and restarts; aborted turns leave no trace; what may take a record early |
| `Orchestrator` | 3 films, 2 of them look-alikes, 2 rounds, 2 turns, 2 calls a message | 181 k | prompts well formed, trace matches history, no marked title reaches the user unflagged that no tool grounds, turn ends, all or nothing |
| `GpuSession` | 1 session, 1 benchmark, 2 boxes, 3 scripts | 380 k | leaks have a cause, exit codes of single sessions are honest, own script boots, nuke reclaims |
| `FinetuneWindow` | health 3, markers 4, window 6, task 1 | 429 k | no model swapped under a task, no mutual wait, bounded rent, no loss without a fault or an impatient box, which only a phase as long as its patience can make; phases refined |
| `Catalog` | 4 slice entries, 3 works, 4 slices, 5 feeds, 4 extractions in 4 starts, 2 conflicts a field | 21 k | constraints hold; edges have evidence; decisions about rows survive every command; re-runs change nothing; an ingest leaves what it should be found by; a franchise is one; answers stay true |
| `DatasetBuild` | 2 graphs of 4 works, size 20, 6 commands, 13 ways for a teacher to misbehave | 88 k | fresh scaffolds pass every layer; rewriting changes surfaces only, and may add an abstention; exported rows are grounded and uncontaminated; sealed files belong together |
| `Evaluation` | 3 fixtures, dry run and 2 columns, 2 slips, 2 judgings | 242 k | transcripts are what was said; scores and columns are those of the stored fixtures; the judge alone never keeps an adapter |

Four more runs each show where the code disagrees with a comment or a contract of its own:

- `ChatServiceNone`: `current()` can return `None`.  Thread A passes the deadline test,
  thread B invalidates, A returns the field again.  The request ends in a 500.
- `SessionsLostTurn`: of two overlapping turns of a conversation one answered turn is lost.
- `GpuBenchmarkExit`: the serving benchmark can exit 0 with its first box still billing.
- `CatalogSettled`: a conflict a human settled is opened again by the next ingest over
  unchanged inputs, and the version is hidden again.

Stated but in no run, because TLC refutes them and they repeat what is said below:
`DoneMeansScored` (`JUDGE_UP` does not wait for the
embedder, so a window without a fault can end with columns whose relevancy was never scored),
`TrainsOnAssistantOnly`, `TeachingAddsNoTitle` and `CardNamesItsSnapshot` (below, under the dataset).
The type invariants of `Sessions`, `Orchestrator`, `GpuSession`, `FinetuneWindow` and `ChatService` are
theorems and not repeated as invariants of the runs.

What a few of the properties say, and do not say:

- `AbortedNeverStored` is about turns that were aborted or refused at a cap.  A 500 promises
  nothing: the turn may be in the history, and a client that repeats it has it there twice.
- `RecordsLiveTheirTTL` names what takes a record early, and this is all: the in-memory store dies
  with its process, and its clean-up pops whatever is there by then, which between overlapping
  turns of one conversation may be the record one of them has just saved (sessions.py 125-127).
- `NothingInvented` is about titles an answer marks.  A film that is only named in plain prose is
  promised by nobody (evals/generation.py 26-28), and a look-alike of a returned title passes.
- `NoFaultNoLoss` says that without a fault, and unless the box gives up, nothing is lost, and that
  the box gives up only in a phase whose waits and tasks may take as long as its patience.  In
  the run that is the first phase (health 3 and a task against 4).  The limits of the code allow it
  in every phase: 2700 s and 3600 s, 2 x 3600 s and 3 x 3600 s against 5400 s; the measured
  duration of a benchmark, about 20 minutes, leaves only the first.
- `RerunsChangeNothing` states "Idempotent" as the docstrings have it, for each loader run again
  at once: `ingest_spine`, `enrich_tmdb`, `load_akas`, `rekey_titles`, `load_candidates` and
  `build_graph`.  It has two limits, both part of the statement.  An ingest is asked only where no
  two entries of the slice match one row (`EachItsOwnRow`).  And `build_graph` checks the edges it
  finds, not those it derives: a dub track that was once billed, and whose TMDB id was withdrawn,
  gets its dub edge in the first run and has it contested in the second, against the docstring's
  word; the third changes nothing.  The start `TrackBilled` reaches this.
- `IngestCovers` speaks of the database after an ingest that commits: every entry of the slice is
  found again, or its year is contested or its row was verified by a human; and every visible
  relationship of the slice is counted by the coverage report, or an entry at one of its ends is
  held in that way.
- `OneFranchise`: the franchise of a work holds every sequel edge it touches and is the same from
  each of its works.
- `AnswersStayTrue` compares an answer with the database after the next command, over every work:
  its franchise still holds, a source and an original it named can still be named unless a conflict
  hides them, and every version the client kept is found again under the label it was shown.  The
  exceptions are listed in it: a conflict about the version or its edge, a version that was shown
  without an edge and has one by then, and an original whose label `refine_filter` reads from another
  root: it roots labels at the work of the first row it reads (repository.py 380), so an answer
  that includes sequels may not refine to the original it was shown with.
- `CuratedKept` is about candidates, rows, edges and provenance; that a settled *year* stays is what
  `CatalogSettled` refutes.
- `OnlySurfacesChange`: a rewrite keeps the turns, calls, results, labels and preambles; what was
  bold stays bold and only locked spans become bold; an abstention stays.  `verify_locked` accepts
  an answer that starts to abstain, and one that adds a list line where there was none
  (validate.py 402-406); so the teacher does both in the model, and the property allows it.
- `SealedTogether` exempts a seal that was interrupted: its five files are then of two datasets,
  and nothing in the code notices.  What can be said of them is `TrainedOnIsClean`.

*Met while modelling, and kept in the models.*  Chat: guardrails.py:20 speaks of titles the tools
returned in this conversation, but the gate is given this turn's only, so a film an earlier turn
grounded is flagged when it is marked again; the history stores the answer without the flags.
More answers than the turn cap can be given, as racing turns test private copies.  Catalogue: a conflict of an edge's type cannot
be settled by any command, so the edge stays hidden; correcting the year of an entry without
a QID makes a second version row; `confidence` may become HIGH on a fallback match although the
QID is not stored; a candidate's key has no language, so same-title remakes on one page share one; an
`imdb_id` that TMDB filled in is wiped when the unverified row is ingested again; a verified
version keeps its title when the slice is corrected and coverage then reports it missing; an
integrity error on one decision rolls back the whole review session; of several edges of a
version the last one read labels it.  Dataset: `teach` writes nothing before its end, so a
crash loses the pass; its exit code 2 comes after `taught` was written; `push` never compares
the card's hash with the file; a seal interrupted over an older one leaves files of both; the
card hashes the snapshot file of now, not the one the scaffolds were sampled from;
`verify_locked` lets a rewrite add `Title (year)`, which the seal's grounding layer then
rejects; the probe on the training box sees only masks that are all 0 or all 1 in one row.
Evaluation: in `call_level` the first expected call without a match uses up the emitted ones,
although generation.py says "per-expected-call fraction"; a judge error keeps the old score of
a fixture while the artifact's judge block is replaced; `fixtures_completed` is not in what the
verdict reads, so an endpoint that dies during the base column can let the adapter be kept.

*Bounds.*  Two threads suffice for the cache because its races are between one thread in
`current()` and one other that stores, stamps or invalidates; the invariants are proved for
any number.  TTL 2 is the least for which a window that slides with each hit differs from
one that does not.  Three turns allow two that race and one that sees the result; a cap of
two turns can be reached and contested; two restarts allow memory -> Redis -> memory.
Which kind of request a thread serves, and with which token, is chosen when its handler first
looks at it, which keeps the instance small and loses no behaviour.
Two rounds are a first and a last one, and two calls a message make the order of answers matter;
three films are a title with a look-alike and one without.  Two boxes are the benchmark's two legs or one leg beside another session;
three scripts let a session meet a script that a killed one left.
A unit of the window is 20 minutes: the health timeout of 45 minutes is 3, the markers' 90
minutes 4, a task 1, and the 8 hours of the training wait are scaled down to 6, still the
longest wait.  With these the box may lose its patience in the first phase and in no other, so that
both sides of `NoFaultNoLoss` occur.  Deadlock checking is off
where a system may really stop: all of `Sessions`' requests served, `GpuSession`'s
processes over, the finetune window closed, no command of the bounded batch runs left.

The catalogue has one entry of each kind the loaders treat differently: with and without a
QID, an original, a dub track, a remake, a sequel work and a source work that shares the film's
title; a year that is corrected and an identifier that is found, a feed that adds claims,
contradicts a year and bills other leads, one that withdraws a TMDB id; a conflict that is settled
and opened again; a page that repeats a proposal of another.  `Size` 20 is the least at which every share and quota of the dataset is a whole
number; six commands allow snapshot to train, or a seal over a seal; each kind of teacher
breaks one rule of the verification, or does what no rule forbids.  One seed and one split are fixed: the generator
is deterministic, and a second stream adds no behaviour of the commands.  In the evaluation
two slips let a failure follow a failure or hit both columns, and two judgings let one pass
overwrite another; the judge runs after the last capture, as `jarvis.py` schedules it.  The
mock seeds its two faults in two fixtures; the instance has one fixture for both.

*Fairness.*  `ChatService`: every worker thread keeps being scheduled, its probe and its
turn end (each client has a timeout and the loop is bounded), and time passes: the clock
ticks until the deadline is reached.  Nothing is assumed of the endpoint.  `Orchestrator`:
only that a started turn goes on.  `GpuSession`: the operator runs `nuke` again and again,
and a box that is destroyed again and again is gone at some time; sessions are not assumed
to end (they may be killed).  `FinetuneWindow`: the laptop's loop goes on and time passes,
nothing is assumed of the box: the laptop's deadlines alone must end the window.  `Sessions`,
`Catalog`, `DatasetBuild` and `Evaluation` need none: their commands are run by hand.

## 4. What is proved

`ChatServiceProofs` is about the cache first (assumptions: TTL a positive number, `ProbeMax` a
natural number, `None` not a verdict).  The bound on staleness is not inductive as it stands.
The invariant says that a cached verdict that is not on its way to a stamp satisfies
`age + expiresIn <= TTL + ProbeMax`, that a verdict in a thread's hand is at most
`ProbeMax` old, and that a thread about to read finds a verdict still within its window.
From it: `CacheTypeCorrect`, `StalenessBounded`.  Each handler step is a cache step or leaves
the cache alone (`ServiceImplementsCache`), which carries the bound over
(`ServiceStalenessBounded`).  `TypeCorrect`, `PaidPathIsGuarded` and `AnswersAreCountedOnce`
hold for every number of threads and every setting of `Auth`; the last needs only that a reply
counts the kinds of the very response it sends.

`SessionsProofs` proves `HistoriesSound`.  `CausalHistory` is not inductive: a record comes
from a private copy, so the invariant also says that every private copy is a sound history,
and what a sound history is must not change when other turns move.  The load keeps it (a
copy of a sound record), the save extends a sound history by the turn whose context it was,
and no other step writes either.  From it follow `TypeCorrect`, `CountIsRight`,
`HistoriesAreCausal` and `AbortedTurnsLeaveNoTrace`.  `SequentialTurnsAreKept` has an invariant
of its own, `SequentialInv`: of an undisturbed conversation at most one turn is in flight, and
the private copy of that turn is exactly what was saved so far; for each record the time left
and the time idle add up to the TTL, so that a record can only be missing when the
conversation was idle for the TTL.  `RecordsLive` is an action property and follows from the
same facts, step by step; that two turns are in flight when a clean-up takes a fresh record is
what puts its exception on overlapping turns.

`FinetuneProofs` proves first all of the window's safety for every choice of timeouts.
`MarkersInv` says which markers are there, given how far the laptop and the driver have come;
`TurnsInv` that a driver is never ahead of the laptop's markers and the laptop never ahead of
the driver's; `TasksInv` where `done` stands in each step.  They give `NoSwap`,
`NoWaitingCycle` and, action by action, `WindowImplementsPhases`.  `RentIsBounded` needs a
sum: the time rented so far is at most the sum of the waits behind the laptop plus the time
spent in the current one.  `NoFaultNoLossHolds` adds that without blame the box has waited no longer than
the laptop's own waits and tasks since the marker, so that where those are `Short` it cannot run
out (`PatienceInv`), and that no benchmark has met a gap.  The assumption on the constants is that they are
natural numbers.

`OrchestratorProofs` proves all of the agent loop's safety, for any films and any bounds.  The
invariant `TurnsSound`: a running turn is the history, a user message and messages that are
not a user's (`TurnOf`); in the tool phase some number k of the last assistant message's calls
is answered, in order, by the last k messages, and `open` more are to come (`Answered`); the
trace counts the tool messages behind the history; what is surfaced was returned.  `NothingIsInvented`
holds for any films and any similarity of titles, since the gate compares with this turn's titles
and a served turn hands them to `grounded`.  It rests on
lemmas about transcripts: whether a message may stand where it stands depends on those before
it (`FollowsStays`), the next tool message answers the next call (`ToolResultFollows`), and
when none is open the model may speak (`AllAnswered`).  From it: `TypeCorrect`,
`PromptsAreWellFormed`, `TraceIsTheHistory`, `NothingIsInvented`, and step by step the
refinement `TurnsCommit`.

`GpuSessionProofs` proves the safety of the renting processes for any number of sessions,
benchmarks, boxes and scripts.  `LeakInv` says that a box that bills is excused, or its
session was killed or is on its way to give it back; `ExitInv` that a session with one leg
owns at most the box it knows, and none once `destroyed` is set; `BootInv` that a session that
has always been alone finds its own script newest.  The newest script is the maximum of a
finite set of ids, which exists by the well-foundedness of the naturals.  From them:
`TypeCorrect`, `LeaksAreExplained`, `ExitCodesAreHonest`, `OwnScriptsBoot`.

`FinetuneProofs` goes on with the dataset commands, for any graphs, draws, sizes, teacher and
order of commands.  Its assumptions: the views show lists of works whose versions are of that
work and finitely many title variants (`GraphsAssumption`), sizes and draws are natural numbers
(`SizesAssumption`), the teacher's ways to answer are those of `Quirks` (`AnswersAssumption`),
and `Datasets` is `Tabulated`.  There are three results.

- *The sealed files* (`DatasetsInvariant`, `SealedFilesBelongTogether`).  `SealedTogether` alone is
  not inductive: a seal over older files passes through states that hold files of two datasets.
  The invariant `DatasetsInv` says that every file holds a dataset some command wrote, that a seal
  under way has written so far exactly the files of the dataset it seals, and that outside a
  seal, unless one was interrupted, all five are of one.  That one dataset splits rightly is
  `EveryDatasetSplits`, a fact about the operators: generated rows are numbered (`Numbered`), the
  teacher and `--limit` keep the numbers, so distinct indices are distinct rows; the indices of
  the training part are the complement of those of the held-out part whatever the shuffle did;
  and what `Balanced` takes comes from the training part.  `InOrder`, `Shuffle`, `Balanced` and
  `Joined` are folds, so each of these facts is an induction along `LeftFolds`.
- *The rows trained on* (`TrainingRowsAreClean`).  Only sealable datasets are ever in a sealed
  file, an export copies names of sealed files, and a sealable dataset is clean row by row.
- *The teacher* (`RewritesChangeSurfacesOnly`).  A rewrite may return any text of `Quirks`.  That
  an accepted one changes surfaces only needs a fact about the generators: in everything they
  write, each bold span is a title of a result of the same conversation (`Grounded`, `DraftOK`),
  hence among the entities that are locked.  `verify_locked` then demands every locked span back, as
  often as it was there (only counts are compared, not the order), and no bold but locked spans
  (`TeachKeepsSkeleton`).  The first fact is
  proved behaviour by behaviour (`PlotDraft`, `TitleDraft`, `RefineDraft`, `DisambiguateDraft`,
  `OutOfCatalogDraft`) from what the snapshot keeps of the views (`ExportOK`): recorded queries
  resolve, and resolve to rows of shown works.

`CatalogProofs` proves every invariant and `CuratedKept` for any slices,
feeds, extractions and any number of runs of any command.  Assumptions: the slices have the columns
of their files and pass the loader's own validation, `SliceOK`; `Null` names no row; every entry
is in an Indian or a foreign language (`Country`); there are finitely many works.  Each command has
a lemma that says what its transaction changes: which rows it may add, which columns of
existing rows it may touch, which conflicts it may add.  What the invariant `CatalogInv` needs
follows from these, and so does `Kept`, what no command may take back.  Beyond the types the
invariant has three parts.  `ReviewedApart`: a version with a QID is HIGH from the start and
only MEDIUM ones are put before a reviewer, so that settling the year of an identified version
overwrites no reviewed value.  `Evidence`: the row of an edge shows where it comes from, or a
confirmed candidate stands behind it, and evidence is kept with the rows.  `Numbered`: the
conflicts about a value are numbered in order, so that the next one is new, none but the
last is open, and an open conflict about a version is about its year, which is what hides it from the
views.  From it: `TypeCorrect`, `EdgesHaveEvidence`, `ContestedOnce`, `DecisionsSurvive`.

Three more theorems are about what one state promises, and need the invariant of that state:

- `FranchiseIsOne`.  The closure of a franchise is a number of rounds along sequel edges.
  Each round that is not the last adds a work, there are finitely many, so the rounds reach a fixed
  point (`RoundsGrow`); it is the least set that holds the work and is closed under the edges (`FranchiseIsClosure`),
  which is the same from each of its members because the edges are read both ways (`FranchisesAgree`).
- `RerunsAreIdle`.  The hard case is `ingest_spine`.  `SpineTargets` says that after a run every
  entry matches the row it wrote, by QID or by work, language and year, and no other, although the
  run itself moved years and QIDs between rows; so the second run writes the same values into the same
  rows and finds every conflict it would open (`SpineTwice`).  `BuildTwice`, `EnrichTwice`,
  `TitlesTwice` and `LoadTwice` say the same of the others; `BuildTwice` is where the exception above
  appears.
- `IngestLeavesFound`.  From `SpineTargets` again: the row an entry has after the run carries the entry's
  title, language and year unless the year is contested or the row was verified (`SpineCovers`).

`LeftFolds` says how to reason about a left fold, by the empty sequence and the last element
(`FoldOfEmpty`, `FoldOfAppend`) and by induction (`FoldInduction`); these are tools of the proofs and say nothing of the system.  The provers cannot
instantiate a theorem that takes an operator; so the operator, the start value and what is to
be shown are constants of the module, and each fold a proof is about has an instance of it.
`FoldLeft` is a recursive function over sets of indices; that it exists is proved by taking
the least counterexample.

`EvaluationProofs` (assumption `EvaluationAssumption`: a fixture has labels for each of its
turns, a message asks for calls or gives an answer) has two halves.  The driver: `DriverInv`
says that who reads the messages so far reads off exactly the calls and answers recorded so
far, with the current turn unanswered (`Reads`, `InFixture`), and that in the tool phase the
calls behind the last assistant message are answered one by one (`OpenAt`); every result is
`ScoreFixture` of its own transcript.  Each way a turn or fixture can end keeps it, which gives
`TranscriptsAreFaithful`.  The scores: the invariant of the greedy scan (`ScanOK`, `Placed`) is
that the expected calls so far can be placed before the cursor and, however they are placed,
nothing before the cursor is left for the next one; once one has not matched there is no
placing at all.  So the scan is exact (`GreedyIsExact`).  Storing a transcript without its
messages commutes with every selection and metric (`AggregateStored`), so what is written,
and written again by the judge's pass, has the metrics of what it holds: `ScoresAreExact`.
Every recorded score is a fraction or missing (`AccuracyType`, `SlotF1Type`), hence
`JudgeNoiseNeverKeeps`: with equal intents and slots at most one primary metric can improve,
and two must.  `JudgeAloneNeverKeeps` and `KeepIsOneWay` say the same, and that the rule never
keeps both of two models, of the verdict as a function of any two columns.

Only model-checked: every liveness property (`VerdictConverges`, `EveryRequestAnswered`,
`TurnEnds`, `LeaksReclaimed`, that the window closes in `RunsInPhases`), which is out of the
prover's reach; `AnswersStayTrue`; and `ScaffoldsPass`, that a fresh scaffold passes every layer of the validator.
The last is not true of every value of the constants: the quotas hold for sizes at which the
shares are whole numbers, decontamination depends on the slice and the protected queries.  It is
checked on the instance's sizes and graphs.

## 5. What is left out, and why

Text algorithms have no states to explore.  Title matching, match keys, transliteration,
datamarking, prompt rendering and chunking appear as sets of titles, as a table of spellings
(`Keys`, `KeyOf`) or as spans.  HTTP clients and the parsers of Wikidata, TMDB, IMDb and
Wikipedia payloads are left out: a feed is what the stored snapshots say.  How the extraction
model is called is the set of proposals it left.

Serving: the metrics endpoint, replays and static files read files.  A history that outgrows
the model's context window is not modelled, nor the records of abandoned conversations that
the in-memory store keeps.  Rate limits are a choice of the environment (`RateLimited`),
because the window counters live in a library.  `Redis` is a store that answers or raises.
What a GPU session does on its box is success or failure, except in the finetune window; there
the payload's upload before anything is rented is left out, and training, resuming and merging
are one step that takes any time and may fail.

Evaluation: RAGAS and latency or token metrics, the validation of the judge against human
labels, retrieval metrics, the injection suite, threshold calibration and prompt locks.  They
are arithmetic or file checks on data nothing else changes meanwhile.

Not modelled at all: the serving benchmark's four steps and their merge (`merge_run` in
`jarvis.py`), the retrieval engine and its sealed runs, observability, settings (a frozen
record; `CHAT_AUTH` and the tokens are the constant `Auth`), the chat UI.

## 6. Plan

In this order; each module gets its run, its mutants and, where noted, theorems.

1. `ServingBenchmark`: the four steps of the sealed artifact, `merge_run` after a partial
   failure and re-runs; invariant: a step that is reported ok was captured by the run that
   reports it.
2. `ArtifactRun`: the retrieval run that is sealed, opened, verified and matched with database
   rows that may have moved on; rank fusion as an operator against its definition.
3. The contract layers of `ScaffoldsPass` as a theorem: all of the validator but the quotas and the
   decontamination, for every graph.
4. The Catalogue composed with the chat tools: a turn that reads the views while a review
   session commits.
