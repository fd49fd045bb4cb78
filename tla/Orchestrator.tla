---------------------------- MODULE Orchestrator ----------------------------
(***************************************************************************)
(* serving/orchestrator.py, run_turn: the turns of one conversation, one   *)
(* after the other.  A turn alternates model calls and tool calls for at   *)
(* most MaxRounds rounds; the answer passes the output gate and only then  *)
(* is the history written.                                                 *)
(* Titles stand for films and for their versions; the model, the database  *)
(* and the retriever are the environment.                                  *)
(***************************************************************************)
EXTENDS Transcript, FiniteSets

CONSTANTS
    Titles,      \* films a tool can return or the model can name
    Lookalikes,  \* pairs of titles whose match_key ratio is at least MATCH_THRESHOLD
    MaxRounds,   \* MAX_TOOL_ROUNDS
    MaxTurns,    \* MAX_TURNS
    MaxCalls     \* bound on the tool calls of one assistant message

ASSUME RoundsAssumption ==
    MaxRounds \in Nat \ {0} /\ MaxTurns \in Nat /\ MaxCalls \in Nat \ {0}

ASSUME LookalikesAssumption == Lookalikes \subseteq SUBSET Titles

VARIABLES
    history,     \* state.messages as stored
    turns,       \* state.turn_count as stored
    phase,       \* where run_turn is
    round,       \* _round
    transcript,  \* messages[1:]: the history plus the running turn
    open,        \* tool calls of the last assistant message still to handle
    toolTitles,  \* tool_titles: films the tools returned in this turn
    sourced,     \* _VersionTracker.entries that carry sources
    surfaced,    \* _VersionTracker.current
    steps,       \* tool_call_count, the length of trace
    said,        \* films the answer names, and how
    reply,       \* the last ChatResponse or failure
    grounded     \* films the tools returned in the turns served so far (history variable)

vars == <<history, turns, phase, round, transcript, open, toolTitles, sourced,
          surfaced, steps, said, reply, grounded>>
trackers == <<toolTitles, sourced, surfaced>>
kept == <<history, turns, grounded>>    \* what only a served turn changes

\* How an answer names films: marked as the prompt asks, in bold or with a year, or in
\* plain prose.  The same film may occur both ways.
Naming == [marked : SUBSET Titles, plain : SUBSET Titles]
Silence == [marked |-> {}, plain |-> {}]

Reply == [kind : {"none", "answer", "aborted", "limit", "error"},
          named : Naming,             \* films named without a flag
          flagged : SUBSET Titles,    \* films flagged as unverified
          versions : SUBSET Titles,   \* versions[]
          cited : SUBSET Titles,      \* citations[]
          steps : Nat]                \* tool_calls
Failure(kind) == [kind |-> kind, named |-> Silence, flagged |-> {}, versions |-> {},
                  cited |-> {}, steps |-> 0]

\* The types, and the rounds: a turn makes at most MaxRounds model calls.
TypeOK ==
    /\ history \in Seq(Message) /\ transcript \in Seq(Message)
    /\ turns \in 0 .. MaxTurns
    /\ phase \in {"idle", "chat", "tools", "gate"}
    /\ round \in 0 .. MaxRounds - 1
    /\ open \in 0 .. MaxCalls
    /\ toolTitles \subseteq Titles
    /\ sourced \subseteq Titles
    /\ surfaced \subseteq Titles
    /\ steps \in Nat
    /\ said \in Naming
    /\ reply \in Reply
    /\ grounded \subseteq Titles

Init ==
    /\ history = <<>> /\ turns = 0 /\ grounded = {}
    /\ phase = "idle" /\ round = 0 /\ transcript = <<>> /\ open = 0
    /\ toolTitles = {} /\ sourced = {} /\ surfaced = {} /\ steps = 0 /\ said = Silence
    /\ reply = Failure("none")

----------------------------------------------------------------------------
(* The turn and its model calls. *)

\* Mutant: one _VersionTracker for all turns of the orchestrator.
TrackersShared(rep) ==
    /\ phase' = "idle"
    /\ reply' = rep
    /\ round' = 0 /\ transcript' = <<>> /\ open' = 0
    /\ toolTitles' = {} /\ steps' = 0 /\ said' = Silence
    /\ UNCHANGED <<sourced, surfaced>>

\* run_turn is over: its locals are gone.
EndTurn(rep) ==
    /\ phase' = "idle"
    /\ reply' = rep
    /\ round' = 0 /\ transcript' = <<>> /\ open' = 0
    /\ toolTitles' = {} /\ sourced' = {} /\ surfaced' = {} /\ steps' = 0 /\ said' = Silence

\* Mutant: an aborted turn's messages are stored.
AbortSaves(kind) ==
    /\ EndTurn(Failure(kind))
    /\ history' = transcript
    /\ UNCHANGED <<turns, grounded>>

GiveUp(kind) == EndTurn(Failure(kind)) /\ UNCHANGED kept

\* check_limits: the turn cap (an oversized message is refused the same way).
Refuse ==
    /\ phase = "idle"
    /\ turns >= MaxTurns
    /\ GiveUp("limit")

\* messages = [system, *state.messages, user].
StartTurn ==
    /\ phase = "idle"
    /\ turns < MaxTurns
    /\ phase' = "chat"
    /\ transcript' = Append(history, User)
    /\ reply' = Failure("none")
    /\ UNCHANGED <<kept, trackers, round, open, steps, said>>

\* result.status is not "up", or the message has neither tool calls nor content.
ModelFails == phase = "chat" /\ GiveUp("aborted")

ModelAnswers(naming) ==
    /\ phase = "chat"
    /\ phase' = "gate"
    /\ transcript' = Append(transcript, Assistant(0))
    /\ said' = naming
    /\ UNCHANGED <<kept, trackers, round, open, steps, reply>>

ModelCalls(n) ==
    /\ phase = "chat"
    /\ phase' = "tools"
    /\ transcript' = Append(transcript, Assistant(n))
    /\ open' = n
    /\ UNCHANGED <<kept, trackers, round, steps, said, reply>>

----------------------------------------------------------------------------
(* The next call of the last assistant message.                            *)

\* call.id: its place among that message's calls.
CallId ==
    LET last == transcript[Len(transcript)]
    IN  IF last.role = "tool" THEN last.n + 1 ELSE 1

\* Traced and answered by a tool message, whatever came of it.
Handle ==
    /\ phase = "tools"
    /\ open > 0
    /\ open' = open - 1
    /\ steps' = steps + 1
    /\ transcript' = Append(transcript, ToolResult(CallId))
    /\ UNCHANGED <<kept, phase, round, said, reply>>

\* Mutant: an invalid call is skipped without an answer.
SkipsInvalidCall ==
    /\ phase = "tools" /\ open > 0
    /\ open' = open - 1
    /\ steps' = steps + 1
    /\ UNCHANGED <<kept, trackers, transcript, phase, round, said, reply>>

\* Mutant: a failed call leaves no trace step.
FailureUntraced ==
    /\ phase = "tools" /\ open > 0
    /\ open' = open - 1
    /\ transcript' = Append(transcript, ToolResult(CallId))
    /\ UNCHANGED <<kept, trackers, steps, phase, round, said, reply>>

\* Mutant: after an invalid call the model is asked again, at no cost in rounds.
AsksAgain ==
    /\ phase = "tools" /\ open > 0
    /\ open' = 0
    /\ phase' = "chat"
    /\ transcript' = SubSeq(transcript, 1, Len(transcript) - CallId)
    /\ UNCHANGED <<kept, trackers, steps, round, said, reply>>

\* A call that does not validate, or whose tool reports a ToolExecutionError: the
\* payload is the error, and no title or version is taken from it.
CallFails == Handle /\ UNCHANGED trackers

\* get_versions: every entry comes with its sources and is surfaced.
CallGetVersions(films) ==
    /\ Handle
    /\ toolTitles' = toolTitles \cup films
    /\ sourced' = sourced \cup films
    /\ surfaced' = films

\* refine_filter: surfaces its versions; those not seen in this turn have no sources.
CallRefineFilter(films) ==
    /\ Handle
    /\ toolTitles' = toolTitles \cup films
    /\ surfaced' = films
    /\ UNCHANGED sourced

\* resolve_title, get_work, search_by_plot: their titles ground, nothing is surfaced.
CallLookup(films) ==
    /\ Handle
    /\ toolTitles' = toolTitles \cup films
    /\ UNCHANGED <<sourced, surfaced>>

\* The database fails under the tool: the exception leaves run_turn.
CallRaises == phase = "tools" /\ open > 0 /\ GiveUp("error")

NextRound ==
    /\ phase = "tools" /\ open = 0
    /\ round + 1 < MaxRounds
    /\ round' = round + 1
    /\ phase' = "chat"
    /\ UNCHANGED <<kept, trackers, transcript, open, steps, said, reply>>

\* answer is None after the loop.
RoundsExhausted ==
    /\ phase = "tools" /\ open = 0
    /\ round + 1 >= MaxRounds
    /\ GiveUp("aborted")

\* Some title of the set has the same match_key, or one that is near enough.
Grounds(films, t) == \E u \in films : u = t \/ {u, t} \in Lookalikes

\* detect_hallucinated_movies sees marked titles only: a film that is only named in
\* plain prose is out of its reach.
Inventions == {t \in said.marked : ~Grounds(toolTitles, t)}

\* output_gate flags the inventions wherever the answer names them; the state is saved;
\* the response cites the surfaced versions that have sources.
Finish ==
    /\ phase = "gate"
    /\ EndTurn([kind |-> "answer",
                named |-> [marked |-> said.marked \ Inventions,
                           plain |-> said.plain \ Inventions],
                flagged |-> Inventions,
                versions |-> surfaced,
                cited |-> surfaced \cap sourced,
                steps |-> steps])
    /\ history' = transcript
    /\ turns' = turns + 1
    /\ grounded' = grounded \cup toolTitles

CallReturns(films) ==
    CallGetVersions(films) \/ CallRefineFilter(films) \/ CallLookup(films)

TurnStep ==
    \/ ModelFails
    \/ \E naming \in Naming : ModelAnswers(naming)
    \/ \E n \in 1 .. MaxCalls : ModelCalls(n)
    \/ CallFails
    \/ \E films \in SUBSET Titles : CallReturns(films)
    \/ CallRaises
    \/ NextRound
    \/ RoundsExhausted
    \/ Finish

Next == Refuse \/ StartTurn \/ TurnStep

Spec == Init /\ [][Next]_vars

\* A running turn goes on: chat, the tools and the gate return or raise in bounded
\* time.  Nobody has to start another turn.
FairSpec == Spec /\ WF_vars(TurnStep)

----------------------------------------------------------------------------
(* Properties.                                                             *)

\* The model is only ever sent a prompt the endpoint accepts, and only a complete
\* exchange is stored: each tool call has its answer, in order, before the model or
\* the user speaks again, through failed calls and rounds of several calls.
PromptsWellFormed ==
    /\ phase = "chat" => IsPrompt(transcript)
    /\ IsHistory(history)

\* Messages of the history's last turn.
LastTurn(m) ==
    {i \in 1 .. Len(m) : \A j \in i + 1 .. Len(m) : m[j].role # "user"}

\* The trace of an answer has one step for each tool message it put in the history.
TraceMatchesHistory ==
    reply.kind = "answer" =>
        reply.steps = Cardinality({i \in LastTurn(history) : history[i].role = "tool"})

\* A film the answer asserts as the prompt asks, in bold or with a year, reaches the
\* user unflagged only if a tool of some served turn returned it or a look-alike
\* (guardrails.py 222-262); plain prose is not promised (evals/generation.py 26-28).
\* A version card is a film some tool of a served turn returned, never one an aborted
\* turn left behind, and a citation's version is a card.
NothingInvented ==
    /\ \A t \in reply.named.marked : Grounds(grounded, t)
    /\ reply.versions \subseteq grounded
    /\ reply.cited \subseteq reply.versions

\* The loop is bounded, so every turn comes to an end.
TurnEnds == (phase # "idle") ~> (phase = "idle")

\* Seen from outside a turn answers with a longer history or leaves it alone.
Abstract == INSTANCE Conversation WITH running <- phase # "idle", outcome <- reply.kind
Commits == Abstract!Spec
=============================================================================
