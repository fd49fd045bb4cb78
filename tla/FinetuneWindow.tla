--------------------------- MODULE FinetuneWindow ---------------------------
(***************************************************************************)
(* The one-time finetune window: the laptop (infra/gpu/jarvis.py,          *)
(* finetune_session) and the driver on the rented box                      *)
(* (finetune/gpu_window.py) take turns over marker files in a repository   *)
(* both can read.  In each of three phases the box loads a model and puts  *)
(* its UP marker, the laptop runs its tasks and puts its DONE marker.      *)
(* Either side may time out, fail or lose a call.  Time passes in units    *)
(* far longer than the 15 s between two polls.                             *)
(***************************************************************************)
EXTENDS WindowPhases

CONSTANTS
    Health,    \* health_timeout_s and wait_local_health's timeout
    Marker,    \* marker_timeout_s, on both sides
    Window,    \* window_timeout_s
    TaskTime   \* the longest a benchmark or the judging of one column takes

ASSUME TimingAssumption ==
    /\ Health \in Nat /\ Marker \in Nat /\ Window \in Nat /\ TaskTime \in Nat

\* What the box announces; the fourth is its wrapper's last word.
UpMarker(p) ==
    CASE p = 1 -> "BASE_UP" [] p = 2 -> "MERGED_UP" [] p = 3 -> "JUDGE_UP" [] OTHER -> "EXIT"
DoneMarker(p) ==
    CASE p = 1 -> "BASE_CAPTURED" [] p = 2 -> "QLORA_CAPTURED" [] OTHER -> "JUDGE_DONE"
Markers == {UpMarker(p) : p \in 1 .. 4} \cup {DoneMarker(p) : p \in Phase}

\* Mutant: every wait after the first gets window_timeout_s.
AwaitLimitLong(p) == CASE p = 1 -> Health + Marker [] OTHER -> Window

\* How long the laptop waits for UpMarker(p).
AwaitLimit(p) == CASE p = 1 -> Health + Marker [] p = 2 -> Window [] OTHER -> Marker

VARIABLES          \* epoch, of WindowPhases, is the phase the box's driver is in
    markers,       \* files under runs/<run_id>/
    box,           \* the driver's step and the time its wait() has taken
    served,        \* the phase whose model answers on :8000, 0 if none
    embed,         \* the embedder on :8001
    laptop,        \* the session's phase, its step and the time spent in it
    gaps,          \* the endpoints the running task has missed
    damaged,       \* tasks that ended well although they missed an endpoint
    rented,        \* the time since the box was created
    blame          \* what went wrong: "nobody", the box's "patience" with a laptop that
                   \* is still at work, or a "fault" outside the protocol (history)

vars == <<epoch, done, outcome, markers, box, served, embed, laptop, gaps, damaged,
          rented, blame>>

BoxStep == {"off", "prepare", "load", "announce", "wait", "exiting", "gone"}
LaptopStep == {"create", "await", "reach", "work", "put", "teardown", "over"}

TypeOK ==
    /\ epoch \in Phase /\ done \in 0 .. 6 /\ outcome \in {"open", "up", "error"}
    /\ markers \subseteq Markers
    /\ box \in [step : BoxStep, spent : Nat]
    /\ served \in {0, epoch}
    /\ embed \in {"off", "loading", "up"}
    /\ laptop \in [phase : 1 .. 4, step : LaptopStep, spent : Nat]
    /\ gaps \subseteq {"llm", "embed"}
    /\ damaged \subseteq 1 .. done
    /\ rented \in Nat
    /\ blame \in {"nobody", "patience", "fault"}

Init ==
    /\ PhasesInit
    /\ markers = {}
    /\ box = [step |-> "off", spent |-> 0]
    /\ served = 0 /\ embed = "off"
    /\ laptop = [phase |-> 1, step |-> "create", spent |-> 0]
    /\ gaps = {} /\ damaged = {}
    /\ rented = 0 /\ blame = "nobody"

At(s) == laptop.step = s
Driver(s) == box.step = s
DriverLives == box.step \in {"prepare", "load", "announce", "wait"}
Goto(s) == laptop' = [laptop EXCEPT !.step = s, !.spent = 0]
DriverGotoOneDeadline(s) == box' = [box EXCEPT !.step = s]   \* mutant: one deadline for all waits
DriverGoto(s) == box' = [step |-> s, spent |-> 0]

----------------------------------------------------------------------------
(* The box. *)

\* [1] pip install; [2] stop, train or resume, merge; [5] start the embedder:
\* none of it has a timeout.  Then `vllm serve`.
Prepared ==
    /\ Driver("prepare")
    /\ DriverGoto("load")
    /\ embed' = IF epoch = 3 THEN "loading" ELSE embed
    /\ UNCHANGED <<epoch, markers, served, blame>>

\* wait_local_health() saw a 200, and tools_selftest() for the first two models.
Loaded ==
    /\ Driver("load")
    /\ DriverGoto("announce")
    /\ served' = epoch
    /\ UNCHANGED <<epoch, markers, embed, blame>>

EmbedReady ==
    /\ embed = "loading" /\ embed' = "up"
    /\ UNCHANGED <<epoch, markers, box, served, blame>>

Announce ==
    /\ Driver("announce")
    /\ markers' = markers \cup {UpMarker(epoch)}
    /\ DriverGoto("wait")
    /\ UNCHANGED <<epoch, served, embed, blame>>

\* relay.wait(DoneMarker) returns; stop() takes the model down.
SeeDone ==
    /\ Driver("wait") /\ DoneMarker(epoch) \in markers
    /\ served' = 0
    /\ \/ /\ epoch < 3 /\ epoch' = epoch + 1
          /\ DriverGoto("prepare")
          /\ embed' = embed
       \/ /\ epoch = 3 /\ epoch' = epoch
          /\ DriverGoto("exiting")
          /\ embed' = "off"
    /\ UNCHANGED <<markers, blame>>

\* relay.wait() raises TimeoutError.  Nothing stops the servers it started.
GiveUp ==
    /\ Driver("wait") /\ box.spent = Marker /\ DoneMarker(epoch) \notin markers
    /\ DriverGoto("exiting")
    /\ blame' = IF blame = "nobody" THEN "patience" ELSE blame
    /\ UNCHANGED <<epoch, markers, served, embed>>

\* Any other exception: a relay call, a subprocess, the self-test, a server that
\* wait_local_health() gave up on.
DriverFails ==
    /\ DriverLives
    /\ DriverGoto("exiting")
    /\ blame' = "fault"
    /\ UNCHANGED <<epoch, markers, served, embed>>

\* The wrapper uploads EXIT; nothing catches that upload's own failure.
PutExit ==
    /\ Driver("exiting")
    /\ DriverGoto("gone")
    /\ \/ markers' = markers \cup {"EXIT"} /\ blame' = blame
       \/ markers' = markers /\ blame' = "fault"
    /\ UNCHANGED <<epoch, served, embed>>

\* A server, or the whole box, dies.
ServersDie ==
    /\ served # 0 \/ embed # "off"
    /\ \/ served' = 0 /\ embed' = embed
       \/ served' = served /\ embed' = "off"
    /\ blame' = "fault"
    /\ UNCHANGED <<epoch, markers, box>>

BoxDies ==
    /\ DriverLives \/ Driver("exiting")
    /\ DriverGoto("gone")
    /\ served' = 0 /\ embed' = "off" /\ blame' = "fault"
    /\ UNCHANGED <<epoch, markers>>

\* A running task misses what is down at some moment of it.
Missing(llm, emb) ==
    {e \in {"llm"} : llm # laptop.phase} \cup {e \in {"embed"} : laptop.phase = 3 /\ emb # "up"}

BoxNext ==
    /\ ~At("over")
    /\ \/ Prepared \/ Loaded \/ EmbedReady \/ Announce \/ SeeDone \/ GiveUp
       \/ DriverFails \/ PutExit \/ ServersDie \/ BoxDies
    /\ gaps' = IF At("work") THEN gaps \cup Missing(served', embed') ELSE gaps
    /\ UNCHANGED <<done, outcome, laptop, damaged, rented>>

----------------------------------------------------------------------------
(* The laptop. *)

boxVars == <<epoch, served, embed>>

Report(o) == outcome' = o /\ Goto("teardown")

\* create_instance() returns; the startup script runs on its own.
Create ==
    /\ At("create")
    /\ Goto("await")
    /\ DriverGoto("prepare")
    /\ UNCHANGED <<boxVars, done, outcome, markers, gaps, damaged, rented, blame>>

StartTask == Goto("work") /\ gaps' = Missing(served, embed)

\* Mutant: EXIT is taken for the marker.
SeeUpOrExit ==
    /\ At("await") /\ markers \cap {UpMarker(laptop.phase), "EXIT"} # {}
    /\ \/ laptop.phase = 1 /\ Goto("reach") /\ UNCHANGED <<outcome, gaps>>
       \/ laptop.phase \in {2, 3} /\ StartTask /\ outcome' = outcome
       \/ laptop.phase = 4 /\ Report("up") /\ gaps' = gaps
    /\ UNCHANGED <<boxVars, box, done, markers, damaged, rented, blame>>

\* wait_marker() returns True.  After EXIT the outputs are pulled; its exit code
\* is not read.
SeeUp ==
    /\ At("await") /\ UpMarker(laptop.phase) \in markers
    /\ \/ laptop.phase = 1 /\ Goto("reach") /\ UNCHANGED <<outcome, gaps>>
       \/ laptop.phase \in {2, 3} /\ StartTask /\ outcome' = outcome
       \/ laptop.phase = 4 /\ Report("up") /\ gaps' = gaps
    /\ UNCHANGED <<boxVars, box, done, markers, damaged, rented, blame>>

\* wait_marker() returns False: EXIT is there first, or the deadline has passed.
\* The deadline is the box's fault unless the box is itself waiting for the laptop.
SeeExit ==
    /\ At("await") /\ UpMarker(laptop.phase) \notin markers
    /\ \/ "EXIT" \in markers /\ blame' = blame
       \/ /\ laptop.spent = AwaitLimit(laptop.phase)
          /\ blame' = IF Driver("wait") /\ DoneMarker(epoch) \notin markers THEN blame ELSE "fault"
    /\ Report("error")
    /\ UNCHANGED <<boxVars, box, done, markers, gaps, damaged, rented>>

\* _wait_for_endpoint()
Reach ==
    /\ At("reach")
    /\ \/ served # 0 /\ StartTask /\ UNCHANGED <<outcome, blame>>
       \/ laptop.spent = Health /\ Report("error") /\ blame' = "fault" /\ gaps' = gaps
    /\ UNCHANGED <<boxVars, box, done, markers, damaged, rented>>

\* Mutant: the phase's marker is put before its last task.
FinishTaskEarlyPut ==
    /\ At("work")
    /\ done' = done + 1
    /\ IF done' < LastTask(laptop.phase)
       THEN /\ markers' = markers \cup {DoneMarker(laptop.phase)}
            /\ StartTask
       ELSE Goto("put") /\ gaps' = {} /\ markers' = markers
    /\ damaged' = damaged
    /\ UNCHANGED <<boxVars, box, outcome, rented, blame>>

\* A benchmark or judge subprocess exits 0.  Failed requests are recorded in its
\* artifact, not raised; a benchmark that completed nothing exits 4 (LaptopFails).
FinishTask ==
    /\ At("work")
    /\ done' = done + 1
    /\ \/ /\ "llm" \notin gaps /\ ("embed" \in gaps => embed = "up")
          /\ damaged' = damaged
       \/ gaps # {} /\ damaged' = damaged \cup {done'}
    /\ IF done' < LastTask(laptop.phase) THEN StartTask ELSE Goto("put") /\ gaps' = {}
    /\ UNCHANGED <<boxVars, box, outcome, markers, rented, blame>>

\* Mutant: the marker is written to disk and not uploaded.
PutDoneLocally ==
    /\ At("put")
    /\ laptop' = [phase |-> laptop.phase + 1, step |-> "await", spent |-> 0]
    /\ UNCHANGED <<boxVars, box, done, outcome, markers, gaps, damaged, rented, blame>>

PutDone ==
    /\ At("put")
    /\ markers' = markers \cup {DoneMarker(laptop.phase)}
    /\ laptop' = [phase |-> laptop.phase + 1, step |-> "await", spent |-> 0]
    /\ UNCHANGED <<boxVars, box, done, outcome, gaps, damaged, rented, blame>>

\* An exception anywhere in the try block, or a subprocess that exits nonzero.
LaptopFails ==
    /\ laptop.step \in {"create", "await", "reach", "work", "put"}
    /\ Report("error")
    /\ blame' = "fault"
    /\ UNCHANGED <<boxVars, box, done, markers, gaps, damaged, rented>>

\* finally: the box is destroyed (module GpuSession models what can go wrong).
Teardown ==
    /\ At("teardown")
    /\ Goto("over")
    /\ served' = 0 /\ embed' = "off"
    /\ DriverGoto("gone")
    /\ UNCHANGED <<epoch, done, outcome, markers, gaps, damaged, rented, blame>>

LaptopMoves ==
    Create \/ SeeUp \/ SeeExit \/ Reach \/ FinishTask \/ PutDone \/ Teardown

----------------------------------------------------------------------------

LaptopLimit ==
    CASE At("await") -> AwaitLimit(laptop.phase)
      [] At("reach") -> Health
      [] At("work") -> TaskTime
      [] OTHER -> 0

\* The laptop notices a marker and a deadline within one unit; nothing forces the
\* box to, except that it does not give up before its own deadline.
Tick ==
    /\ laptop.spent < LaptopLimit
    /\ ~(At("await") /\ markers \cap {UpMarker(laptop.phase), "EXIT"} # {})
    /\ laptop' = [laptop EXCEPT !.spent = @ + 1]
    /\ box' = [box EXCEPT !.spent =
                   IF Driver("wait") /\ box.spent < Marker THEN @ + 1 ELSE @]
    /\ rented' = rented + 1
    /\ UNCHANGED <<boxVars, done, outcome, markers, gaps, damaged, blame>>

Next == BoxNext \/ LaptopMoves \/ LaptopFails \/ Tick

Spec == Init /\ [][Next]_vars
FairSpec == Spec /\ WF_vars(LaptopMoves) /\ WF_vars(Tick)

----------------------------------------------------------------------------

\* The box never takes a model down, and never loads another, while the laptop's
\* benchmark or judge pass still runs against it (gpu_window.py 200-203, 312-315,
\* 335-339), unless its driver has ended.
NoSwapUnderWork ==
    At("work") /\ DriverLives => Driver("wait") /\ epoch = laptop.phase

\* The two sides never wait for each other: a cycle that the timeouts would only
\* dissolve after hours of rent.
NoMutualWait ==
    ~ /\ Driver("wait") /\ DoneMarker(epoch) \notin markers
      /\ At("await") /\ UpMarker(laptop.phase) \notin markers

\* Every wait and every task is bounded, so the rent is, whatever the box does
\* (jarvis.py 1092-1202).
LongestWindow == (Health + Marker) + Health + TaskTime + Window + 2 * TaskTime
                 + Marker + 3 * TaskTime + Marker
RentBounded == rented <= LongestWindow

\* Only a fault, or a box that loses its patience, can cost the window or put a hole into
\* a captured column; and a box loses it only in a phase that may take the laptop as long
\* as the markers' timeout: the wait for the endpoint and one benchmark in the first, two
\* benchmarks in the second, the judging of three columns in the third (jarvis.py
\* 1113-1207, gpu_window.py 93-99).
Short(p) ==
    CASE p = 1 -> Health + TaskTime < Marker
      [] p = 2 -> 2 * TaskTime < Marker
      [] OTHER -> 3 * TaskTime < Marker
NoFaultNoLoss ==
    /\ blame = "nobody" => outcome # "error" /\ damaged \cap 1 .. 3 = {}
    /\ blame = "patience" => ~ Short(epoch)

\* The tasks run in order, each under its own model, and the window ends.
RunsInPhases == PhasesSpec

\* gpu_window.py 13: at JUDGE_DONE "both columns re-judged + RAGAS'd".
DoneMeansScored ==
    "JUDGE_DONE" \in markers /\ blame = "nobody" => damaged = {}
=============================================================================
