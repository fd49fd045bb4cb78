----------------------------- MODULE GpuSession -----------------------------
(***************************************************************************)
(* infra/gpu/jarvis.py: laptop processes that rent a GPU box, work on it   *)
(* and give it back.  A session (validate, extract, embed, judge, teacher, *)
(* finetune, serve) has one leg: startup script, box, work, destroy, script*)
(* cleanup; the serving benchmark has two.  nuke destroys every box that   *)
(* carries the tag.  The provider's API is external: a call may fail before*)
(* or after it took effect, and a process may be killed.                   *)
(***************************************************************************)
EXTENDS Integers, FiniteSets

CONSTANTS
    Singles,      \* sessions with one leg
    Benchmarks,   \* serving_benchmark_session: serve leg, then judge leg
    MaxBoxes,     \* bound on the boxes the provider ever creates
    MaxScripts    \* bound on the scripts it ever stores

ASSUME ProviderAssumption ==
    MaxBoxes \in Nat /\ MaxScripts \in Nat /\ Singles \cap Benchmarks = {}

Sessions == Singles \cup Benchmarks
Box == 1 .. MaxBoxes
Script == 1 .. MaxScripts
NoId == 0

VARIABLES
    boxes,      \* the boxes that are billing
    lastBox,    \* the newest box id given out
    scripts,    \* startup scripts stored under INSTANCE_NAME
    lastScript, \* the newest script id given out
    proc,       \* the sessions' processes
    overlapped, \* sessions that ran beside another one (history variable)
    nukeList    \* boxes a running nuke has still to destroy

vars == <<boxes, lastBox, scripts, lastScript, proc, overlapped, nukeList>>

\* excused: an API call that failed left the box running (history).
Rented == [owner : Sessions, script : Script \cup {NoId}, excused : BOOLEAN]
Running == DOMAIN boxes
Without(b) == [c \in Running \ {b} |-> boxes[c]]
Excusing(b) == [c \in Running |-> [boxes[c] EXCEPT !.excused = @ \/ c = b]]

PC == {"idle", "script", "pick", "create", "work", "destroy", "cleanup",
       "exit 0", "exit 1", "killed"}
Over == {"exit 0", "exit 1", "killed"}

Process ==
    [pc : PC,
     leg : 1 .. 2,
     instance : Box \cup {NoId},    \* the box it knows of
     added : Script \cup {NoId},    \* the script it added
     picked : Script \cup {NoId},   \* the script it found
     worked : SUBSET (1 .. 2),      \* legs whose work came out well
     destroyed : BOOLEAN]           \* ev.destroyed
Blank(at) == [pc |-> at, leg |-> 1, instance |-> NoId, added |-> NoId,
              picked |-> NoId, worked |-> {}, destroyed |-> FALSE]

Alive(s) == proc[s].pc \notin {"idle"} \cup Over
Legs(s) == IF s \in Benchmarks THEN 2 ELSE 1

TypeOK ==
    /\ lastBox \in 0 .. MaxBoxes /\ lastScript \in 0 .. MaxScripts
    /\ Running \subseteq 1 .. lastBox
    /\ boxes \in [Running -> Rented]
    /\ scripts \subseteq 1 .. lastScript
    /\ proc \in [Sessions -> Process]
    /\ overlapped \subseteq Sessions
    /\ nukeList \subseteq 1 .. lastBox

Init ==
    /\ boxes = [b \in {} |-> {}] /\ lastBox = 0
    /\ scripts = {} /\ lastScript = 0
    /\ proc = [s \in Sessions |-> Blank("idle")]
    /\ overlapped = {}
    /\ nukeList = {}

----------------------------------------------------------------------------
(* One leg. *)

At(s, pc) == proc[s].pc = pc
Goto(s, pc) == proc' = [proc EXCEPT ![s].pc = pc]

Begin(s) ==
    LET others == {q \in Sessions : Alive(q)}
    IN  /\ At(s, "idle")
        /\ Goto(s, "script")
        /\ overlapped' = IF others = {} THEN overlapped ELSE overlapped \cup others \cup {s}
        /\ UNCHANGED <<boxes, lastBox, scripts, lastScript, nukeList>>

\* client.scripts.add()
AddScript(s) ==
    /\ At(s, "script")
    /\ lastScript < MaxScripts
    /\ lastScript' = lastScript + 1
    /\ scripts' = scripts \cup {lastScript'}
    /\ proc' = [proc EXCEPT ![s].pc = "pick", ![s].added = lastScript']
    /\ UNCHANGED <<boxes, lastBox, overlapped, nukeList>>

\* Mutant: the first script of the name is taken.
FirstScript ==
    IF scripts = {} THEN NoId ELSE CHOOSE i \in scripts : \A j \in scripts : i <= j

\* max((s.script_id for s in client.scripts.list() if ...), default=None)
NewestScript ==
    IF scripts = {} THEN NoId ELSE CHOOSE i \in scripts : \A j \in scripts : j <= i

PickScript(s) ==
    /\ At(s, "pick")
    /\ proc' = [proc EXCEPT ![s].pc = "create", ![s].picked = NewestScript]
    /\ UNCHANGED <<boxes, lastBox, scripts, lastScript, overlapped, nukeList>>

\* The provider's part of client.instances.create().
NewBox(s, lost) ==
    /\ lastBox < MaxBoxes
    /\ lastBox' = lastBox + 1
    /\ boxes' = [c \in Running \cup {lastBox'} |->
                    IF c \in Running THEN boxes[c]
                    ELSE [owner |-> s, script |-> proc[s].picked, excused |-> lost]]
    /\ UNCHANGED <<scripts, lastScript, overlapped, nukeList>>

CreateReturns(s) ==
    /\ At(s, "create")
    /\ NewBox(s, FALSE)
    /\ proc' = [proc EXCEPT ![s].pc = "work", ![s].instance = lastBox']

\* The box exists, but the call that created it raised: machine_id stays None.
CreateLost(s) ==
    /\ At(s, "create")
    /\ NewBox(s, TRUE)
    /\ Goto(s, "destroy")

\* One of the three provider calls raised without effect.
CreateFails(s) ==
    /\ proc[s].pc \in {"script", "pick", "create"}
    /\ Goto(s, "destroy")
    /\ UNCHANGED <<boxes, lastBox, scripts, lastScript, overlapped, nukeList>>

\* The endpoint came up and the session's own work succeeded.
WorkSucceeds(s) ==
    /\ At(s, "work")
    /\ proc' = [proc EXCEPT ![s].pc = "destroy", ![s].worked = @ \cup {proc[s].leg}]
    /\ UNCHANGED <<boxes, lastBox, scripts, lastScript, overlapped, nukeList>>

\* Mutant: an endpoint that never became healthy returns past the teardown.
WorkFailsEarlyReturn(s) ==
    /\ At(s, "work")
    /\ Goto(s, "cleanup")
    /\ UNCHANGED <<boxes, lastBox, scripts, lastScript, overlapped, nukeList>>

\* It never became healthy, the smoke failed, or anything raised.
WorkFails(s) ==
    /\ At(s, "work")
    /\ Goto(s, "destroy")
    /\ UNCHANGED <<boxes, lastBox, scripts, lastScript, overlapped, nukeList>>

----------------------------------------------------------------------------
(* The `finally` block, and main()'s exit code. *)

\* What destroy() did to the session's box, and what it left in ev.destroyed.
Destroy(s, after, flag) ==
    /\ At(s, "destroy")
    /\ proc[s].instance # NoId
    /\ boxes' = after
    /\ proc' = [proc EXCEPT ![s].pc = "cleanup", ![s].destroyed = flag]
    /\ UNCHANGED <<lastBox, scripts, lastScript, overlapped, nukeList>>

\* create() never returned: nothing to destroy.
DestroySkipped(s) ==
    /\ At(s, "destroy")
    /\ proc[s].instance = NoId
    /\ Goto(s, "cleanup")
    /\ UNCHANGED <<boxes, lastBox, scripts, lastScript, overlapped, nukeList>>

\* True: the box was there and is gone.
DestroyReturns(s) ==
    /\ proc[s].instance \in Running
    /\ Destroy(s, Without(proc[s].instance), TRUE)

\* Mutant: the answer of destroy() is not looked at.
DestroyRefusedUnread(s) == Destroy(s, Excusing(proc[s].instance), TRUE)

\* False: the provider did not, or somebody else already had.
DestroyRefused(s) == Destroy(s, Excusing(proc[s].instance), FALSE)

\* It raised, before or after it took effect: ev.destroyed keeps its value.
DestroyRaises(s) ==
    \E after \in {Excusing(proc[s].instance), Without(proc[s].instance)} :
        Destroy(s, after, proc[s].destroyed)

\* remove_scripts(): every script of the name, or some before a call fails.
RemoveScripts ==
    /\ scripts' \in SUBSET scripts
    /\ UNCHANGED <<boxes, lastBox, lastScript, overlapped, nukeList>>

NextLeg(s) ==
    /\ At(s, "cleanup")
    /\ proc[s].leg < Legs(s)
    /\ RemoveScripts
    /\ proc' = [proc EXCEPT ![s].pc = "script", ![s].leg = @ + 1, ![s].instance = NoId,
                            ![s].added = NoId, ![s].picked = NoId]

\* `return 0 if ev.status == "up" and ev.destroyed else 1`
Success(s) == proc[s].worked = 1 .. Legs(s) /\ proc[s].destroyed

End(s) ==
    /\ At(s, "cleanup")
    /\ proc[s].leg = Legs(s)
    /\ RemoveScripts
    /\ proc' = [proc EXCEPT ![s] = Blank(IF Success(s) THEN "exit 0" ELSE "exit 1")]

\* The laptop dies, the terminal closes: no `finally` runs.
Kill(s) ==
    /\ Alive(s)
    /\ proc' = [proc EXCEPT ![s] = Blank("killed")]
    /\ UNCHANGED <<boxes, lastBox, scripts, lastScript, overlapped, nukeList>>

----------------------------------------------------------------------------
(* nuke() *)

\* Mutant: only the boxes that a session has on record.
OnRecord == {b \in Running : \E s \in Sessions : proc[s].instance = b}

\* list_instances(), filtered by name: live sessions' boxes too.
Tagged == Running

NukeLists ==
    /\ nukeList = {}
    /\ nukeList' = Tagged
    /\ UNCHANGED <<boxes, lastBox, scripts, lastScript, proc, overlapped>>

NukeDestroys(b) ==
    /\ b \in nukeList \cap Running
    /\ nukeList' = nukeList \ {b}
    /\ boxes' = Without(b)
    /\ UNCHANGED <<lastBox, scripts, lastScript, proc, overlapped>>

\* destroy() is False: on to the next one.
NukeRefused(b) ==
    /\ b \in nukeList
    /\ nukeList' = nukeList \ {b}
    /\ UNCHANGED <<boxes, lastBox, scripts, lastScript, proc, overlapped>>

\* destroy() raises out of the loop.
NukeRaises ==
    /\ nukeList # {}
    /\ nukeList' = {}
    /\ UNCHANGED <<boxes, lastBox, scripts, lastScript, proc, overlapped>>

Nuke == NukeLists \/ (\E b \in Box : NukeDestroys(b) \/ NukeRefused(b)) \/ NukeRaises

----------------------------------------------------------------------------

Step(s) ==
    \/ AddScript(s) \/ PickScript(s)
    \/ CreateReturns(s) \/ CreateLost(s) \/ CreateFails(s)
    \/ WorkSucceeds(s) \/ WorkFails(s)
    \/ DestroySkipped(s) \/ DestroyReturns(s) \/ DestroyRefused(s) \/ DestroyRaises(s)
    \/ NextLeg(s) \/ End(s)

Next == (\E s \in Sessions : Begin(s) \/ Step(s) \/ Kill(s)) \/ Nuke

Spec == Init /\ [][Next]_vars

\* The operator runs nuke again and again, and a box it keeps trying to destroy
\* gives in.
FairSpec ==
    /\ Spec
    /\ WF_vars(Nuke)
    /\ \A b \in Box : SF_vars(NukeDestroys(b))

----------------------------------------------------------------------------
(* Properties. *)

\* The teardown promise as far as it goes (jarvis.py 5-6, 297): a box that still
\* bills after its session exited is one that an API call failed on.
LeaksHaveACause ==
    \A b \in Running :
        proc[boxes[b].owner].pc \in {"exit 0", "exit 1"} => boxes[b].excused

NoBoxOf(s) == \A b \in Running : boxes[b].owner # s

\* The exit code of a one-leg session can be trusted: 0 means its box is gone,
\* whatever nuke and other sessions did meanwhile (jarvis.py 1673-1703).
CleanExit == \A s \in Singles : At(s, "exit 0") => NoBoxOf(s)

\* A box boots from the script its session wrote, past the scripts that killed
\* sessions left behind, as long as sessions do not overlap (jarvis.py 141-160).
BootsOwnScript ==
    \A s \in Sessions \ overlapped :
        proc[s].instance \in Running => boxes[proc[s].instance].script = proc[s].added

\* A box that no session will give back any more is reclaimed by nuke, known to a
\* session or not (jarvis.py 1646-1663).
LeaksReclaimed ==
    \A b \in Box :
        (b \in Running /\ proc[boxes[b].owner].pc \in Over) ~> b \notin Running

\* "a leaked billing GPU is a defect" (jarvis.py 1647), and main() exits 0 only if
\* ev.destroyed: so a benchmark that exits 0 has left no box of its own billing.
BenchmarkCleanExit == \A s \in Benchmarks : At(s, "exit 0") => NoBoxOf(s)
=============================================================================
