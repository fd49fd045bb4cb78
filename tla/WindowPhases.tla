---------------------------- MODULE WindowPhases ----------------------------
(***************************************************************************)
(* What a finetune window promises (infra/gpu/jarvis.py finetune_session): *)
(* one GPU serves three models one after the other, and six tasks run in   *)
(* order, each while its own model has the GPU.  The window reports "up"   *)
(* only after the last task, may stop with "error" at any point, and ends. *)
(***************************************************************************)
EXTENDS Naturals

Phase == 1 .. 3      \* the base model, the merged model, the judge
Task == 1 .. 6       \* base; qlora, qlora_no_exemplars; the three columns judged

\* The last task of each phase.
LastTask(p) == CASE p = 1 -> 1 [] p = 2 -> 3 [] OTHER -> 6

PhaseOf(t) == IF t <= 1 THEN 1 ELSE IF t <= 3 THEN 2 ELSE 3

VARIABLES
    epoch,     \* the phase whose model has the GPU
    done,      \* the number of tasks finished
    outcome    \* "open", then what the window reported

phaseVars == <<epoch, done, outcome>>

PhasesInit == epoch = 1 /\ done = 0 /\ outcome = "open"

\* The GPU changes hands only between the last task of one model and the
\* first of the next.
Switch ==
    /\ epoch < 3 /\ done = LastTask(epoch)
    /\ epoch' = epoch + 1
    /\ UNCHANGED <<done, outcome>>

DoTask ==
    /\ outcome = "open" /\ done < 6 /\ PhaseOf(done + 1) = epoch
    /\ done' = done + 1
    /\ UNCHANGED <<epoch, outcome>>

Close ==
    /\ outcome = "open"
    /\ outcome' \in {"error"} \cup {o \in {"up"} : done = 6}
    /\ UNCHANGED <<epoch, done>>

PhasesNext == Switch \/ DoTask \/ Close
PhasesSafety == PhasesInit /\ [][PhasesNext]_phaseVars
PhasesSpec == PhasesSafety /\ WF_phaseVars(Close)
=============================================================================
