---------------------------- MODULE Conversation ----------------------------
(***************************************************************************)
(* What run_turn promises one conversation (orchestrator.py 13-17): a turn *)
(* either appends a complete exchange to the history and answers, or it    *)
(* leaves the history as it was, so that a retry replays cleanly.          *)
(***************************************************************************)
EXTENDS Transcript

VARIABLES running, history, outcome

Outcome == {"none", "answer", "aborted", "limit", "error"}

Init == running = FALSE /\ history = <<>> /\ outcome = "none"

Begin ==
    /\ ~running
    /\ running' = TRUE
    /\ outcome' = "none"
    /\ UNCHANGED history

Extends(longer, m) ==
    Len(longer) > Len(m) /\ \A i \in 1 .. Len(m) : longer[i] = m[i]

Answer ==
    /\ running
    /\ running' = FALSE
    /\ outcome' = "answer"
    /\ Extends(history', history)
    /\ IsHistory(history')

GiveUp ==
    /\ running' = FALSE
    /\ outcome' \in {"aborted", "limit", "error"}
    /\ running \/ outcome' = "limit"
    /\ UNCHANGED history

Next == Begin \/ Answer \/ GiveUp

Spec == Init /\ [][Next]_<<running, history, outcome>>
=============================================================================
