----------------------------- MODULE Transcript -----------------------------
(***************************************************************************)
(* Chat-completions transcripts: what the endpoint accepts as a prompt.    *)
(* A message keeps its role and one number: for an assistant message how   *)
(* many tool calls it makes (0: it is an answer), for a tool message which *)
(* of those calls it answers (its tool_call_id), for a user message 0.     *)
(***************************************************************************)
EXTENDS Integers, Sequences

Message == [role : {"user", "assistant", "tool"}, n : Nat]

User == [role |-> "user", n |-> 0]
Assistant(calls) == [role |-> "assistant", n |-> calls]
ToolResult(call) == [role |-> "tool", n |-> call]

IsAnswer(msg) == msg = Assistant(0)

\* A message that leaves nothing open, so that a user or assistant may follow.
ClosesCalls(m, i) ==
    /\ m[i].role = "tool"
    /\ i > m[i].n
    /\ m[i - m[i].n] = Assistant(m[i].n)

\* Every message follows one that allows it; in particular the k-th tool message
\* behind an assistant message answers its k-th call.
FollowsOn(m, i) ==
    CASE m[i].role = "user"      -> i = 1 \/ IsAnswer(m[i - 1])
      [] m[i].role = "assistant" -> i > 1 /\ (m[i - 1] = User \/ ClosesCalls(m, i - 1))
      [] m[i].role = "tool"      ->
            /\ m[i].n \in 1 .. i - 1
            /\ m[i - m[i].n].role = "assistant"
            /\ m[i - m[i].n].n >= m[i].n
            /\ \A k \in 1 .. m[i].n - 1 : m[i - m[i].n + k] = ToolResult(k)

WellFormed(m) == \A i \in 1 .. Len(m) : FollowsOn(m, i)

\* A prompt: nothing is open at its end and it is the model's turn to speak.
IsPrompt(m) ==
    WellFormed(m) /\ m # <<>> /\ (m[Len(m)] = User \/ ClosesCalls(m, Len(m)))

\* A history between turns: empty, or it ends with an answer.
IsHistory(m) == WellFormed(m) /\ (m = <<>> \/ IsAnswer(m[Len(m)]))
=============================================================================
