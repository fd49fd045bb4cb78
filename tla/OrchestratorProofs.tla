------------------------- MODULE OrchestratorProofs -------------------------
(***************************************************************************)
(* For any set of films and any bounds on rounds, turns and calls: prompts *)
(* and histories are well formed, a turn is all or nothing, what reaches   *)
(* the user comes from a tool, and the trace counts the tool messages.     *)
(***************************************************************************)
EXTENDS Orchestrator, FiniteSetTheorems, TLAPS

-----------------------------------------------------------------------------
(* Transcripts.                                                            *)

LEMMA Appended ==
  ASSUME NEW m \in Seq(Message), NEW x \in Message
  PROVE  /\ Append(m, x) \in Seq(Message) /\ Append(m, x) # <<>>
         /\ Len(m) \in Nat /\ Len(Append(m, x)) = Len(m) + 1
         /\ \A i \in 1 .. Len(m) : Append(m, x)[i] = m[i] /\ m[i] \in Message
         /\ Append(m, x)[Len(m) + 1] = x
  OBVIOUS

LEMMA MessageTypes ==
  /\ User \in Message /\ \A n \in Nat : Assistant(n) \in Message /\ ToolResult(n) \in Message
  BY DEF User, Assistant, ToolResult, Message

\* Whether a message may stand where it stands depends on those before it alone.
LEMMA FollowsStays ==
  ASSUME NEW m \in Seq(Message), NEW x \in Message, NEW i \in 1 .. Len(m), FollowsOn(m, i)
  PROVE  FollowsOn(Append(m, x), i)
  <1> DEFINE a == Append(m, x)
  <1>1. \A j \in 1 .. Len(m) : a[j] = m[j] /\ m[j] \in Message
    BY Appended
  <1>2. Len(m) \in Nat /\ i \in Nat /\ m[i].n \in Nat /\ m[i] \in Message /\ a[i] = m[i]
    BY <1>1, Appended DEF Message
  <1>3. CASE m[i].role = "user"
    BY <1>1, <1>2, <1>3 DEF FollowsOn, IsAnswer
  <1>4. CASE m[i].role = "assistant"
    <2>1. i > 1 /\ (m[i - 1] = User \/ ClosesCalls(m, i - 1))
      BY <1>4 DEF FollowsOn
    <2>2. i - 1 \in 1 .. Len(m) /\ a[i - 1] = m[i - 1]
      BY <1>1, <1>2, <2>1
    <2>3. ClosesCalls(m, i - 1) => ClosesCalls(a, i - 1)
      <3> SUFFICES ASSUME ClosesCalls(m, i - 1) PROVE ClosesCalls(a, i - 1)
        OBVIOUS
      <3>1. m[i - 1].n \in Nat
        BY <1>1, <2>2 DEF Message
      <3>2. i - 1 - m[i - 1].n \in 1 .. Len(m)
        BY <1>2, <2>2, <3>1 DEF ClosesCalls
      <3>3. QED
        BY <1>1, <2>2, <3>2 DEF ClosesCalls
    <2>4. QED
      BY <1>2, <1>4, <2>1, <2>2, <2>3 DEF FollowsOn
  <1>5. CASE m[i].role = "tool"
    <2>1. /\ m[i].n \in 1 .. i - 1
          /\ m[i - m[i].n].role = "assistant" /\ m[i - m[i].n].n >= m[i].n
          /\ \A k \in 1 .. m[i].n - 1 : m[i - m[i].n + k] = ToolResult(k)
      BY <1>5 DEF FollowsOn
    <2>2. a[i - m[i].n] = m[i - m[i].n]
      BY <1>1, <1>2, <2>1
    <2>3. \A k \in 1 .. m[i].n - 1 : a[i - m[i].n + k] = m[i - m[i].n + k]
      BY <1>1, <1>2, <2>1
    <2>4. QED
      BY <1>2, <1>5, <2>1, <2>2, <2>3 DEF FollowsOn
  <1>6. QED
    BY <1>2, <1>3, <1>4, <1>5 DEF Message

LEMMA WellFormedAppend ==
  ASSUME NEW m \in Seq(Message), NEW x \in Message, WellFormed(m),
         FollowsOn(Append(m, x), Len(m) + 1)
  PROVE  WellFormed(Append(m, x))
  BY FollowsStays, Appended DEF WellFormed

\* What each role has to find in front of it.
LEMMA UserFollows ==
  ASSUME NEW m, NEW i, m[i].role = "user", i = 1 \/ IsAnswer(m[i - 1])
  PROVE  FollowsOn(m, i)
  BY DEF FollowsOn

LEMMA SpeakerFollows ==
  ASSUME NEW m, NEW i, m[i].role = "assistant", i > 1,
         m[i - 1] = User \/ ClosesCalls(m, i - 1)
  PROVE  FollowsOn(m, i)
  BY DEF FollowsOn

LEMMA ResultFollows ==
  ASSUME NEW m, NEW i, m[i].role = "tool", m[i].n \in 1 .. i - 1,
         m[i - m[i].n].role = "assistant", m[i - m[i].n].n >= m[i].n,
         \A k \in 1 .. m[i].n - 1 : m[i - m[i].n + k] = ToolResult(k)
  PROVE  FollowsOn(m, i)
  BY DEF FollowsOn

LEMMA ClosesStays ==
  ASSUME NEW m \in Seq(Message), NEW x \in Message, m # <<>>, ClosesCalls(m, Len(m))
  PROVE  ClosesCalls(Append(m, x), Len(m))
  <1>1. Len(m) \in 1 .. Len(m) /\ m[Len(m)].n \in Nat
    <2>1. Len(m) \in 1 .. Len(m)
      OBVIOUS
    <2>2. m[Len(m)] \in Message
      BY <2>1
    <2>3. QED
      BY <2>1, <2>2 DEF Message
  <1>2. Len(m) - m[Len(m)].n \in 1 .. Len(m)
    BY <1>1 DEF ClosesCalls
  <1>3. QED
    BY <1>1, <1>2, Appended DEF ClosesCalls

-----------------------------------------------------------------------------
(* The invariant.                                                          *)

\* A running turn's messages m behind the history h: the user's, then others.
TurnOf(h, m) ==
    /\ WellFormed(m)
    /\ Len(m) > Len(h)
    /\ \A i \in 1 .. Len(h) : m[i] = h[i]
    /\ m[Len(h) + 1] = User
    /\ \A i \in Len(h) + 2 .. Len(m) : m[i].role # "user"

\* The last assistant message made k calls that are answered and n that are open.
Answered(m, k, n) ==
    /\ k + n >= 1
    /\ m[Len(m) - k] = Assistant(k + n)
    /\ \A j \in 1 .. k : m[Len(m) - k + j] = ToolResult(j)

ToolMessages(h, m) == {i \in Len(h) + 1 .. Len(m) : m[i].role = "tool"}

TurnInv ==
    /\ IsHistory(history)
    /\ phase # "idle" => TurnOf(history, transcript)
    /\ phase = "chat" => IsPrompt(transcript)
    /\ phase = "tools" =>
           \E k \in 0 .. Len(transcript) - 1 : Answered(transcript, k, open)
    /\ phase = "gate" => IsAnswer(transcript[Len(transcript)])

StepsInv ==
    phase # "idle" =>
        /\ IsFiniteSet(ToolMessages(history, transcript))
        /\ steps = Cardinality(ToolMessages(history, transcript))

PhaseInv == IF phase = "idle" THEN steps = 0 ELSE turns < MaxTurns

IInv ==
    /\ TypeOK /\ TurnInv /\ StepsInv /\ PhaseInv
    /\ surfaced \subseteq toolTitles /\ NothingInvented /\ TraceMatchesHistory

\* A failure names no film.
LEMMA FailureIs ==
  ASSUME NEW kind \in {"none", "aborted", "limit", "error"}
  PROVE  /\ Failure(kind) \in Reply /\ Failure(kind).kind = kind
         /\ Failure(kind).named.marked = {}
         /\ Failure(kind).versions = {} /\ Failure(kind).cited = {}
  <1>1. Silence \in Naming /\ Silence.marked = {}
    BY DEF Silence, Naming
  <1>2. QED
    BY <1>1 DEF Failure, Reply

\* More titles ground no less.
LEMMA GroundsMore ==
  ASSUME NEW few, NEW many, few \subseteq many, NEW t, Grounds(few, t)
  PROVE  Grounds(many, t)
  BY DEF Grounds

LEMMA InitIInv == Init => IInv
  <1> SUFFICES ASSUME Init PROVE IInv
    OBVIOUS
  <1> USE DEF Init
  <1>1. TypeOK
    BY RoundsAssumption, FailureIs DEF TypeOK, Silence, Naming
  <1>2. TurnInv
    BY DEF TurnInv, IsHistory, WellFormed
  <1>3. StepsInv /\ PhaseInv /\ surfaced \subseteq toolTitles
    BY DEF StepsInv, PhaseInv
  <1>4. NothingInvented /\ TraceMatchesHistory
    BY FailureIs DEF NothingInvented, TraceMatchesHistory
  <1>5. QED
    BY <1>1, <1>2, <1>3, <1>4 DEF IInv

-----------------------------------------------------------------------------
(* What a message does to a running turn.                                  *)

LEMMA TurnStarts ==
  ASSUME NEW h \in Seq(Message), IsHistory(h)
  PROVE  /\ TurnOf(h, Append(h, User)) /\ IsPrompt(Append(h, User))
         /\ ToolMessages(h, Append(h, User)) = {}
  <1> DEFINE a == Append(h, User)
  <1>1. /\ a \in Seq(Message) /\ a # <<>> /\ Len(h) \in Nat /\ Len(a) = Len(h) + 1
        /\ \A i \in 1 .. Len(h) : a[i] = h[i]
        /\ a[Len(h) + 1] = User
    BY Appended, MessageTypes
  <1>0. a[Len(h) + 1].role = "user"
    BY <1>1 DEF User
  <1>2. FollowsOn(a, Len(h) + 1)
    <2>1. h = <<>> \/ IsAnswer(h[Len(h)])
      BY DEF IsHistory
    <2>2. CASE h = <<>>
      BY <1>0, <1>1, <2>2, UserFollows
    <2>3. CASE h # <<>> /\ IsAnswer(h[Len(h)])
      <3>1. a[(Len(h) + 1) - 1] = h[Len(h)]
        BY <1>1, <2>3
      <3>2. IsAnswer(a[(Len(h) + 1) - 1])
        BY <2>3, <3>1
      <3> DEFINE i == Len(h) + 1
      <3>3. a[i].role = "user" /\ IsAnswer(a[i - 1])
        BY <1>0, <3>2
      <3> HIDE DEF a, i
      <3>4. FollowsOn(a, i)
        BY <3>3, UserFollows
      <3>5. QED
        BY <3>4 DEF i
    <2>4. QED
      BY <2>1, <2>2, <2>3
  <1>3. WellFormed(a)
    BY <1>2, WellFormedAppend, MessageTypes DEF IsHistory
  <1>4. TurnOf(h, a)
    BY <1>1, <1>3 DEF TurnOf
  <1>5. IsPrompt(a)
    BY <1>1, <1>3 DEF IsPrompt
  <1>6. ToolMessages(h, a) = {}
    BY <1>1 DEF ToolMessages, User
  <1>7. QED
    BY <1>4, <1>5, <1>6

LEMMA TurnGrows ==
  ASSUME NEW h \in Seq(Message), NEW m \in Seq(Message), TurnOf(h, m),
         NEW x \in Message, x.role # "user", FollowsOn(Append(m, x), Len(m) + 1)
  PROVE  TurnOf(h, Append(m, x))
  <1>1. Len(h) \in Nat /\ Len(m) \in Nat /\ Len(m) > Len(h)
    BY DEF TurnOf
  <1>2. WellFormed(Append(m, x))
    BY WellFormedAppend DEF TurnOf
  <1>3. \A i \in 1 .. Len(h) + 1 : Append(m, x)[i] = m[i]
    BY <1>1, Appended
  <1>4. \A i \in Len(h) + 2 .. Len(m) + 1 : Append(m, x)[i].role # "user"
    BY <1>1, Appended DEF TurnOf
  <1>5. /\ Len(Append(m, x)) = Len(m) + 1 /\ Len(Append(m, x)) > Len(h)
        /\ \A i \in 1 .. Len(h) : Append(m, x)[i] = h[i]
        /\ Append(m, x)[Len(h) + 1] = User
    BY <1>1, <1>3, Appended DEF TurnOf
  <1>6. QED
    BY <1>2, <1>4, <1>5 DEF TurnOf

LEMMA ToolMessagesGrow ==
  ASSUME NEW h \in Seq(Message), NEW m \in Seq(Message), Len(m) > Len(h),
         NEW x \in Message, IsFiniteSet(ToolMessages(h, m))
  PROVE  LET more == ToolMessages(h, Append(m, x))
         IN  /\ IsFiniteSet(more)
             /\ Cardinality(ToolMessages(h, m)) \in Nat
             /\ Cardinality(more) = Cardinality(ToolMessages(h, m))
                                    + (IF x.role = "tool" THEN 1 ELSE 0)
  <1> DEFINE T == ToolMessages(h, m)
             more == ToolMessages(h, Append(m, x))
  <1>1. Len(h) \in Nat /\ Len(m) \in Nat /\ Len(m) + 1 \notin T
    BY DEF ToolMessages
  <1>2. Cardinality(T) \in Nat
    BY FS_CardinalityType
  <1>3. CASE x.role = "tool"
    <2>1. more = T \cup {Len(m) + 1}
      BY <1>1, <1>3, Appended DEF ToolMessages
    <2>2. IsFiniteSet(more) /\ Cardinality(more) = Cardinality(T) + 1
      BY <1>1, <2>1, FS_AddElement
    <2>3. QED
      BY <1>2, <1>3, <2>2
  <1>4. CASE x.role # "tool"
    <2>1. more = T
      BY <1>1, <1>4, Appended DEF ToolMessages
    <2>2. QED
      BY <1>2, <1>4, <2>1
  <1>5. QED
    BY <1>3, <1>4

\* The model may speak behind a prompt.
LEMMA AssistantFollows ==
  ASSUME NEW m \in Seq(Message), IsPrompt(m), NEW n \in Nat
  PROVE  FollowsOn(Append(m, Assistant(n)), Len(m) + 1)
  <1> DEFINE a == Append(m, Assistant(n))
  <1>1. Assistant(n) \in Message /\ m # <<>>
    BY MessageTypes DEF IsPrompt
  <1>2. /\ Len(m) \in Nat /\ Len(m) \in 1 .. Len(m) /\ a[Len(m) + 1] = Assistant(n)
        /\ a[Len(m)] = m[Len(m)]
    BY <1>1, Appended
  <1>3. m[Len(m)] = User \/ ClosesCalls(a, Len(m))
    BY <1>1, ClosesStays DEF IsPrompt
  <1>4. Len(m) + 1 > 1 /\ (Len(m) + 1) - 1 = Len(m)
    BY <1>2
  <1>5. a[Len(m) + 1].role = "assistant"
    BY <1>2 DEF Assistant
  <1>6. a[(Len(m) + 1) - 1] = User \/ ClosesCalls(a, (Len(m) + 1) - 1)
    BY <1>2, <1>3, <1>4
  <1> DEFINE i == Len(m) + 1
  <1>7. a[i].role = "assistant" /\ i > 1 /\ (a[i - 1] = User \/ ClosesCalls(a, i - 1))
    BY <1>4, <1>5, <1>6
  <1> HIDE DEF a, i
  <1>8. FollowsOn(a, i)
    BY <1>7, SpeakerFollows
  <1>9. QED
    BY <1>8 DEF a, i

\* The next tool message answers the next call.
LEMMA ToolResultFollows ==
  ASSUME NEW m \in Seq(Message), NEW k \in 0 .. Len(m) - 1, NEW n \in Nat, n > 0,
         Answered(m, k, n)
  PROVE  /\ FollowsOn(Append(m, ToolResult(k + 1)), Len(m) + 1)
         /\ Answered(Append(m, ToolResult(k + 1)), k + 1, n - 1)
  <1> DEFINE a == Append(m, ToolResult(k + 1))
  <1>1. ToolResult(k + 1) \in Message
    BY MessageTypes
  <1>2. /\ Len(m) \in Nat /\ k \in Nat /\ Len(a) = Len(m) + 1
        /\ a[Len(m) + 1] = ToolResult(k + 1)
        /\ \A i \in 1 .. Len(m) : a[i] = m[i]
    BY <1>1, Appended
  <1>3. ToolResult(k + 1).role = "tool" /\ ToolResult(k + 1).n = k + 1
    BY DEF ToolResult
  <1>4. Len(m) + 1 - (k + 1) = Len(m) - k /\ Len(m) - k \in 1 .. Len(m)
    BY <1>2
  <1>5. a[Len(m) - k] = Assistant(k + n)
    BY <1>2, <1>4 DEF Answered
  <1>6. Assistant(k + n).role = "assistant" /\ Assistant(k + n).n = k + n
    BY DEF Assistant
  <1>7. \A j \in 1 .. k : a[Len(m) - k + j] = ToolResult(j)
    <2> SUFFICES ASSUME NEW j \in 1 .. k PROVE a[Len(m) - k + j] = ToolResult(j)
      OBVIOUS
    <2>1. Len(m) - k + j \in 1 .. Len(m)
      BY <1>2
    <2>2. QED
      BY <1>2, <2>1 DEF Answered
  <1>8. FollowsOn(a, Len(m) + 1)
    <2> DEFINE i == Len(m) + 1
    <2>1. a[i].role = "tool" /\ a[i].n = k + 1
      BY <1>2, <1>3
    <2>2. k + 1 \in 1 .. i - 1 /\ (k + 1) - 1 = k /\ i - (k + 1) = Len(m) - k /\ k + n >= k + 1
      BY <1>2
    <2>3. a[i].n \in 1 .. i - 1 /\ a[i - a[i].n] = Assistant(k + n)
      BY <1>5, <2>1, <2>2
    <2>4. a[i - a[i].n].role = "assistant" /\ a[i - a[i].n].n >= a[i].n
      BY <1>6, <2>1, <2>2, <2>3
    <2>5. \A j \in 1 .. a[i].n - 1 : a[i - a[i].n + j] = ToolResult(j)
      <3>1. i - a[i].n = Len(m) - k /\ a[i].n - 1 = k
        BY <2>1, <2>2
      <3>2. QED
        BY <1>7, <3>1
    <2> HIDE DEF a, i
    <2>6. FollowsOn(a, i)
      BY <2>1, <2>3, <2>4, <2>5, ResultFollows
    <2>7. QED
      BY <2>6 DEF i
  <1>9. Answered(a, k + 1, n - 1)
    <2>1. k + 1 + (n - 1) = k + n /\ k + n >= 1 /\ Len(a) - (k + 1) = Len(m) - k
      BY <1>2
    <2>2. \A j \in 1 .. k + 1 : a[Len(m) - k + j] = ToolResult(j)
      <3>1. Len(m) - k + (k + 1) = Len(m) + 1
        BY <1>2
      <3>2. \A j \in 1 .. k + 1 : j \in 1 .. k \/ j = k + 1
        BY <1>2
      <3>3. QED
        BY <1>2, <1>7, <3>1, <3>2
    <2>3. QED
      BY <1>5, <2>1, <2>2 DEF Answered
  <1>10. QED
    BY <1>8, <1>9

\* When no call is open the model may be asked again.
LEMMA AllAnswered ==
  ASSUME NEW m \in Seq(Message), WellFormed(m), NEW k \in 0 .. Len(m) - 1, Answered(m, k, 0)
  PROVE  IsPrompt(m)
  <1>1. Len(m) \in Nat /\ k \in 1 .. k /\ Len(m) > k /\ m # <<>> /\ Len(m) - k + k = Len(m)
        /\ k + 0 = k
    BY DEF Answered
  <1>2. m[Len(m)] = ToolResult(k) /\ m[Len(m) - k] = Assistant(k)
    BY <1>1 DEF Answered
  <1>3. ToolResult(k).role = "tool" /\ ToolResult(k).n = k
    BY DEF ToolResult
  <1>4. ClosesCalls(m, Len(m))
    BY <1>1, <1>2, <1>3 DEF ClosesCalls
  <1>5. QED
    BY <1>1, <1>4 DEF IsPrompt

LEMMA CallIdIs ==
  ASSUME NEW k \in 0 .. Len(transcript) - 1, transcript \in Seq(Message), open \in Nat,
         Answered(transcript, k, open)
  PROVE  CallId = k + 1
  <1>1. Len(transcript) \in Nat /\ k \in Nat
    OBVIOUS
  <1>2. CASE k = 0
    <2>1. transcript[Len(transcript)].role = "assistant"
      BY <1>1, <1>2 DEF Answered, Assistant
    <2>2. QED
      BY <1>2, <2>1 DEF CallId
  <1>3. CASE k > 0
    <2>1. Len(transcript) - k + k = Len(transcript) /\ k \in 1 .. k
      BY <1>1, <1>3
    <2>2. transcript[Len(transcript)] = ToolResult(k)
      BY <2>1 DEF Answered
    <2>3. QED
      BY <2>2 DEF CallId, ToolResult
  <1>4. QED
    BY <1>1, <1>2, <1>3

\* The history's last turn is the one that was running.
LEMMA LastTurnOf ==
  ASSUME NEW h \in Seq(Message), NEW m \in Seq(Message), TurnOf(h, m)
  PROVE  {i \in LastTurn(m) : m[i].role = "tool"} = ToolMessages(h, m)
  <1>1. Len(h) \in Nat /\ Len(m) \in Nat /\ Len(m) > Len(h)
    BY DEF TurnOf
  <1>2. m[Len(h) + 1].role = "user"
    BY DEF TurnOf, User
  <1>3. \A i \in 1 .. Len(m) : i <= Len(h) => Len(h) + 1 \in i + 1 .. Len(m)
    BY <1>1
  <1>4. \A i \in Len(h) + 1 .. Len(m) : \A j \in i + 1 .. Len(m) : m[j].role # "user"
    <2> SUFFICES ASSUME NEW i \in Len(h) + 1 .. Len(m), NEW j \in i + 1 .. Len(m)
                 PROVE  m[j].role # "user"
      OBVIOUS
    <2>1. j \in Len(h) + 2 .. Len(m)
      BY <1>1
    <2>2. QED
      BY <2>1 DEF TurnOf
  <1>5. LastTurn(m) = Len(h) + 1 .. Len(m)
    BY <1>1, <1>2, <1>3, <1>4 DEF LastTurn
  <1>6. QED
    BY <1>5 DEF ToolMessages

-----------------------------------------------------------------------------
(* The steps.                                                              *)

\* The turn is over and nothing is stored.
LEMMA GivesUpIInv ==
  ASSUME IInv, NEW kind \in {"aborted", "limit", "error"}, GiveUp(kind)
  PROVE  IInv'
  <1>1. /\ phase' = "idle" /\ reply' = Failure(kind) /\ round' = 0 /\ transcript' = <<>>
        /\ open' = 0 /\ toolTitles' = {} /\ sourced' = {} /\ surfaced' = {} /\ steps' = 0
        /\ said' = Silence /\ history' = history /\ turns' = turns /\ grounded' = grounded
    BY DEF GiveUp, EndTurn, kept
  <1>2. TypeOK'
    <2>1. Failure(kind) \in Reply /\ Silence \in Naming
      BY FailureIs DEF Silence, Naming
    <2>2. <<>> \in Seq(Message) /\ 0 \in 0 .. MaxRounds - 1 /\ 0 \in 0 .. MaxCalls /\ 0 \in Nat
      BY RoundsAssumption
    <2>3. QED
      BY <1>1, <2>1, <2>2 DEF IInv, TypeOK
  <1>3. TurnInv' /\ StepsInv' /\ PhaseInv' /\ (surfaced \subseteq toolTitles)'
    BY <1>1 DEF IInv, TurnInv, StepsInv, PhaseInv
  <1>4. NothingInvented' /\ TraceMatchesHistory'
    BY <1>1, FailureIs DEF NothingInvented, TraceMatchesHistory
  <1>5. QED
    BY <1>2, <1>3, <1>4 DEF IInv

LEMMA StartTurnIInv ==
  ASSUME IInv, StartTurn
  PROVE  IInv'
  <1>1. /\ phase = "idle" /\ phase' = "chat" /\ transcript' = Append(history, User)
        /\ turns < MaxTurns
        /\ reply' = Failure("none") /\ history' = history /\ turns' = turns
        /\ grounded' = grounded /\ toolTitles' = toolTitles /\ sourced' = sourced
        /\ surfaced' = surfaced /\ round' = round /\ open' = open /\ steps' = steps
        /\ said' = said
    BY DEF StartTurn, kept, trackers
  <1>2. /\ TurnOf(history, Append(history, User)) /\ IsPrompt(Append(history, User))
        /\ ToolMessages(history, Append(history, User)) = {}
    BY TurnStarts DEF IInv, TypeOK, TurnInv
  <1>3. TypeOK'
    <2>1. Failure("none") \in Reply /\ Append(history, User) \in Seq(Message)
      BY Appended, MessageTypes, FailureIs DEF IInv, TypeOK
    <2>2. QED
      BY <1>1, <2>1 DEF IInv, TypeOK
  <1>4. TurnInv'
    BY <1>1, <1>2 DEF IInv, TurnInv
  <1>5. StepsInv' /\ PhaseInv'
    <2>1. steps = 0
      BY <1>1 DEF IInv, PhaseInv
    <2>2. QED
      BY <1>1, <1>2, <2>1, FS_EmptySet DEF StepsInv, PhaseInv
  <1>6. (surfaced \subseteq toolTitles)' /\ NothingInvented' /\ TraceMatchesHistory'
    BY <1>1, FailureIs DEF IInv, NothingInvented, TraceMatchesHistory
  <1>7. QED
    BY <1>3, <1>4, <1>5, <1>6 DEF IInv

\* A message of the running turn is appended: what is said of the turn as a whole.
LEMMA TurnGoesOn ==
  ASSUME IInv, phase # "idle", phase' # "idle", NEW x \in Message, x.role # "user",
         FollowsOn(Append(transcript, x), Len(transcript) + 1),
         transcript' = Append(transcript, x), history' = history, turns' = turns,
         steps' = steps + (IF x.role = "tool" THEN 1 ELSE 0)
  PROVE  /\ transcript' \in Seq(Message) /\ steps' \in Nat
         /\ IsHistory(history') /\ TurnOf(history', transcript')
         /\ StepsInv' /\ PhaseInv'
  <1>1. /\ history \in Seq(Message) /\ transcript \in Seq(Message) /\ steps \in Nat
        /\ IsHistory(history) /\ TurnOf(history, transcript)
        /\ IsFiniteSet(ToolMessages(history, transcript))
        /\ steps = Cardinality(ToolMessages(history, transcript))
    BY DEF IInv, TypeOK, TurnInv, StepsInv
  <1>2. TurnOf(history, Append(transcript, x))
    BY <1>1, TurnGrows
  <1>3. /\ IsFiniteSet(ToolMessages(history, Append(transcript, x)))
        /\ Cardinality(ToolMessages(history, Append(transcript, x)))
           = steps + (IF x.role = "tool" THEN 1 ELSE 0)
    <2>1. Len(transcript) > Len(history)
      BY <1>1 DEF TurnOf
    <2>2. QED
      BY <1>1, <2>1, ToolMessagesGrow
  <1>4. StepsInv' /\ PhaseInv'
    BY <1>3 DEF IInv, StepsInv, PhaseInv
  <1>5. QED
    BY <1>1, <1>2, <1>4, Appended

\* The model speaks, with n calls or with its answer.
LEMMA AssistantIInv ==
  ASSUME IInv, phase = "chat", NEW n \in Nat, transcript' = Append(transcript, Assistant(n))
  PROVE  /\ FollowsOn(Append(transcript, Assistant(n)), Len(transcript) + 1)
         /\ Assistant(n) \in Message /\ Assistant(n).role = "assistant"
         /\ transcript' # <<>> /\ transcript'[Len(transcript')] = Assistant(n)
  <1>1. transcript \in Seq(Message) /\ IsPrompt(transcript)
    BY DEF IInv, TypeOK, TurnInv
  <1>2. Assistant(n) \in Message /\ Assistant(n).role = "assistant"
    BY MessageTypes DEF Assistant
  <1>3. QED
    BY <1>1, <1>2, AssistantFollows, Appended

LEMMA ModelAnswersIInv ==
  ASSUME IInv, NEW naming \in Naming, ModelAnswers(naming)
  PROVE  IInv'
  <1>1. /\ phase = "chat" /\ phase' = "gate" /\ transcript' = Append(transcript, Assistant(0))
        /\ said' = naming /\ history' = history /\ turns' = turns /\ grounded' = grounded
        /\ toolTitles' = toolTitles /\ sourced' = sourced /\ surfaced' = surfaced
        /\ round' = round /\ open' = open /\ steps' = steps /\ reply' = reply
    BY DEF ModelAnswers, kept, trackers
  <1>2. /\ FollowsOn(Append(transcript, Assistant(0)), Len(transcript) + 1)
        /\ Assistant(0) \in Message /\ Assistant(0).role = "assistant"
        /\ transcript'[Len(transcript')] = Assistant(0)
    BY <1>1, AssistantIInv
  <1>3. steps' = steps + (IF Assistant(0).role = "tool" THEN 1 ELSE 0)
    BY <1>1, <1>2 DEF IInv, TypeOK
  <1>4. /\ transcript' \in Seq(Message) /\ steps' \in Nat
        /\ IsHistory(history') /\ TurnOf(history', transcript')
        /\ StepsInv' /\ PhaseInv'
    BY <1>1, <1>2, <1>3, TurnGoesOn
  <1>5. TypeOK'
    BY <1>1, <1>4 DEF IInv, TypeOK
  <1>6. TurnInv'
    BY <1>1, <1>2, <1>4 DEF TurnInv, IsAnswer
  <1>7. (surfaced \subseteq toolTitles)' /\ NothingInvented' /\ TraceMatchesHistory'
    BY <1>1 DEF IInv, NothingInvented, TraceMatchesHistory, LastTurn
  <1>8. QED
    BY <1>4, <1>5, <1>6, <1>7 DEF IInv

LEMMA ModelCallsIInv ==
  ASSUME IInv, NEW n \in 1 .. MaxCalls, ModelCalls(n)
  PROVE  IInv'
  <1>1. /\ phase = "chat" /\ phase' = "tools" /\ transcript' = Append(transcript, Assistant(n))
        /\ open' = n /\ history' = history /\ turns' = turns /\ grounded' = grounded
        /\ toolTitles' = toolTitles /\ sourced' = sourced /\ surfaced' = surfaced
        /\ round' = round /\ said' = said /\ steps' = steps /\ reply' = reply
    BY DEF ModelCalls, kept, trackers
  <1>2. n \in Nat /\ n >= 1 /\ n \in 0 .. MaxCalls
    BY RoundsAssumption
  <1>3. /\ FollowsOn(Append(transcript, Assistant(n)), Len(transcript) + 1)
        /\ Assistant(n) \in Message /\ Assistant(n).role = "assistant"
        /\ transcript' # <<>> /\ transcript'[Len(transcript')] = Assistant(n)
    BY <1>1, <1>2, AssistantIInv
  <1>4. steps' = steps + (IF Assistant(n).role = "tool" THEN 1 ELSE 0)
    BY <1>1, <1>3 DEF IInv, TypeOK
  <1>5. /\ transcript' \in Seq(Message) /\ steps' \in Nat
        /\ IsHistory(history') /\ TurnOf(history', transcript')
        /\ StepsInv' /\ PhaseInv'
    BY <1>1, <1>3, <1>4, TurnGoesOn
  <1>6. TypeOK'
    BY <1>1, <1>2, <1>5 DEF IInv, TypeOK
  <1>7. \E k \in 0 .. Len(transcript') - 1 : Answered(transcript', k, open')
    <2>1. Len(transcript') \in Nat /\ Len(transcript') - 0 = Len(transcript')
      BY <1>5
    <2>2. Len(transcript') # 0
      BY <1>3, <1>5
    <2>3. 0 \in 0 .. Len(transcript') - 1 /\ 0 + n = n
      BY <1>2, <2>1, <2>2
    <2>4. Answered(transcript', 0, n)
      BY <1>2, <1>3, <2>1, <2>3 DEF Answered
    <2>5. QED
      BY <1>1, <2>3, <2>4
  <1>8. TurnInv'
    BY <1>1, <1>5, <1>7 DEF TurnInv
  <1>9. (surfaced \subseteq toolTitles)' /\ NothingInvented' /\ TraceMatchesHistory'
    BY <1>1 DEF IInv, NothingInvented, TraceMatchesHistory, LastTurn
  <1>10. QED
    BY <1>5, <1>6, <1>8, <1>9 DEF IInv

\* A call is answered, whatever it does to the trackers.
LEMMA HandleIInv ==
  ASSUME IInv, Handle, toolTitles' \in SUBSET Titles, sourced' \in SUBSET Titles,
         surfaced' \subseteq toolTitles'
  PROVE  IInv'
  <1>1. /\ phase = "tools" /\ open > 0 /\ open' = open - 1 /\ steps' = steps + 1
        /\ transcript' = Append(transcript, ToolResult(CallId))
        /\ history' = history /\ turns' = turns /\ grounded' = grounded
        /\ phase' = phase /\ round' = round /\ said' = said /\ reply' = reply
    BY DEF Handle, kept
  <1>2. /\ open \in Nat /\ steps \in Nat /\ transcript \in Seq(Message)
        /\ open - 1 \in 0 .. MaxCalls
    BY <1>1, RoundsAssumption DEF IInv, TypeOK
  <1>3. PICK k \in 0 .. Len(transcript) - 1 : Answered(transcript, k, open)
    BY <1>1 DEF IInv, TurnInv
  <1>4. CallId = k + 1
    BY <1>2, <1>3, CallIdIs
  <1>5. /\ FollowsOn(Append(transcript, ToolResult(k + 1)), Len(transcript) + 1)
        /\ Answered(Append(transcript, ToolResult(k + 1)), k + 1, open - 1)
    BY <1>1, <1>2, <1>3, ToolResultFollows
  <1>6. ToolResult(k + 1) \in Message /\ ToolResult(k + 1).role = "tool"
    BY MessageTypes DEF ToolResult
  <1>7. /\ transcript' \in Seq(Message) /\ steps' \in Nat
        /\ IsHistory(history') /\ TurnOf(history', transcript')
        /\ StepsInv' /\ PhaseInv'
    <2>1. steps' = steps + (IF ToolResult(k + 1).role = "tool" THEN 1 ELSE 0)
      BY <1>1, <1>6
    <2>2. ToolResult(k + 1).role # "user"
      BY <1>6
    <2>3. transcript' = Append(transcript, ToolResult(k + 1))
      BY <1>1, <1>4
    <2>4. QED
      BY <1>1, <1>5, <1>6, <2>1, <2>2, <2>3, TurnGoesOn
  <1>8. TypeOK'
    BY <1>1, <1>2, <1>7 DEF IInv, TypeOK
  <1>9. \E j \in 0 .. Len(transcript') - 1 : Answered(transcript', j, open')
    <2>1. k + 1 \in 0 .. Len(transcript') - 1
      BY <1>1, <1>2, <1>4, <1>6, Appended
    <2>2. QED
      BY <1>1, <1>4, <1>5, <2>1
  <1>10. TurnInv'
    BY <1>1, <1>7, <1>9 DEF TurnInv
  <1>11. NothingInvented' /\ TraceMatchesHistory'
    BY <1>1 DEF IInv, NothingInvented, TraceMatchesHistory, LastTurn
  <1>12. QED
    BY <1>7, <1>8, <1>10, <1>11 DEF IInv

LEMMA NextRoundIInv ==
  ASSUME IInv, NextRound
  PROVE  IInv'
  <1>1. /\ phase = "tools" /\ open = 0 /\ phase' = "chat" /\ round' = round + 1
        /\ round + 1 < MaxRounds /\ transcript' = transcript /\ open' = open
        /\ steps' = steps /\ said' = said /\ reply' = reply /\ history' = history
        /\ turns' = turns /\ grounded' = grounded /\ toolTitles' = toolTitles
        /\ sourced' = sourced /\ surfaced' = surfaced
    BY DEF NextRound, kept, trackers
  <1>2. TypeOK'
    <2>1. round + 1 \in 0 .. MaxRounds - 1
      BY <1>1, RoundsAssumption DEF IInv, TypeOK
    <2>2. QED
      BY <1>1, <2>1 DEF IInv, TypeOK
  <1>3. TurnInv'
    <2>1. PICK k \in 0 .. Len(transcript) - 1 : Answered(transcript, k, 0)
      BY <1>1 DEF IInv, TurnInv
    <2>2. transcript \in Seq(Message) /\ TurnOf(history, transcript) /\ WellFormed(transcript)
      BY <1>1 DEF IInv, TypeOK, TurnInv, TurnOf
    <2>3. IsPrompt(transcript)
      BY <2>1, <2>2, AllAnswered
    <2>4. QED
      BY <1>1, <2>2, <2>3 DEF IInv, TurnInv
  <1>4. StepsInv' /\ PhaseInv'
    BY <1>1 DEF IInv, StepsInv, PhaseInv
  <1>5. (surfaced \subseteq toolTitles)' /\ NothingInvented' /\ TraceMatchesHistory'
    BY <1>1 DEF IInv, NothingInvented, TraceMatchesHistory, LastTurn
  <1>6. QED
    BY <1>2, <1>3, <1>4, <1>5 DEF IInv

\* The answer is the running turn's: its trace, its titles, its messages.
LEMMA FinishIInv ==
  ASSUME IInv, Finish
  PROVE  IInv'
  <1>1. /\ phase = "gate" /\ phase' = "idle"
        /\ reply' = [kind |-> "answer",
                     named |-> [marked |-> said.marked \ Inventions,
                                plain |-> said.plain \ Inventions],
                     flagged |-> Inventions, versions |-> surfaced,
                     cited |-> surfaced \cap sourced, steps |-> steps]
        /\ round' = 0 /\ transcript' = <<>> /\ open' = 0 /\ toolTitles' = {}
        /\ sourced' = {} /\ surfaced' = {} /\ steps' = 0 /\ said' = Silence
        /\ history' = transcript /\ turns' = turns + 1
        /\ grounded' = grounded \cup toolTitles
    BY DEF Finish, EndTurn
  <1>2. /\ history \in Seq(Message) /\ transcript \in Seq(Message)
        /\ TurnOf(history, transcript) /\ IsAnswer(transcript[Len(transcript)])
        /\ surfaced \subseteq toolTitles
    BY <1>1 DEF IInv, TypeOK, TurnInv
  <1>3. TypeOK'
    <2>1. reply' \in Reply /\ Silence \in Naming
      <3>1. said \in Naming /\ Inventions \subseteq Titles
        BY DEF IInv, TypeOK, Naming, Inventions
      <3>2. reply'.named \in Naming
        BY <1>1, <3>1 DEF Naming
      <3>3. QED
        BY <1>1, <3>1, <3>2 DEF IInv, TypeOK, Reply, Silence, Naming
    <2>2. turns + 1 \in 0 .. MaxTurns
      BY <1>1, RoundsAssumption DEF IInv, TypeOK, PhaseInv
    <2>3. <<>> \in Seq(Message) /\ 0 \in 0 .. MaxRounds - 1 /\ 0 \in 0 .. MaxCalls /\ 0 \in Nat
      BY RoundsAssumption
    <2>4. QED
      BY <1>1, <1>2, <2>1, <2>2, <2>3 DEF IInv, TypeOK
  <1>4. TurnInv' /\ StepsInv' /\ PhaseInv' /\ (surfaced \subseteq toolTitles)'
    BY <1>1, <1>2 DEF TurnInv, StepsInv, PhaseInv, IsHistory, TurnOf
  <1>5. NothingInvented'
    <2>1. ASSUME NEW t \in reply'.named.marked PROVE Grounds(grounded', t)
      <3>1. Grounds(toolTitles, t)
        BY <1>1, <2>1 DEF Inventions
      <3>2. toolTitles \subseteq grounded'
        BY <1>1
      <3>3. QED
        BY <3>1, <3>2, GroundsMore
    <2>2. QED
      BY <1>1, <1>2, <2>1 DEF NothingInvented
  <1>6. TraceMatchesHistory'
    <2>1. {i \in LastTurn(history') : history'[i].role = "tool"}
          = ToolMessages(history, transcript)
      BY <1>1, <1>2, LastTurnOf
    <2>2. steps = Cardinality(ToolMessages(history, transcript))
      BY <1>1 DEF IInv, StepsInv
    <2>3. reply'.steps = steps
      BY <1>1
    <2>4. QED
      BY <2>1, <2>2, <2>3 DEF TraceMatchesHistory
  <1>7. QED
    BY <1>3, <1>4, <1>5, <1>6 DEF IInv

LEMMA NextIInv == IInv /\ [Next]_vars => IInv'
  <1> SUFFICES ASSUME IInv, [Next]_vars PROVE IInv'
    OBVIOUS
  <1>1. CASE Refuse
    BY <1>1, GivesUpIInv DEF Refuse
  <1>2. CASE StartTurn
    BY <1>2, StartTurnIInv
  <1>3. CASE ModelFails
    BY <1>3, GivesUpIInv DEF ModelFails
  <1>4. ASSUME NEW naming \in Naming, ModelAnswers(naming) PROVE IInv'
    BY <1>4, ModelAnswersIInv
  <1>5. ASSUME NEW n \in 1 .. MaxCalls, ModelCalls(n) PROVE IInv'
    BY <1>5, ModelCallsIInv
  <1>6. CASE CallFails
    BY <1>6, HandleIInv DEF CallFails, trackers, IInv, TypeOK
  <1>7. ASSUME NEW films \in SUBSET Titles, CallReturns(films) PROVE IInv'
    <2>1. toolTitles \subseteq Titles /\ sourced \subseteq Titles /\ surfaced \subseteq toolTitles
      BY DEF IInv, TypeOK
    <2>2. CASE CallGetVersions(films)
      BY <2>1, <2>2, HandleIInv DEF CallGetVersions
    <2>3. CASE CallRefineFilter(films)
      BY <2>1, <2>3, HandleIInv DEF CallRefineFilter
    <2>4. CASE CallLookup(films)
      BY <2>1, <2>4, HandleIInv DEF CallLookup
    <2>5. QED
      BY <1>7, <2>2, <2>3, <2>4 DEF CallReturns
  <1>8. CASE CallRaises
    BY <1>8, GivesUpIInv DEF CallRaises
  <1>9. CASE NextRound
    BY <1>9, NextRoundIInv
  <1>10. CASE RoundsExhausted
    BY <1>10, GivesUpIInv DEF RoundsExhausted
  <1>11. CASE Finish
    BY <1>11, FinishIInv
  <1>12. CASE UNCHANGED vars
    BY <1>12 DEF vars, IInv, TypeOK, TurnInv, StepsInv, PhaseInv, NothingInvented,
                 TraceMatchesHistory, LastTurn
  <1>13. QED
    BY <1>1, <1>2, <1>3, <1>4, <1>5, <1>6, <1>7, <1>8, <1>9, <1>10, <1>11, <1>12
       DEF Next, TurnStep

\* The invariant: a running turn is the history, a user message and whole rounds, its
\* trackers and its trace belong to it, and what was answered came from a tool.
THEOREM TurnsSound == Spec => []IInv
  <1>1. QED
    BY InitIInv, NextIInv, PTL DEF Spec

-----------------------------------------------------------------------------
(* The theorems.                                                           *)

\* run_turn keeps its types; no turn passes MAX_TOOL_ROUNDS, no conversation MAX_TURNS.
THEOREM TypeCorrect == Spec => []TypeOK
  <1>1. IInv => TypeOK
    BY DEF IInv
  <1>2. QED
    BY <1>1, TurnsSound, PTL

\* What run_turn sends to the endpoint is a prompt it accepts, and what it stores is a
\* complete exchange, through failed calls and rounds of any number of calls.
THEOREM PromptsAreWellFormed == Spec => []PromptsWellFormed
  <1>1. IInv => PromptsWellFormed
    BY DEF IInv, TurnInv, PromptsWellFormed
  <1>2. QED
    BY <1>1, TurnsSound, PTL

\* The trace of an answer has a step for each tool message it put in the history.
THEOREM TraceIsTheHistory == Spec => []TraceMatchesHistory
  <1>1. IInv => TraceMatchesHistory
    BY DEF IInv
  <1>2. QED
    BY <1>1, TurnsSound, PTL

\* What the answer asserts in bold or with a year reaches the user unflagged only when a
\* tool of a served turn returned it or a look-alike; version cards and citations come
\* from those tools themselves.  Titles in plain prose are not covered.
THEOREM NothingIsInvented == Spec => []NothingInvented
  <1>1. IInv => NothingInvented
    BY DEF IInv
  <1>2. QED
    BY <1>1, TurnsSound, PTL

LEMMA GiveUpCommits ==
  ASSUME NEW kind \in {"aborted", "limit", "error"}, GiveUp(kind),
         phase # "idle" \/ kind = "limit"
  PROVE  Abstract!GiveUp
  <1>1. phase' = "idle" /\ reply'.kind = kind /\ history' = history
    BY DEF GiveUp, EndTurn, Failure, kept
  <1>2. QED
    BY <1>1 DEF Abstract!GiveUp

\* The promise speaks of transcripts as the detailed module does.
LEMMA SameHistories == \A m : IsHistory(m) => Abstract!IsHistory(m)
  <1>1. \A m, i : FollowsOn(m, i) = Abstract!FollowsOn(m, i)
    BY DEF FollowsOn, IsAnswer, ClosesCalls, User, Assistant, ToolResult,
           Abstract!FollowsOn, Abstract!IsAnswer, Abstract!ClosesCalls, Abstract!User,
           Abstract!Assistant, Abstract!ToolResult
  <1>2. \A m, i : FollowsOn(m, i) => Abstract!FollowsOn(m, i)
    BY <1>1
  <1>3. \A m : WellFormed(m) => Abstract!WellFormed(m)
    BY <1>2 DEF WellFormed, Abstract!WellFormed
  <1>4. QED
    BY <1>3 DEF IsHistory, IsAnswer, Assistant, Abstract!IsHistory, Abstract!IsAnswer,
                Abstract!Assistant

LEMMA StepsCommit ==
  IInv /\ [Next]_vars => [Abstract!Next]_<<phase # "idle", history, reply.kind>>
  <1> DEFINE Quiet == /\ (phase' # "idle") = (phase # "idle")
                      /\ history' = history /\ reply' = reply
  <1> SUFFICES ASSUME IInv, [Next]_vars PROVE Abstract!Next \/ Quiet
    OBVIOUS
  <1>1. CASE Refuse
    BY <1>1, GiveUpCommits DEF Refuse, Abstract!Next
  <1>2. CASE StartTurn
    <2>1. phase = "idle" /\ phase' = "chat" /\ reply'.kind = "none" /\ history' = history
      BY <1>2 DEF StartTurn, Failure, kept
    <2>2. QED
      BY <2>1 DEF Abstract!Next, Abstract!Begin
  <1>3. CASE ModelFails
    BY <1>3, GiveUpCommits DEF ModelFails, Abstract!Next
  <1>4. CASE \E naming \in Naming : ModelAnswers(naming)
    BY <1>4 DEF ModelAnswers, kept
  <1>5. CASE \E n \in 1 .. MaxCalls : ModelCalls(n)
    BY <1>5 DEF ModelCalls, kept
  <1>6. CASE Handle
    BY <1>6 DEF Handle, kept
  <1>7. CASE CallRaises
    BY <1>7, GiveUpCommits DEF CallRaises, Abstract!Next
  <1>8. CASE NextRound
    BY <1>8 DEF NextRound, kept
  <1>9. CASE RoundsExhausted
    BY <1>9, GiveUpCommits DEF RoundsExhausted, Abstract!Next
  <1>10. CASE Finish
    <2>1. /\ phase = "gate" /\ phase' = "idle" /\ reply'.kind = "answer"
          /\ history' = transcript
      BY <1>10 DEF Finish, EndTurn
    <2>2. TurnOf(history, transcript) /\ IsAnswer(transcript[Len(transcript)])
      BY <2>1 DEF IInv, TurnInv
    <2>3. IsHistory(history') /\ Abstract!Extends(history', history)
      BY <2>1, <2>2 DEF IsHistory, TurnOf, Abstract!Extends
    <2>4. QED
      BY <2>1, <2>3, SameHistories DEF Abstract!Next, Abstract!Answer
  <1>11. CASE UNCHANGED vars
    BY <1>11 DEF vars
  <1>12. QED
    BY <1>1, <1>2, <1>3, <1>4, <1>5, <1>6, <1>7, <1>8, <1>9, <1>10, <1>11
       DEF Next, TurnStep, CallFails, CallReturns, CallGetVersions, CallRefineFilter,
           CallLookup

\* Seen from outside, a turn answers with a history that extends the old one by a whole
\* exchange, or it leaves the history as it was (orchestrator.py 13-17).
THEOREM TurnsCommit == Spec => Commits
  <1>1. Init => Abstract!Init
    BY DEF Init, Abstract!Init, Failure
  <1>2. QED
    BY <1>1, StepsCommit, TurnsSound, PTL DEF Spec, Commits, Abstract!Spec
=============================================================================
