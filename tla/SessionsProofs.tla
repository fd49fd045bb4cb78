--------------------------- MODULE SessionsProofs ---------------------------
(***************************************************************************)
(* Conversation histories stay causal and within their cap however turns,  *)
(* restarts and store failures interleave.                                 *)
(*                                                                         *)
(* A record is only ever a context plus one turn, and a context is a       *)
(* record as it was loaded.  So one fact, Sound, has to hold of both: the  *)
(* messages are those of turns that are over, and the context each of      *)
(* those turns worked on is the part of the history before it.  It is      *)
(* stable because a turn that is over neither moves nor loads again.       *)
(***************************************************************************)
EXTENDS Sessions, TLAPS

Settled == {"stored", "served", "failed", "lost"}

\* State s may be the history of conversation c, where cv, p and ctx are the
\* values of conv, pc and context.
Sound(s, c, cv, p, ctx) ==
    /\ s.turns = Len(s.messages)
    /\ \A i \in 1 .. Len(s.messages) :
          /\ cv[s.messages[i]] = c
          /\ p[s.messages[i]] \in Settled
          /\ ctx[s.messages[i]].messages = SubSeq(s.messages, 1, i - 1)

RecordsSound ==
    \A b \in Backend, c \in Conversations :
        store[b][c] # None => Sound(store[b][c], c, conv, pc, context)

ContextsSound ==
    \A r \in Requests :
        pc[r] \in {"loaded", "answered"} => Sound(context[r], conv[r], conv, pc, context)

\* An answered turn was below the cap.
BelowCap == \A r \in Requests : pc[r] = "answered" => context[r].turns < MaxTurns

IInv == TypeOK /\ RecordsSound /\ ContextsSound /\ BelowCap

----------------------------------------------------------------------------

\* Settled turns keep their place and their context.
LEMMA SoundKept ==
    ASSUME NEW s \in State, NEW c,
           NEW cv, NEW p, NEW ctx, NEW p2, NEW ctx2,
           Sound(s, c, cv, p, ctx),
           \A q \in Requests : p[q] \in Settled => p2[q] \in Settled /\ ctx2[q] = ctx[q]
    PROVE  Sound(s, c, cv, p2, ctx2)
  <1>1. \A i \in 1 .. Len(s.messages) : s.messages[i] \in Requests
    BY DEF State
  <1>2. QED
    BY <1>1 DEF Sound

LEMMA NewIsSound ==
    ASSUME NEW c, NEW cv, NEW p, NEW ctx
    PROVE  NewState \in State /\ Sound(NewState, c, cv, p, ctx)
  BY CapAssumption DEF NewState, State, Sound

LEMMA PrefixOfAppend ==
    ASSUME NEW S, NEW s \in Seq(S), NEW x \in S, NEW i \in 1 .. Len(s) + 1
    PROVE  SubSeq(Append(s, x), 1, i - 1) = SubSeq(s, 1, i - 1)
  OBVIOUS

LEMMA WholePrefix ==
    ASSUME NEW S, NEW s \in Seq(S)
    PROVE  SubSeq(s, 1, Len(s)) = s
  OBVIOUS

\* The context of a turn, extended with that turn, is sound once the turn is over.
LEMMA SoundExtended ==
    ASSUME NEW r \in Requests, NEW cv, NEW p, NEW ctx,
           ctx[r] \in State,
           Sound(ctx[r], cv[r], cv, p, ctx),
           p[r] \in Settled,
           NEW s \in State,
           s = [turns |-> ctx[r].turns + 1, messages |-> Append(ctx[r].messages, r)]
    PROVE  Sound(s, cv[r], cv, p, ctx)
  <1> DEFINE m == ctx[r].messages
             n == Append(m, r)
  <1>1. m \in Seq(Requests) /\ ctx[r].turns = Len(m)
    BY DEF State, Sound
  <1>2. Len(n) = Len(m) + 1 /\ n[Len(m) + 1] = r
        /\ \A i \in 1 .. Len(m) : n[i] = m[i]
    BY <1>1
  <1>3. s.turns = Len(s.messages) /\ s.messages = n
    BY <1>1, <1>2
  <1>4. ASSUME NEW i \in 1 .. Len(m)
        PROVE  /\ cv[n[i]] = cv[r] /\ p[n[i]] \in Settled
               /\ ctx[n[i]].messages = SubSeq(n, 1, i - 1)
    <2>1. SubSeq(n, 1, i - 1) = SubSeq(m, 1, i - 1)
      BY <1>1, PrefixOfAppend
    <2>2. QED
      BY <1>2, <2>1 DEF Sound
  <1>5. ctx[r].messages = SubSeq(n, 1, Len(m))
    <2>1. SubSeq(n, 1, (Len(m) + 1) - 1) = SubSeq(m, 1, (Len(m) + 1) - 1)
      BY <1>1, PrefixOfAppend
    <2>2. (Len(m) + 1) - 1 = Len(m)
      BY <1>1
    <2>3. QED
      BY <1>1, <2>1, <2>2, WholePrefix
  <1>6. ASSUME NEW i \in 1 .. Len(n)
        PROVE  /\ cv[n[i]] = cv[r] /\ p[n[i]] \in Settled
               /\ ctx[n[i]].messages = SubSeq(n, 1, i - 1)
    <2>1. CASE i \in 1 .. Len(m)
      BY <2>1, <1>4
    <2>2. CASE i = Len(m) + 1
      BY <2>2, <1>1, <1>2, <1>5
    <2>3. QED
      BY <1>1, <1>2, <2>1, <2>2
  <1>7. QED
    BY <1>3, <1>6 DEF Sound

----------------------------------------------------------------------------

LEMMA InitIInv == Init => IInv
  <1> SUFFICES ASSUME Init PROVE IInv
    OBVIOUS
  <1>1. TypeOK
    BY NewIsSound, CapAssumption DEF Init, TypeOK, Backend, PC
  <1>2. RecordsSound /\ ContextsSound /\ BelowCap
    BY DEF Init, RecordsSound, ContextsSound, BelowCap
  <1>3. QED
    BY <1>1, <1>2 DEF IInv

\* Turns that are over stay over: they neither move back nor load a context.
SettledKept ==
    /\ conv' = conv
    /\ \A q \in Requests :
          pc[q] \in Settled => pc'[q] \in Settled /\ context'[q] = context[q]

\* A step that keeps each record or drops it keeps them sound.
LEMMA RecordsKept ==
    ASSUME IInv, SettledKept,
           \A b \in Backend, c \in Conversations :
               store'[b][c] = store[b][c] \/ store'[b][c] = None
    PROVE  RecordsSound'
  <1> SUFFICES ASSUME NEW b \in Backend, NEW c \in Conversations, store'[b][c] # None
               PROVE  Sound(store'[b][c], c, conv', pc', context')
    BY DEF RecordsSound
  <1>1. store'[b][c] = store[b][c] /\ store[b][c] \in State
    BY DEF IInv, TypeOK
  <1>2. Sound(store[b][c], c, conv, pc, context)
    BY <1>1 DEF IInv, RecordsSound
  <1>3. QED
    BY <1>1, <1>2, SoundKept DEF SettledKept

\* A step that gives nobody a context keeps them sound, and answers below the cap.
LEMMA ContextsKept ==
    ASSUME IInv, SettledKept,
           \A q \in Requests : pc'[q] \in {"loaded", "answered"} =>
               /\ context'[q] = context[q]
               /\ pc[q] \in {"loaded", "answered"}
               /\ pc'[q] = pc[q] \/ context[q].turns < MaxTurns
    PROVE  ContextsSound' /\ BelowCap'
  <1>1. ASSUME NEW q \in Requests, pc'[q] \in {"loaded", "answered"}
        PROVE  Sound(context'[q], conv'[q], conv', pc', context')
    <2>1. context[q] \in State /\ Sound(context[q], conv[q], conv, pc, context)
      BY <1>1 DEF IInv, TypeOK, ContextsSound
    <2>2. QED
      BY <1>1, <2>1, SoundKept DEF SettledKept
  <1>2. BelowCap'
    BY DEF IInv, BelowCap
  <1>3. QED
    BY <1>1, <1>2 DEF ContextsSound

\* Steps of a turn that touch neither the store nor a context.
LEMMA MoveKeeps ==
    ASSUME IInv, NEW r \in Requests,
           \/ Arrive(r) \/ Limit(r) \/ Answer(r) \/ Abort(r)
           \/ StoreRaises(r) \/ Reply(r) \/ ReplyRaises(r)
    PROVE  IInv'
  <1> USE DEF Goto
  <1>1. /\ UNCHANGED <<store, context, conv>>
        /\ \A q \in Requests : q # r => pc'[q] = pc[q]
        /\ pc[r] \in PC \ {"served", "failed", "lost"}
        /\ pc[r] = "stored" => pc'[r] \in {"served", "failed"}
        /\ pc'[r] \in {"loaded", "answered"} =>
              pc[r] = "loaded" /\ context[r].turns < MaxTurns
    <2>1. context[r].turns \in 0 .. MaxTurns
      BY DEF IInv, TypeOK, State
    <2>2. QED
      BY <2>1, CapAssumption DEF Arrive, Limit, Answer, Abort, StoreRaises, Reply, ReplyRaises, AtCap, IInv, TypeOK, PC
  <1>2. TypeOK'
    <2>1. pc' \in [Requests -> PC]
      BY DEF Arrive, Limit, Answer, Abort, StoreRaises, Reply, ReplyRaises, IInv, TypeOK, PC
    <2>2. disturbed' \subseteq Conversations
      BY DEF Arrive, Limit, Answer, Abort, StoreRaises, Reply, ReplyRaises, IInv, TypeOK
    <2>3. QED
      BY <2>1, <2>2 DEF Arrive, Limit, Answer, Abort, StoreRaises, Reply, ReplyRaises, IInv, TypeOK
  <1>3. SettledKept
    BY <1>1 DEF SettledKept, Settled
  <1>4. RecordsSound'
    BY <1>1, <1>3, RecordsKept
  <1>5. \A q \in Requests : pc'[q] \in {"loaded", "answered"} =>
               /\ context'[q] = context[q]
               /\ pc[q] \in {"loaded", "answered"}
               /\ pc'[q] = pc[q] \/ context[q].turns < MaxTurns
    BY <1>1
  <1>6. ContextsSound' /\ BelowCap'
    BY <1>3, <1>5, ContextsKept
  <1>7. QED
    BY <1>2, <1>4, <1>6 DEF IInv

\* A turn starts from a record, or from a new state; PopExpired drops one first.
LEMMA LoadKeeps ==
    ASSUME IInv, NEW r \in Requests, Load(r) \/ PopExpired(r)
    PROVE  IInv'
  <1> USE DEF Goto
  <1>1. pc[r] \in {"arrived", "expired"}
    BY DEF Load, PopExpired
  <1>2. /\ UNCHANGED <<conv, backend, redisUp, restarts, disturbed>>
        /\ \A q \in Requests : q # r => pc'[q] = pc[q] /\ context'[q] = context[q]
    BY DEF Load, PopExpired, Begin, IInv, TypeOK
  <1>3. \A b \in Backend, c \in Conversations :
            store'[b][c] = store[b][c] \/ store'[b][c] = None
    BY DEF Load, PopExpired, IInv, TypeOK, Backend
  <1>4. SettledKept
    BY <1>1, <1>2 DEF SettledKept, Settled
  <1>5. TypeOK'
    <2>1. /\ store' \in [Backend -> [Conversations -> State \cup {None}]]
          /\ ttl' \in [Backend -> [Conversations -> 0 .. SessionTTL]]
          /\ idle' \in [Backend -> [Conversations -> 0 .. SessionTTL]]
      <3>1. CASE Load(r)
        BY <3>1 DEF Load, IInv, TypeOK
      <3>2. CASE PopExpired(r)
        <4>1. "memory" \in Backend /\ 0 \in 0 .. SessionTTL
              /\ conv[r] \in Conversations
          BY CapAssumption DEF IInv, TypeOK, Backend
        <4>2. QED
          BY <3>2, <4>1 DEF PopExpired, IInv, TypeOK
      <3>3. QED
        BY <3>1, <3>2
    <2>2. pc' \in [Requests -> PC]
      BY DEF Load, PopExpired, Begin, IInv, TypeOK, PC
    <2>3. context' \in [Requests -> State]
      <3>1. NewState \in State
        BY NewIsSound
      <3>2. CASE Load(r)
        <4>1. Entry(conv[r]) \in State \cup {None}
          BY DEF Entry, IInv, TypeOK
        <4>2. context' = context \/ Begin(r, Entry(conv[r]))
          BY <3>2 DEF Load
        <4>3. QED
          BY <3>1, <4>1, <4>2 DEF Begin, IInv, TypeOK
      <3>3. CASE PopExpired(r)
        BY <3>1, <3>3 DEF PopExpired, Begin, IInv, TypeOK
      <3>4. QED
        BY <3>2, <3>3
    <2>4. saved' \in [Conversations -> Seq(Requests)]
      <3>1. saved' = saved \/ saved' = [saved EXCEPT ![conv[r]] = <<>>]
        BY DEF Load, PopExpired, Begin
      <3>2. <<>> \in Seq(Requests)
        OBVIOUS
      <3>3. QED
        BY <3>1, <3>2 DEF IInv, TypeOK
    <2>5. QED
      BY <1>2, <2>1, <2>2, <2>3, <2>4 DEF IInv, TypeOK
  <1>6. RecordsSound'
    BY <1>3, <1>4, RecordsKept
  <1>7. ASSUME NEW q \in Requests, pc'[q] \in {"loaded", "answered"}
        PROVE  /\ Sound(context'[q], conv'[q], conv', pc', context')
               /\ pc'[q] = "answered" => context'[q].turns < MaxTurns
    <2>1. CASE q # r
      <3>1. context[q] \in State /\ Sound(context[q], conv[q], conv, pc, context)
        BY <1>2, <1>7, <2>1 DEF IInv, TypeOK, ContextsSound
      <3>2. QED
        BY <1>2, <1>4, <1>7, <2>1, <3>1, SoundKept DEF SettledKept, IInv, BelowCap
    <2>2. CASE q = r
      <3>1. pc'[r] = "loaded"
        BY <1>7, <2>2 DEF Load, PopExpired, Begin, IInv, TypeOK
      <3>2. CASE context'[r] = NewState
        BY <2>2, <3>1, <3>2, NewIsSound
      <3>3. CASE /\ Load(r)
                 /\ store[backend][conv[r]] # None
                 /\ context'[r] = store[backend][conv[r]]
        <4>1. /\ store[backend][conv[r]] \in State
              /\ Sound(store[backend][conv[r]], conv[r], conv, pc, context)
          BY <3>3 DEF IInv, TypeOK, RecordsSound
        <4>2. QED
          BY <1>2, <1>4, <2>2, <3>1, <3>3, <4>1, SoundKept DEF SettledKept
      <3>4. QED
        BY <3>1, <3>2, <3>3 DEF Load, PopExpired, Begin, Entry, IInv, TypeOK
    <2>3. QED
      BY <2>1, <2>2
  <1>8. QED
    BY <1>5, <1>6, <1>7 DEF IInv, ContextsSound, BelowCap

\* What an answered turn saves is a record: it was below the cap.
LEMMA NextStateTyped ==
    ASSUME IInv, NEW r \in Requests, pc[r] = "answered"
    PROVE  NextState(r) \in State
  <1>1. context[r] \in State /\ context[r].turns < MaxTurns
    BY DEF IInv, TypeOK, BelowCap
  <1>2. context[r].turns + 1 \in 0 .. MaxTurns
    BY <1>1, CapAssumption DEF State
  <1>3. Append(context[r].messages, r) \in Seq(Requests)
    BY <1>1 DEF State
  <1>4. QED
    BY <1>2, <1>3 DEF NextState, State

\* The record becomes the turn's context plus the turn.
LEMMA SaveKeeps ==
    ASSUME IInv, NEW r \in Requests, Save(r) \/ SaveRaises(r)
    PROVE  IInv'
  <1> USE DEF Goto
  <1>1. /\ pc[r] = "answered" /\ pc'[r] \in {"stored", "failed"} /\ Write(r)
        /\ \A q \in Requests : q # r => pc'[q] = pc[q]
        /\ UNCHANGED <<conv, context, backend, redisUp, restarts, disturbed>>
    BY DEF Save, SaveRaises, IInv, TypeOK
  <1>2. /\ context[r] \in State /\ context[r].turns < MaxTurns
        /\ Sound(context[r], conv[r], conv, pc, context)
    BY <1>1 DEF IInv, TypeOK, BelowCap, ContextsSound
  <1>3. NextState(r) \in State
    BY <1>1, NextStateTyped
  <1>4. SettledKept
    BY <1>1 DEF SettledKept, Settled
  <1>5. TypeOK'
    <2>1. /\ store' \in [Backend -> [Conversations -> State \cup {None}]]
          /\ ttl' \in [Backend -> [Conversations -> 0 .. SessionTTL]]
          /\ idle' \in [Backend -> [Conversations -> 0 .. SessionTTL]]
      BY <1>1, <1>3, CapAssumption DEF Write, LifeAfterSave, IInv, TypeOK
    <2>2. pc' \in [Requests -> PC] /\ saved' \in [Conversations -> Seq(Requests)]
      <3>1. pc' \in [Requests -> PC]
        BY DEF Save, SaveRaises, IInv, TypeOK, PC
      <3>2. saved' \in [Conversations -> Seq(Requests)]
        BY <1>1 DEF Write, IInv, TypeOK
      <3>3. QED
        BY <3>1, <3>2
    <2>3. QED
      BY <1>1, <2>1, <2>2 DEF IInv, TypeOK
  <1>6. Sound(NextState(r), conv[r], conv, pc', context)
    <2>1. Sound(context[r], conv[r], conv, pc', context)
      BY <1>1, <1>2, <1>4, SoundKept DEF SettledKept
    <2>2. pc'[r] \in Settled
      BY <1>1 DEF Settled
    <2>3. QED
      BY <1>2, <1>3, <2>1, <2>2, SoundExtended DEF NextState
  <1>7. ASSUME NEW b \in Backend, NEW c \in Conversations, store'[b][c] # None
        PROVE  Sound(store'[b][c], c, conv', pc', context')
    <2>1. CASE b = backend /\ c = conv[r]
      BY <1>1, <1>6, <2>1 DEF Write, IInv, TypeOK
    <2>2. CASE ~(b = backend /\ c = conv[r])
      <3>1. store'[b][c] = store[b][c] /\ store[b][c] \in State
        BY <1>1, <1>7, <2>2 DEF Write, IInv, TypeOK
      <3>2. Sound(store[b][c], c, conv, pc, context)
        BY <1>7, <3>1 DEF IInv, RecordsSound
      <3>3. QED
        BY <1>1, <1>4, <3>1, <3>2, SoundKept DEF SettledKept
    <2>3. QED
      BY <2>1, <2>2
  <1>8. ContextsSound' /\ BelowCap'
    BY <1>1, <1>4, ContextsKept
  <1>9. QED
    BY <1>5, <1>7, <1>8 DEF IInv, RecordsSound

\* Time, Redis and restarts drop records and end turns, nothing else.
LEMMA EnvironmentKeeps ==
    ASSUME IInv, RedisMoves \/ Tick \/ Restart \/ UNCHANGED vars
    PROVE  IInv'
  <1>1. \A b \in Backend, c \in Conversations :
            store'[b][c] = store[b][c] \/ store'[b][c] = None
    BY DEF RedisMoves, Tick, Restart, vars, IInv, TypeOK, Backend
  <1>2. /\ UNCHANGED <<conv, context>>
        /\ \A q \in Requests : pc'[q] = pc[q] \/ pc'[q] = "lost"
        /\ pc' \in [Requests -> PC]
    BY DEF RedisMoves, Tick, Restart, vars, IInv, TypeOK, PC
  <1>3. SettledKept
    BY <1>2 DEF SettledKept, Settled
  <1>4. TypeOK'
    <2>1. store' \in [Backend -> [Conversations -> State \cup {None}]]
      BY DEF RedisMoves, Tick, Restart, vars, IInv, TypeOK, Backend
    <2>2. /\ ttl' \in [Backend -> [Conversations -> 0 .. SessionTTL]]
          /\ idle' \in [Backend -> [Conversations -> 0 .. SessionTTL]]
      <3>1. CASE Tick
        <4>1. \A b \in Backend, c \in Conversations :
                  /\ ttl[b][c] \in 0 .. SessionTTL /\ idle[b][c] \in 0 .. SessionTTL
                  /\ ttl[b][c] # 0 => ttl[b][c] - 1 \in 0 .. SessionTTL
                  /\ idle[b][c] # SessionTTL => idle[b][c] + 1 \in 0 .. SessionTTL
          BY CapAssumption DEF IInv, TypeOK
        <4>2. ttl' \in [Backend -> [Conversations -> 0 .. SessionTTL]]
          BY <3>1, <4>1, CapAssumption DEF Tick
        <4>3. idle' \in [Backend -> [Conversations -> 0 .. SessionTTL]]
          BY <3>1, <4>1, CapAssumption DEF Tick
        <4>4. QED
          BY <4>2, <4>3
      <3>2. CASE Restart
        BY <3>2, CapAssumption DEF Restart, IInv, TypeOK, Backend
      <3>3. CASE RedisMoves \/ UNCHANGED vars
        BY <3>3 DEF RedisMoves, vars, IInv, TypeOK
      <3>4. QED
        BY <3>1, <3>2, <3>3
    <2>3. /\ backend' \in Backend /\ redisUp' \in BOOLEAN
          /\ restarts' \in 0 .. MaxRestarts /\ disturbed' \subseteq Conversations
          /\ saved' \in [Conversations -> Seq(Requests)]
      <3>1. CASE RedisMoves
        BY <3>1 DEF RedisMoves, IInv, TypeOK
      <3>2. CASE Tick \/ UNCHANGED vars
        BY <3>2 DEF Tick, vars, IInv, TypeOK
      <3>3. CASE Restart
        BY <3>3, CapAssumption DEF Restart, IInv, TypeOK, Backend
      <3>4. QED
        BY <3>1, <3>2, <3>3
    <2>4. QED
      BY <1>2, <2>1, <2>2, <2>3 DEF IInv, TypeOK
  <1>5. RecordsSound'
    BY <1>1, <1>3, RecordsKept
  <1>6. ContextsSound' /\ BelowCap'
    BY <1>2, <1>3, ContextsKept
  <1>7. QED
    BY <1>4, <1>5, <1>6 DEF IInv

\* The invariant behind the theorems below.
THEOREM HistoriesSound == Spec => []IInv
  <1>1. IInv /\ [Next]_vars => IInv'
    BY MoveKeeps, LoadKeeps, SaveKeeps, EnvironmentKeeps DEF Next
  <1>2. QED
    BY InitIInv, <1>1, PTL DEF Spec

----------------------------------------------------------------------------

\* The variables keep their types; with the cap this bounds every turn count.
THEOREM TypeCorrect == Spec => []TypeOK
  <1>1. IInv => TypeOK
    BY DEF IInv
  <1>2. QED
    BY <1>1, HistoriesSound, PTL

\* The turn count of a record is the number of its turns and at most the cap,
\* also when turns of one conversation overlap (sessions.py 82-98).
THEOREM CountIsRight == Spec => []CountMatchesHistory
  <1>1. IInv => CountMatchesHistory
    BY CapAssumption DEF IInv, TypeOK, RecordsSound, Sound, State, CountMatchesHistory, Records
  <1>2. QED
    BY <1>1, HistoriesSound, PTL

\* Every stored history is a conversation that took place: each turn was answered
\* with exactly the turns before it (orchestrator.py 222-231, 350-353).
THEOREM HistoriesAreCausal == Spec => []CausalHistory
  <1>1. IInv => CausalHistory
    <2> SUFFICES ASSUME IInv, NEW b \in Backend, NEW c \in Conversations,
                        store[b][c] # None, NEW i \in DOMAIN store[b][c].messages
                 PROVE  LET m == store[b][c].messages
                        IN  conv[m[i]] = c /\ context[m[i]].messages = SubSeq(m, 1, i - 1)
      BY DEF CausalHistory
    <2>1. store[b][c] \in State /\ Sound(store[b][c], c, conv, pc, context)
      BY DEF IInv, TypeOK, RecordsSound
    <2>2. i \in 1 .. Len(store[b][c].messages)
      BY <2>1 DEF State
    <2>3. QED
      BY <2>1, <2>2 DEF Sound
  <1>2. QED
    BY <1>1, HistoriesSound, PTL

\* A turn that was aborted or refused at a cap is in no history, so its retry
\* replays cleanly (orchestrator.py 15-17).  Of a turn that ended in a 500 nothing
\* is claimed: its SET may have taken effect.
THEOREM AbortedTurnsLeaveNoTrace == Spec => []AbortedNeverStored
  <1>1. IInv => AbortedNeverStored
    <2> SUFFICES ASSUME IInv, NEW s \in Records, NEW r \in Requests,
                        pc[r] \in {"aborted", "limit"}, r \in ToSet(s.messages)
                 PROVE  FALSE
      BY DEF AbortedNeverStored
    <2>1. PICK b \in Backend, c \in Conversations : s = store[b][c] /\ s # None
      BY DEF Records
    <2>2. s \in State /\ Sound(s, c, conv, pc, context)
      BY <2>1 DEF IInv, TypeOK, RecordsSound
    <2>3. PICK i \in 1 .. Len(s.messages) : s.messages[i] = r
      BY <2>2 DEF ToSet, State
    <2>4. QED
      BY <2>2, <2>3 DEF Sound, Settled
  <1>2. QED
    BY <1>1, HistoriesSound, PTL
----------------------------------------------------------------------------
(* Conversations whose turns never overlap.  Such a turn finds its record as *)
(* the last turn saved it, and nobody saves until it does: what was saved,   *)
(* what is stored and what the turn works on are one history.  A conversation*)
(* that is ever disturbed stays so, and a process that comes back with the   *)
(* other store disturbs them all.                                            *)

OneTurnAtATime ==
    \A q, r \in Requests :
        /\ conv[q] = conv[r] /\ conv[r] \notin disturbed
        /\ pc[q] \in InFlight /\ pc[r] \in InFlight
        => q = r

ContextIsSaved ==
    \A r \in Requests :
        pc[r] \in {"loaded", "answered"} /\ conv[r] \notin disturbed
            => context[r].messages = saved[conv[r]]

\* Between finding a record expired and dropping it nobody saves a new one.
ExpiredStays ==
    \A r \in Requests :
        pc[r] = "expired" =>
            /\ backend = "memory"
            /\ conv[r] \in disturbed \/ store["memory"][conv[r]] = None
               \/ ttl["memory"][conv[r]] = 0

\* The time a record has lived and the time it has left make up the TTL.
LifeAccounted ==
    \A b \in Backend, c \in Conversations :
        store[b][c] # None => ttl[b][c] + idle[b][c] = SessionTTL

SequentialInv ==
    /\ OneTurnAtATime /\ SequentialTurnsKept /\ ContextIsSaved
    /\ ExpiredStays /\ LifeAccounted

LEMMA InitSequential == Init => SequentialInv
  BY DEF Init, SequentialInv, OneTurnAtATime, SequentialTurnsKept, ContextIsSaved,
         ExpiredStays, LifeAccounted, InFlight, Entry, Backend

\* Steps of a turn that touch neither the store nor what was saved.
LEMMA SequentialMove ==
    ASSUME TypeOK, SequentialInv, NEW r \in Requests,
           \/ Limit(r) \/ Answer(r) \/ Abort(r)
           \/ StoreRaises(r) \/ Reply(r) \/ ReplyRaises(r)
    PROVE  SequentialInv'
  <1>1. /\ UNCHANGED <<backend, store, ttl, idle, conv, context, saved, disturbed>>
        /\ \A q \in Requests : pc'[q] \in InFlight => pc[q] \in InFlight
        /\ \A q \in Requests : pc'[q] \in {"loaded", "answered"} => pc[q] \in {"loaded", "answered"}
        /\ \A q \in Requests : pc'[q] = "expired" => pc[q] = "expired"
    BY DEF Limit, Answer, Abort, StoreRaises, Reply, ReplyRaises, Goto, InFlight, TypeOK
  <1>2. QED
    BY <1>1 DEF SequentialInv, OneTurnAtATime, SequentialTurnsKept, ContextIsSaved,
                ExpiredStays, LifeAccounted, Entry

\* A turn that arrives while another is in flight disturbs its conversation.
LEMMA SequentialArrive ==
    ASSUME TypeOK, SequentialInv, NEW r \in Requests, Arrive(r)
    PROVE  SequentialInv'
  <1>1. /\ UNCHANGED <<backend, store, ttl, idle, conv, context, saved>>
        /\ disturbed \subseteq disturbed'
        /\ \A q \in Requests : q # r => pc'[q] = pc[q]
        /\ pc'[r] = "arrived"
        /\ Busy(conv[r]) => conv[r] \in disturbed'
    BY DEF Arrive, Goto, TypeOK
  <1>2. OneTurnAtATime'
    BY <1>1 DEF SequentialInv, OneTurnAtATime, Busy
  <1>3. (ContextIsSaved /\ ExpiredStays)'
    BY <1>1 DEF SequentialInv, ContextIsSaved, ExpiredStays
  <1>4. QED
    BY <1>1, <1>2, <1>3 DEF SequentialInv, SequentialTurnsKept, LifeAccounted, Entry

\* No other turn of an undisturbed conversation is in flight with r.
LEMMA Alone ==
    ASSUME SequentialInv, NEW r \in Requests, pc[r] \in InFlight, conv[r] \notin disturbed,
           NEW q \in Requests, conv[q] = conv[r], pc[q] \in InFlight
    PROVE  q = r
  BY DEF SequentialInv, OneTurnAtATime

\* The turn takes over what was saved, or starts the count of saved turns afresh.
LEMMA SequentialLoad ==
    ASSUME TypeOK, SequentialInv, NEW r \in Requests, Load(r)
    PROVE  SequentialInv'
  <1>1. /\ UNCHANGED <<backend, store, ttl, idle, conv, disturbed>>
        /\ \A q \in Requests : q # r => pc'[q] = pc[q] /\ context'[q] = context[q]
        /\ \A c \in Conversations : c # conv[r] => saved'[c] = saved[c]
        /\ pc[r] = "arrived" /\ pc[r] \in InFlight
        /\ pc'[r] \in {"expired", "loaded"} /\ pc'[r] \in InFlight
        /\ conv[r] \in Conversations
    BY DEF Load, Begin, Goto, InFlight, TypeOK
  <1>2. \/ /\ pc'[r] = "expired" /\ backend = "memory" /\ ttl["memory"][conv[r]] = 0
           /\ saved' = saved
        \/ /\ pc'[r] = "loaded" /\ Entry(conv[r]) = None
           /\ context'[r].messages = <<>> /\ saved'[conv[r]] = <<>>
        \/ /\ pc'[r] = "loaded" /\ Entry(conv[r]) # None
           /\ context'[r] = Entry(conv[r]) /\ saved' = saved
    BY DEF Load, Begin, Goto, NewState, TypeOK
  <1>3. OneTurnAtATime'
    BY <1>1 DEF SequentialInv, OneTurnAtATime
  <1>4. SequentialTurnsKept'
    BY <1>1, <1>2 DEF SequentialInv, SequentialTurnsKept, Entry
  <1>5. ContextIsSaved'
    <2> SUFFICES ASSUME NEW q \in Requests, pc'[q] \in {"loaded", "answered"},
                        conv[q] \notin disturbed
                 PROVE  context'[q].messages = saved'[conv[q]]
      BY <1>1 DEF ContextIsSaved
    <2>1. CASE q = r
      BY <1>1, <1>2, <2>1 DEF SequentialInv, SequentialTurnsKept
    <2>2. CASE q # r
      <3>1. pc[q] \in InFlight /\ pc[q] \in {"loaded", "answered"}
        BY <1>1, <2>2 DEF InFlight
      <3>2. conv[q] # conv[r]
        BY <1>1, <2>2, <3>1, Alone
      <3>3. conv[q] \in Conversations
        BY DEF TypeOK
      <3>4. QED
        BY <1>1, <2>2, <3>1, <3>2, <3>3 DEF SequentialInv, ContextIsSaved
    <2>3. QED
      BY <2>1, <2>2
  <1>6. ExpiredStays'
    BY <1>1, <1>2 DEF SequentialInv, ExpiredStays
  <1>7. LifeAccounted'
    BY <1>1 DEF SequentialInv, LifeAccounted
  <1>8. QED
    BY <1>3, <1>4, <1>5, <1>6, <1>7 DEF SequentialInv

LEMMA SequentialPop ==
    ASSUME TypeOK, SequentialInv, NEW r \in Requests, PopExpired(r)
    PROVE  SequentialInv'
  <1>1. /\ UNCHANGED <<backend, conv, disturbed>>
        /\ \A q \in Requests : q # r => pc'[q] = pc[q] /\ context'[q] = context[q]
        /\ \A c \in Conversations : c # conv[r] => saved'[c] = saved[c]
        /\ pc[r] = "expired" /\ pc[r] \in InFlight
        /\ pc'[r] = "loaded"  /\ pc'[r] \in InFlight
        /\ conv[r] \in Conversations
        /\ context'[r].messages = <<>> /\ saved'[conv[r]] = <<>>
    BY DEF PopExpired, Begin, Goto, NewState, InFlight, TypeOK
  <1>2. /\ store'["memory"][conv[r]] = None
        /\ \A b \in Backend, c \in Conversations :
              b # "memory" \/ c # conv[r] =>
                  /\ store'[b][c] = store[b][c]
                  /\ ttl'[b][c] = ttl[b][c] /\ idle'[b][c] = idle[b][c]
    BY <1>1 DEF PopExpired, Backend, TypeOK
  <1>3. backend = "memory" /\ backend \in Backend
    BY <1>1 DEF SequentialInv, ExpiredStays, TypeOK
  <1>4. OneTurnAtATime'
    BY <1>1 DEF SequentialInv, OneTurnAtATime
  <1>5. SequentialTurnsKept'
    BY <1>1, <1>2, <1>3 DEF SequentialInv, SequentialTurnsKept, Entry
  <1>6. ContextIsSaved'
    <2> SUFFICES ASSUME NEW q \in Requests, pc'[q] \in {"loaded", "answered"},
                        conv[q] \notin disturbed
                 PROVE  context'[q].messages = saved'[conv[q]]
      BY <1>1 DEF ContextIsSaved
    <2>1. CASE q = r
      BY <1>1, <2>1
    <2>2. CASE q # r
      <3>1. pc[q] \in InFlight /\ pc[q] \in {"loaded", "answered"}
        BY <1>1, <2>2 DEF InFlight
      <3>2. conv[q] # conv[r] /\ conv[q] \in Conversations
        BY <1>1, <2>2, <3>1, Alone DEF TypeOK
      <3>3. QED
        BY <1>1, <2>2, <3>1, <3>2 DEF SequentialInv, ContextIsSaved
    <2>3. QED
      BY <2>1, <2>2
  <1>7. ExpiredStays'
    <2> SUFFICES ASSUME NEW q \in Requests, pc'[q] = "expired"
                 PROVE  /\ backend = "memory"
                        /\ conv[q] \in disturbed \/ store'["memory"][conv[q]] = None
                           \/ ttl'["memory"][conv[q]] = 0
      BY <1>1 DEF ExpiredStays
    <2>1. q # r /\ pc[q] = "expired" /\ conv[q] \in Conversations
      BY <1>1 DEF TypeOK
    <2>2. QED
      BY <1>2, <1>3, <2>1 DEF SequentialInv, ExpiredStays
  <1>8. LifeAccounted'
    BY <1>2 DEF SequentialInv, LifeAccounted
  <1>9. QED
    BY <1>4, <1>5, <1>6, <1>7, <1>8 DEF SequentialInv

\* The turn saves its context and itself, which is what was saved and itself.
LEMMA SequentialSave ==
    ASSUME TypeOK, SequentialInv, NEW r \in Requests, Save(r) \/ SaveRaises(r)
    PROVE  SequentialInv'
  <1>1. /\ UNCHANGED <<backend, conv, context, disturbed>>
        /\ \A q \in Requests : q # r => pc'[q] = pc[q]
        /\ \A c \in Conversations : c # conv[r] => saved'[c] = saved[c]
        /\ saved'[conv[r]] = Append(saved[conv[r]], r)
        /\ pc[r] = "answered" /\ pc[r] \in InFlight
        /\ pc'[r] \in {"stored", "failed"} /\ Write(r)
        /\ conv[r] \in Conversations /\ backend \in Backend
    BY DEF Save, SaveRaises, Write, Goto, InFlight, TypeOK
  <1>2. /\ store'[backend][conv[r]].messages = Append(context[r].messages, r)
        /\ ttl'[backend][conv[r]] = SessionTTL /\ idle'[backend][conv[r]] = 0
        /\ \A b \in Backend, c \in Conversations :
              b # backend \/ c # conv[r] =>
                  /\ store'[b][c] = store[b][c]
                  /\ ttl'[b][c] = ttl[b][c] /\ idle'[b][c] = idle[b][c]
    BY <1>1 DEF Write, NextState, LifeAfterSave, TypeOK
  <1>3. OneTurnAtATime'
    BY <1>1 DEF SequentialInv, OneTurnAtATime
  <1>4. SequentialTurnsKept'
    BY <1>1, <1>2 DEF SequentialInv, SequentialTurnsKept, ContextIsSaved, Entry
  <1>5. ContextIsSaved'
    <2> SUFFICES ASSUME NEW q \in Requests, pc'[q] \in {"loaded", "answered"},
                        conv[q] \notin disturbed
                 PROVE  context[q].messages = saved'[conv[q]]
      BY <1>1 DEF ContextIsSaved
    <2>1. q # r /\ pc[q] \in InFlight /\ pc[q] \in {"loaded", "answered"}
      BY <1>1 DEF InFlight
    <2>2. conv[q] # conv[r] /\ conv[q] \in Conversations
      BY <1>1, <2>1, Alone DEF TypeOK
    <2>3. QED
      BY <1>1, <2>1, <2>2 DEF SequentialInv, ContextIsSaved
  <1>6. ExpiredStays'
    <2> SUFFICES ASSUME NEW q \in Requests, pc'[q] = "expired"
                 PROVE  /\ backend = "memory"
                        /\ conv[q] \in disturbed \/ store'["memory"][conv[q]] = None
                           \/ ttl'["memory"][conv[q]] = 0
      BY <1>1 DEF ExpiredStays
    <2>1. q # r /\ pc[q] = "expired" /\ conv[q] \in Conversations /\ pc[q] \in InFlight
      BY <1>1 DEF TypeOK, InFlight
    <2>2. conv[q] # conv[r] \/ conv[q] \in disturbed
      BY <1>1, <2>1, Alone
    <2>3. QED
      BY <1>2, <2>1, <2>2 DEF SequentialInv, ExpiredStays, Backend
  <1>7. LifeAccounted'
    <2> SUFFICES ASSUME NEW b \in Backend, NEW c \in Conversations, store'[b][c] # None
                 PROVE  ttl'[b][c] + idle'[b][c] = SessionTTL
      BY DEF LifeAccounted
    <2>1. CASE b = backend /\ c = conv[r]
      BY <1>2, <2>1, CapAssumption
    <2>2. CASE b # backend \/ c # conv[r]
      BY <1>2, <2>2 DEF SequentialInv, LifeAccounted
    <2>3. QED
      BY <2>1, <2>2
  <1>8. QED
    BY <1>3, <1>4, <1>5, <1>6, <1>7 DEF SequentialInv

\* Time: a record's lost life is gained by its age.
LEMMA SequentialTick ==
    ASSUME TypeOK, SequentialInv, Tick
    PROVE  SequentialInv'
  <1>1. UNCHANGED <<backend, pc, conv, context, saved, disturbed>>
    BY DEF Tick
  <1>2. ASSUME NEW b \in Backend, NEW c \in Conversations
        PROVE  /\ store'[b][c] = store[b][c] \/ store'[b][c] = None
               /\ ttl'[b][c] = IF ttl[b][c] = 0 THEN 0 ELSE ttl[b][c] - 1
               /\ store'[b][c] # None /\ idle[b][c] # SessionTTL =>
                     idle'[b][c] = idle[b][c] + 1
               /\ store'[b][c] # None /\ idle[b][c] = SessionTTL =>
                     idle'[b][c] = SessionTTL
    BY DEF Tick, TypeOK, Backend
  <1>3. backend \in Backend /\ "memory" \in Backend
    BY DEF TypeOK, Backend
  <1>4. OneTurnAtATime' /\ SequentialTurnsKept' /\ ContextIsSaved'
    BY <1>1, <1>2, <1>3
       DEF SequentialInv, OneTurnAtATime, SequentialTurnsKept, ContextIsSaved, Entry
  <1>5. ExpiredStays'
    <2> SUFFICES ASSUME NEW q \in Requests, pc[q] = "expired"
                 PROVE  /\ backend = "memory"
                        /\ conv[q] \in disturbed \/ store'["memory"][conv[q]] = None
                           \/ ttl'["memory"][conv[q]] = 0
      BY <1>1 DEF ExpiredStays
    <2>1. conv[q] \in Conversations
      BY DEF TypeOK
    <2>2. QED
      BY <1>2, <1>3, <2>1 DEF SequentialInv, ExpiredStays
  <1>6. LifeAccounted'
    <2> SUFFICES ASSUME NEW b \in Backend, NEW c \in Conversations, store'[b][c] # None
                 PROVE  ttl'[b][c] + idle'[b][c] = SessionTTL
      BY DEF LifeAccounted
    <2>1. ttl[b][c] + idle[b][c] = SessionTTL /\ ttl[b][c] \in Nat /\ idle[b][c] \in Nat
      BY <1>2, CapAssumption DEF SequentialInv, LifeAccounted, TypeOK
    <2>2. QED
      BY <1>2, <2>1, CapAssumption
  <1>7. QED
    BY <1>4, <1>5, <1>6 DEF SequentialInv

\* A restart loses the turns in flight and the in-memory records; one that comes
\* back with the other store disturbs every conversation.
LEMMA SequentialRestart ==
    ASSUME TypeOK, SequentialInv, Restart
    PROVE  SequentialInv'
  <1>1. /\ UNCHANGED <<conv, context, saved>>
        /\ disturbed \subseteq disturbed'
        /\ backend' # backend => disturbed' = Conversations
        /\ \A q \in Requests : pc'[q] \notin InFlight
    BY DEF Restart, InFlight, TypeOK
  <1>2. \A b \in Backend, c \in Conversations :
            store'[b][c] # None => /\ store'[b][c] = store[b][c]
                                   /\ ttl'[b][c] = ttl[b][c] /\ idle'[b][c] = idle[b][c]
    BY DEF Restart, TypeOK, Backend
  <1>3. OneTurnAtATime' /\ ContextIsSaved' /\ ExpiredStays'
    BY <1>1 DEF OneTurnAtATime, ContextIsSaved, ExpiredStays, InFlight
  <1>4. SequentialTurnsKept'
    <2> SUFFICES ASSUME NEW c \in Conversations, c \notin disturbed',
                        store'[backend'][c] # None
                 PROVE  store'[backend'][c].messages = saved[c]
      BY <1>1 DEF SequentialTurnsKept, Entry
    <2>1. backend' = backend /\ backend \in Backend /\ c \notin disturbed
      BY <1>1 DEF TypeOK
    <2>2. QED
      BY <1>2, <2>1 DEF SequentialInv, SequentialTurnsKept, Entry
  <1>5. LifeAccounted'
    BY <1>2 DEF SequentialInv, LifeAccounted
  <1>6. QED
    BY <1>3, <1>4, <1>5 DEF SequentialInv

LEMMA SequentialStep == TypeOK /\ SequentialInv /\ [Next]_vars => SequentialInv'
  <1> SUFFICES ASSUME TypeOK, SequentialInv, [Next]_vars PROVE SequentialInv'
    OBVIOUS
  <1>1. CASE RedisMoves \/ UNCHANGED vars
    BY <1>1 DEF RedisMoves, vars, SequentialInv, OneTurnAtATime, SequentialTurnsKept,
                ContextIsSaved, ExpiredStays, LifeAccounted, Entry
  <1>2. QED
    BY <1>1, SequentialMove, SequentialArrive, SequentialLoad, SequentialPop,
       SequentialSave, SequentialTick, SequentialRestart DEF Next

\* On a conversation whose turns never overlap, in a process that keeps its kind
\* of store, the record holds every turn since the conversation last started
\* afresh (sessions.py 4-6).
THEOREM SequentialTurnsAreKept == Spec => []SequentialTurnsKept
  <1>1. SequentialInv => SequentialTurnsKept
    BY DEF SequentialInv
  <1>2. QED
    BY <1>1, TypeCorrect, InitSequential, SequentialStep, PTL DEF Spec

\* A record disappears only at the end of its TTL, or from the in-memory store:
\* with its process, or by the clean-up of a turn whose conversation has overlapping
\* turns (sessions.py 11-12, 119-128).
THEOREM RecordsLive == Spec => RecordsLiveTheirTTL
  <1> DEFINE Lives ==
        \A b \in Backend, c \in Conversations :
            store[b][c] # None /\ store'[b][c] = None =>
                \/ idle[b][c] + 1 >= SessionTTL
                \/ b = "memory" /\ restarts' # restarts
                \/ b = "memory" /\ \E r \in Requests : conv[r] = c /\ DropsUnderOverlap(r)
  <1>1. ASSUME IInv, SequentialInv, [Next]_vars PROVE Lives
    <2> DEFINE Excused(b, c) ==
                \/ idle[b][c] + 1 >= SessionTTL
                \/ b = "memory" /\ restarts' # restarts
                \/ b = "memory" /\ \E r \in Requests : conv[r] = c /\ DropsUnderOverlap(r)
    <2> SUFFICES ASSUME NEW b \in Backend, NEW c \in Conversations,
                        store[b][c] # None, store'[b][c] = None
                 PROVE  Excused(b, c)
      OBVIOUS
    <2>1. ttl[b][c] + idle[b][c] = SessionTTL /\ ttl[b][c] \in Nat /\ idle[b][c] \in Nat
      BY <1>1, CapAssumption DEF SequentialInv, LifeAccounted, IInv, TypeOK
    <2>2. ASSUME NEW r \in Requests, PopExpired(r)
          PROVE  Excused(b, c)
      <3>1. b = "memory" /\ c = conv[r]
        BY <1>1, <2>2 DEF PopExpired, IInv, TypeOK, Backend
      <3>2. pc[r] = "expired" /\ pc'[r] = "loaded"
        BY <1>1, <2>2 DEF PopExpired, Begin, Goto, IInv, TypeOK
      <3>3. ttl[b][c] = 0 \/ c \in disturbed
        BY <1>1, <3>1, <3>2 DEF SequentialInv, ExpiredStays
      <3>4. QED
        BY <2>1, <3>1, <3>2, <3>3, CapAssumption DEF DropsUnderOverlap
    <2>3. CASE Tick
      <3>1. ttl[b][c] <= 1
        BY <1>1, <2>3 DEF Tick, IInv, TypeOK, Backend
      <3>2. QED
        BY <2>1, <3>1, CapAssumption
    <2>4. CASE Restart
      BY <1>1, <2>4 DEF Restart, IInv, TypeOK, Backend
    <2>5. ASSUME NEW r \in Requests, Save(r) \/ SaveRaises(r) PROVE FALSE
      <3>1. NextState(r) \in State
        BY <1>1, <2>5, NextStateTyped DEF Save, SaveRaises
      <3>2. store'[b][c] = store[b][c] \/ store'[b][c] = NextState(r)
        <4>1. Write(r)
          BY <2>5 DEF Save, SaveRaises
        <4>2. QED
          BY <1>1, <4>1 DEF Write, IInv, TypeOK
      <3>3. QED
        BY <3>1, <3>2, NoneAssumption
    <2>6. CASE UNCHANGED store
      BY <2>6
    <2>7. CASE UNCHANGED vars
      BY <2>7 DEF vars
    <2>8. QED
      BY <1>1, <2>2, <2>3, <2>4, <2>5, <2>6, <2>7
         DEF Next, Arrive, Load, Limit, Answer, Abort, StoreRaises, Reply, ReplyRaises, RedisMoves
  <1>2. [][IInv /\ SequentialInv /\ [Next]_vars]_vars => RecordsLiveTheirTTL
    <2>1. [IInv /\ SequentialInv /\ [Next]_vars]_vars => [Lives]_vars
      BY <1>1
    <2>2. QED
      BY <2>1, PTL DEF RecordsLiveTheirTTL
  <1>3. IInv => TypeOK
    BY DEF IInv
  <1>4. QED
    BY <1>2, <1>3, HistoriesSound, InitSequential, SequentialStep, PTL DEF Spec
=============================================================================
