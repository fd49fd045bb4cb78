------------------------------ MODULE Sessions ------------------------------
(***************************************************************************)
(* serving/sessions.py with the load ... save span of Orchestrator.run_turn*)
(* around it: conversation records in a store that concurrent turns share. *)
(* run_turn loads the record, works for seconds on its private copy, and   *)
(* writes the whole copy back; nothing locks a conversation in between.    *)
(* The app picks Redis or the in-memory store once, when it starts.        *)
(***************************************************************************)
EXTENDS Integers, SequencesExt

CONSTANTS
    Requests,       \* chat requests; each is one turn
    Conversations,  \* conversation ids the clients know
    MaxTurns,       \* MAX_TURNS
    SessionTTL,     \* SESSION_TTL_S, in ticks
    MaxRestarts,    \* bound on process restarts
    None            \* Python's None

ASSUME CapAssumption ==
    MaxTurns \in Nat \ {0} /\ SessionTTL \in Nat \ {0} /\ MaxRestarts \in Nat

VARIABLES
    backend,    \* the store this process uses: "memory" or "redis"
    redisUp,    \* Redis answers
    store,      \* store[b][c]: the stored record, or None
    ttl,        \* ttl[b][c]: ticks until the entry expires, 0 = expired
    pc,         \* where each request is
    conv,       \* its conversation
    context,    \* the ConversationState it loaded: its private copy
    restarts,
    idle,       \* ghost: idle[b][c]: ticks since the record was saved
    saved,      \* ghost: turns saved in c since a load last found no record
    disturbed   \* ghost: conversations with overlapping turns or a changed store

vars == <<backend, redisUp, store, ttl, pc, conv, context, restarts,
          idle, saved, disturbed>>

Backend == {"memory", "redis"}

\* ConversationState: turn_count, and of messages which turns they belong to.
State == [turns : 0 .. MaxTurns, messages : Seq(Requests)]
NewState == [turns |-> 0, messages |-> <<>>]

ASSUME NoneAssumption == None \notin State

PC == {"new", "arrived", "expired", "loaded", "answered", "stored",
       "served", "limit", "aborted", "failed", "lost"}

TypeOK ==
    /\ backend \in Backend
    /\ redisUp \in BOOLEAN
    /\ store \in [Backend -> [Conversations -> State \cup {None}]]
    /\ ttl \in [Backend -> [Conversations -> 0 .. SessionTTL]]
    /\ pc \in [Requests -> PC]
    /\ conv \in [Requests -> Conversations]
    /\ context \in [Requests -> State]
    /\ restarts \in 0 .. MaxRestarts
    /\ idle \in [Backend -> [Conversations -> 0 .. SessionTTL]]
    /\ saved \in [Conversations -> Seq(Requests)]
    /\ disturbed \subseteq Conversations

Init ==
    /\ redisUp \in BOOLEAN
    /\ backend = IF redisUp THEN "redis" ELSE "memory"
    /\ store = [b \in Backend |-> [c \in Conversations |-> None]]
    /\ ttl = [b \in Backend |-> [c \in Conversations |-> 0]]
    /\ pc = [r \in Requests |-> "new"]
    /\ conv \in [Requests -> Conversations]
    /\ context = [r \in Requests |-> NewState]
    /\ restarts = 0
    /\ idle = [b \in Backend |-> [c \in Conversations |-> 0]]
    /\ saved = [c \in Conversations |-> <<>>]
    /\ disturbed = {}

----------------------------------------------------------------------------

Goto(r, to) == pc' = [pc EXCEPT ![r] = to]

InFlight == {"arrived", "expired", "loaded", "answered", "stored"}
Busy(c) == \E q \in Requests : conv[q] = c /\ pc[q] \in InFlight

\* A second turn may start on a conversation before the first has ended: another
\* tab, or a client that gave up waiting and sent the message again.
Arrive(r) ==
    /\ pc[r] = "new"
    /\ Goto(r, "arrived")
    /\ disturbed' = IF Busy(conv[r]) THEN disturbed \cup {conv[r]} ELSE disturbed
    /\ UNCHANGED <<backend, redisUp, store, ttl, idle, conv, context, restarts, saved>>

Reachable == backend = "redis" => redisUp
Entry(c) == store[backend][c]

\* The state run_turn works on: what was found, else ConversationState.new().
Begin(r, found) ==
    /\ Goto(r, "loaded")
    /\ context' = [context EXCEPT ![r] = IF found = None THEN NewState ELSE found]
    /\ saved' = IF found = None THEN [saved EXCEPT ![conv[r]] = <<>>] ELSE saved

\* InMemorySessionStore.load reads the entry and its deadline in one dict lookup;
\* Redis drops expired keys itself.
Load(r) ==
    /\ pc[r] = "arrived"
    /\ Reachable
    /\ IF backend = "memory" /\ Entry(conv[r]) # None /\ ttl[backend][conv[r]] = 0
       THEN Goto(r, "expired") /\ UNCHANGED <<context, saved>>
       ELSE Begin(r, Entry(conv[r]))
    /\ UNCHANGED <<backend, redisUp, store, ttl, idle, conv, restarts, disturbed>>

\* `self._entries.pop(conversation_id, None)`: whatever is there by now.
PopExpired(r) ==
    /\ pc[r] = "expired"
    /\ store' = [store EXCEPT !["memory"][conv[r]] = None]
    /\ ttl' = [ttl EXCEPT !["memory"][conv[r]] = 0]
    /\ idle' = [idle EXCEPT !["memory"][conv[r]] = 0]
    /\ Begin(r, None)
    /\ UNCHANGED <<backend, redisUp, conv, restarts, disturbed>>

\* check_limits
AtCap(r) == context[r].turns >= MaxTurns

\* SessionLimitError: the turn cap, or a message over MAX_MESSAGE_BYTES.
Limit(r) ==
    /\ pc[r] = "loaded"
    /\ Goto(r, "limit")
    /\ UNCHANGED <<backend, redisUp, store, ttl, idle, conv, context, restarts, saved, disturbed>>

\* The agent loop came to an answer ...
Answer(r) ==
    /\ pc[r] = "loaded"
    /\ ~AtCap(r)
    /\ Goto(r, "answered")
    /\ UNCHANGED <<backend, redisUp, store, ttl, idle, conv, context, restarts, saved, disturbed>>

\* mutant: the state is saved before the abort is noticed
AbortSaved(r) ==
    /\ pc[r] = "loaded"
    /\ ~AtCap(r)
    /\ Goto(r, "aborted")
    /\ store' = [store EXCEPT ![backend][conv[r]] =
                    [context[r] EXCEPT !.messages = Append(@, r)]]
    /\ UNCHANGED <<backend, redisUp, ttl, idle, conv, context, restarts, saved, disturbed>>

\* ... or the turn was aborted, and the state is not saved.
Abort(r) ==
    /\ pc[r] = "loaded"
    /\ ~AtCap(r)
    /\ Goto(r, "aborted")
    /\ UNCHANGED <<backend, redisUp, store, ttl, idle, conv, context, restarts, saved, disturbed>>

\* mutant: the turn is appended to whatever is stored by now
NextStateMerged(r) ==
    LET base == IF Entry(conv[r]) = None THEN NewState ELSE Entry(conv[r]) IN
    [turns |-> context[r].turns + 1, messages |-> Append(base.messages, r)]

NextStateUncounted(r) ==   \* mutant: turn_count is not advanced
    [context[r] EXCEPT !.messages = Append(@, r)]

NextStateForgets(r) ==     \* mutant: only this turn's messages are written back
    [context[r] EXCEPT !.turns = @ + 1, !.messages = <<r>>]

\* state.messages = ..., state.turn_count += 1
NextState(r) ==
    [turns |-> context[r].turns + 1, messages |-> Append(context[r].messages, r)]

\* mutant: the save keeps the deadline of the record it overwrites
LifeAfterSaveOnce(b, c) == IF ttl[b][c] > 0 THEN ttl[b][c] ELSE SessionTTL

\* Every save refreshes the TTL.
LifeAfterSave(b, c) == SessionTTL

Write(r) ==
    /\ store' = [store EXCEPT ![backend][conv[r]] = NextState(r)]
    /\ ttl' = [ttl EXCEPT ![backend][conv[r]] = LifeAfterSave(backend, conv[r])]
    /\ idle' = [idle EXCEPT ![backend][conv[r]] = 0]
    /\ saved' = [saved EXCEPT ![conv[r]] = Append(@, r)]

Save(r) ==
    /\ pc[r] = "answered"
    /\ Reachable
    /\ Goto(r, "stored")
    /\ Write(r)
    /\ UNCHANGED <<backend, redisUp, conv, context, restarts, disturbed>>

\* The SET took effect, but its answer was lost: save() raises all the same.
SaveRaises(r) ==
    /\ backend = "redis"
    /\ pc[r] = "answered"
    /\ Goto(r, "failed")
    /\ Write(r)
    /\ UNCHANGED <<backend, redisUp, conv, context, restarts, disturbed>>

\* Redis went away after the start: its client raises out of load() or save()
\* without effect, and the request ends in the middleware's 500.
StoreRaises(r) ==
    /\ pc[r] \in {"arrived", "answered"}
    /\ ~Reachable
    /\ Goto(r, "failed")
    /\ UNCHANGED <<backend, redisUp, store, ttl, idle, conv, context, restarts, saved, disturbed>>

Reply(r) ==
    /\ pc[r] = "stored"
    /\ Goto(r, "served")
    /\ UNCHANGED <<backend, redisUp, store, ttl, idle, conv, context, restarts, saved, disturbed>>

\* Composing the reply raises: a 500 for a turn that is stored.
ReplyRaises(r) ==
    /\ pc[r] = "stored"
    /\ Goto(r, "failed")
    /\ UNCHANGED <<backend, redisUp, store, ttl, idle, conv, context, restarts, saved, disturbed>>

----------------------------------------------------------------------------
(* The environment. *)

RedisMoves ==
    /\ redisUp' = ~redisUp
    /\ UNCHANGED <<backend, store, ttl, idle, pc, conv, context, restarts, saved, disturbed>>

Tick ==
    /\ \E b \in Backend, c \in Conversations : ttl[b][c] > 0
    /\ ttl' = [b \in Backend |-> [c \in Conversations |->
                  IF ttl[b][c] = 0 THEN 0 ELSE ttl[b][c] - 1]]
    /\ store' = [store EXCEPT !["redis"] =
                  [c \in Conversations |-> IF ttl["redis"][c] <= 1 THEN None ELSE @[c]]]
    /\ idle' = [b \in Backend |-> [c \in Conversations |->
                  IF store'[b][c] = None \/ idle[b][c] = SessionTTL
                  THEN idle[b][c] ELSE idle[b][c] + 1]]
    /\ UNCHANGED <<backend, redisUp, pc, conv, context, restarts, saved, disturbed>>

\* The process dies and starts again: requests in flight are lost, the in-memory
\* store is gone, and the new process takes Redis if it answers now.
Restart ==
    /\ restarts < MaxRestarts
    /\ restarts' = restarts + 1
    /\ backend' = IF redisUp THEN "redis" ELSE "memory"
    /\ pc' = [r \in Requests |-> IF pc[r] \in InFlight THEN "lost" ELSE pc[r]]
    /\ store' = [store EXCEPT !["memory"] = [c \in Conversations |-> None]]
    /\ ttl' = [ttl EXCEPT !["memory"] = [c \in Conversations |-> 0]]
    /\ idle' = [idle EXCEPT !["memory"] = [c \in Conversations |-> 0]]
    /\ disturbed' = IF backend' = backend THEN disturbed ELSE Conversations
    /\ UNCHANGED <<redisUp, conv, context, saved>>

Next ==
    \/ \E r \in Requests :
          \/ Arrive(r) \/ Load(r) \/ PopExpired(r) \/ Limit(r) \/ Answer(r)
          \/ Abort(r) \/ Save(r) \/ SaveRaises(r) \/ StoreRaises(r)
          \/ Reply(r) \/ ReplyRaises(r)
    \/ RedisMoves \/ Tick \/ Restart

Spec == Init /\ [][Next]_vars

----------------------------------------------------------------------------
(* Properties. *)

Records == {store[b][c] : b \in Backend, c \in Conversations} \ {None}

\* A stored record counts exactly the turns whose messages it holds, and races
\* between turns never push it over the cap (sessions.py 82-98).
CountMatchesHistory ==
    \A s \in Records : s.turns = Len(s.messages) /\ s.turns <= MaxTurns

\* A stored history is one conversation that really took place: each turn in it
\* was answered with exactly the turns before it as its context, whatever other
\* turns raced with it (orchestrator.py 222-231, 350-353).
CausalHistory ==
    \A b \in Backend, c \in Conversations :
        store[b][c] # None =>
            LET m == store[b][c].messages IN
            \A i \in DOMAIN m :
                /\ conv[m[i]] = c
                /\ context[m[i]].messages = SubSeq(m, 1, i - 1)

\* A turn that was aborted (endpoint off or in error, rounds exhausted) or refused
\* at a cap is in no history, so its retry starts from the history it started from
\* (orchestrator.py 266-272).  A 500 promises nothing of the kind: the turn may be
\* stored although save() or the reply raised.
AbortedNeverStored ==
    \A s \in Records, r \in Requests :
        pc[r] \in {"aborted", "limit"} => r \notin ToSet(s.messages)

\* On a conversation whose turns never overlap, in a process that keeps its kind
\* of store, the record holds every turn since the conversation last started
\* afresh (sessions.py 4-6).
SequentialTurnsKept ==
    \A c \in Conversations :
        c \notin disturbed /\ Entry(c) # None => Entry(c).messages = saved[c]

\* r drops the entry it found expired while turns of its conversation overlap.
DropsUnderOverlap(r) ==
    pc[r] = "expired" /\ pc'[r] = "loaded" /\ conv[r] \in disturbed

\* A record that is replaced by nothing has lived for its whole TTL since its last
\* save (sessions.py 11-12), and this is all there is to Redis.  The in-memory store
\* has two exceptions: it dies with its process, and its clean-up pops whatever is
\* there by then, which between overlapping turns of one conversation may be a
\* record another turn has just saved (sessions.py 126).
RecordsLiveTheirTTL ==
    [][\A b \in Backend, c \in Conversations :
          store[b][c] # None /\ store'[b][c] = None =>
              \/ idle[b][c] + 1 >= SessionTTL
              \/ b = "memory" /\ restarts' # restarts
              \/ b = "memory" /\ \E r \in Requests : conv[r] = c /\ DropsUnderOverlap(r)]_vars

\* Server-side state "survives across HTTP requests" (sessions.py 4-6): every
\* turn saved since the conversation began is in its record.
NoTurnLost ==
    \A c \in Conversations :
        Entry(c) # None /\ restarts = 0 => ToSet(saved[c]) \subseteq ToSet(Entry(c).messages)
=============================================================================
