---------------------------- MODULE ChatService ----------------------------
(***************************************************************************)
(* serving/app.py: the request handlers that stand on the status cache.    *)
(* POST /api/chat runs limiter, cached verdict, authorization, database    *)
(* session, orchestrator turn, accounting, response; GET /api/status and   *)
(* GET /api/health only ask for the verdict.  The turn itself (module      *)
(* Orchestrator) is abstracted to the ways it can end.                     *)
(***************************************************************************)
EXTENDS StatusCache, FiniteSets

CONSTANTS
    Auth       \* CHAT_AUTH / API_AUTH_TOKENS: "disabled", "unset" or "tokens"

ASSUME AuthAssumption == Auth \in {"disabled", "unset", "tokens"}

VARIABLES
    stage,      \* where each worker thread is in its handler
    token,      \* the bearer token of the chat request whose turn it runs
    dbOpen,     \* threads whose database session is open
    recorded,   \* the kinds counters.record() was called with for the request
    response    \* what the thread is about to send

chatVars == <<stage, token, dbOpen, recorded, response>>
vars == <<endpoint, cached, expiresIn, pc, held,
          stage, token, dbOpen, recorded, response>>

Token == {"valid", "invalid"}   \* an absent token is an invalid one
Stage == {"idle", "verdict", "turn", "aborted", "respond"}
Kind == {"off", "denied", "limit", "aborted", "up"}   \* MetricsAccumulator's statuses
Response == {"none", "status_200", "offline_200", "answer_200", "limit_400",
             "unauthorized_401", "rate_429", "internal_500", "auth_503"}

TypeOK ==
    /\ CacheTypeOK
    /\ stage \in [Callers -> Stage]
    /\ token \in [Callers -> Token]
    /\ dbOpen \subseteq Callers
    /\ recorded \in [Callers -> SUBSET Kind]
    /\ response \in [Callers -> Response]

Init ==
    /\ CacheInit
    /\ stage = [r \in Callers |-> "idle"]
    /\ token = [r \in Callers |-> "invalid"]
    /\ dbOpen = {}
    /\ recorded = [r \in Callers |-> {}]
    /\ response = [r \in Callers |-> "none"]

----------------------------------------------------------------------------

\* The handler returns; accounting is what counters.record() added.
Reply(r, resp, kinds) ==
    /\ stage' = [stage EXCEPT ![r] = "respond"]
    /\ response' = [response EXCEPT ![r] = resp]
    /\ recorded' = [recorded EXCEPT ![r] = @ \cup kinds]
    /\ token' = [token EXCEPT ![r] = "invalid"]

\* slowapi turns the request away before the handler body runs.
RateLimited(r) ==
    /\ stage[r] = "idle"
    /\ stage' = [stage EXCEPT ![r] = "respond"]
    /\ response' = [response EXCEPT ![r] = "rate_429"]
    /\ UNCHANGED <<endpoint, cached, expiresIn, pc, held, token, dbOpen, recorded>>

\* `status = cache.current()` is entered, by a chat, a status or a health request:
\* all start with it, and which one it is matters only once the verdict is there.
Arrive(r) ==
    /\ stage[r] = "idle"
    /\ Enter(r)
    /\ stage' = [stage EXCEPT ![r] = "verdict"]
    /\ UNCHANGED <<token, dbOpen, recorded, response>>

InCurrent(r) ==
    /\ stage[r] = "verdict"
    /\ CallStep(r)
    /\ UNCHANGED chatVars

\* An exception out of current(), or `None.status` after it: the middleware's
\* envelope answers.
VerdictFails(r) ==
    /\ stage[r] = "verdict"
    /\ pc[r] = "raised" \/ (pc[r] = "returned" /\ held[r] = None)
    /\ Leave(r)
    /\ Reply(r, "internal_500", {})
    /\ UNCHANGED dbOpen

HasVerdict(r) == stage[r] = "verdict" /\ pc[r] = "returned" /\ held[r] # None

\* /api/status and /api/health report the verdict.
StatusReply(r) ==
    /\ HasVerdict(r)
    /\ Leave(r)
    /\ Reply(r, "status_200", {})
    /\ UNCHANGED dbOpen

\* mutant: an offline answer drops the verdict, so a paused GPU is probed by
\* every request
OfflineReplyDrops(r) ==
    /\ HasVerdict(r)
    /\ held[r].status # "up"
    /\ cached' = None
    /\ Goto(r, "outside")
    /\ held' = [held EXCEPT ![r] = None]
    /\ UNCHANGED <<endpoint, expiresIn>>
    /\ Reply(r, "offline_200", {"off"})
    /\ UNCHANGED dbOpen

OfflineReply(r) ==
    /\ HasVerdict(r)
    /\ held[r].status # "up"
    /\ Leave(r)
    /\ Reply(r, "offline_200", {"off"})
    /\ UNCHANGED dbOpen

AuthorizeOpen(t) == IF Auth = "unset" THEN "auth_503" ELSE "allowed"   \* mutant: any token

\* authorize_chat(): None or the denial.
AuthorizeChat(t) ==
    CASE Auth = "disabled"                          -> "allowed"
      [] Auth = "unset"                             -> "auth_503"
      [] Auth = "tokens" /\ t = "valid"         -> "allowed"
      [] Auth = "tokens" /\ t = "invalid"     -> "unauthorized_401"

Denied(r, t) ==
    /\ HasVerdict(r)
    /\ held[r].status = "up"
    /\ AuthorizeChat(t) # "allowed"
    /\ Leave(r)
    /\ Reply(r, AuthorizeChat(t), {"denied"})
    /\ UNCHANGED dbOpen

\* get_db() and the Orchestrator's construction.
StartTurn(r, t) ==
    /\ HasVerdict(r)
    /\ held[r].status = "up"
    /\ AuthorizeChat(t) = "allowed"
    /\ stage' = [stage EXCEPT ![r] = "turn"]
    /\ token' = [token EXCEPT ![r] = t]
    /\ dbOpen' = dbOpen \cup {r}
    /\ UNCHANGED <<endpoint, cached, expiresIn, pc, held,
                   recorded, response>>

LeaveDbOpen(r) == dbOpen' = dbOpen   \* mutant: close only on the paths that return

\* `finally: db.close()`
CloseDb(r) == dbOpen' = dbOpen \ {r}

\* SessionLimitError: refused by check_limits before any model call.
TurnLimited(r) ==
    /\ stage[r] = "turn"
    /\ CloseDb(r)
    /\ Leave(r)
    /\ Reply(r, "limit_400", {"limit"})

\* Any other exception out of the turn (a database error in a tool).
TurnRaises(r) ==
    /\ stage[r] = "turn"
    /\ CloseDb(r)
    /\ Leave(r)
    /\ Reply(r, "internal_500", {})

\* The model answered; accounting, then the response.
TurnAnswers(r) ==
    /\ stage[r] = "turn"
    /\ endpoint = "up"
    /\ dbOpen' = dbOpen \ {r}
    /\ Leave(r)
    /\ Reply(r, "answer_200", {"up"})

\* TurnAborted: a model call found the endpoint gone, or the rounds ran out.
TurnAborts(r) ==
    /\ stage[r] = "turn"
    /\ dbOpen' = dbOpen \ {r}
    /\ stage' = [stage EXCEPT ![r] = "aborted"]
    /\ UNCHANGED <<endpoint, cached, expiresIn, pc, held,
                   token, recorded, response>>

\* `cache.invalidate()`, the counter and the offline payload.
AbortKindsBilled == {"aborted", "up"}   \* mutant: the turn is billed as well
AbortKinds == {"aborted"}

AbortReply(r) ==
    /\ stage[r] = "aborted"
    /\ Invalidate(r)
    /\ Reply(r, "offline_200", AbortKinds)
    /\ UNCHANGED dbOpen

Send(r) ==
    /\ stage[r] = "respond"
    /\ stage' = [stage EXCEPT ![r] = "idle"]
    /\ recorded' = [recorded EXCEPT ![r] = {}]
    /\ response' = [response EXCEPT ![r] = "none"]
    /\ UNCHANGED <<endpoint, cached, expiresIn, pc, held, token, dbOpen>>

----------------------------------------------------------------------------

\* What a worker thread does once it has a request.
Work(r) ==
    \/ InCurrent(r) \/ VerdictFails(r) \/ StatusReply(r) \/ OfflineReply(r)
    \/ (\E t \in Token : Denied(r, t) \/ StartTurn(r, t))
    \/ TurnLimited(r) \/ TurnRaises(r) \/ TurnAnswers(r) \/ TurnAborts(r)
    \/ AbortReply(r) \/ Send(r)

Environment == (EndpointMoves \/ Tick) /\ UNCHANGED chatVars

Next ==
    \/ \E r \in Callers :
          RateLimited(r) \/ Arrive(r) \/ Work(r)
    \/ Environment

Spec == Init /\ [][Next]_vars

\* Threads are scheduled, a probe ends (the client's timeout) and so does a turn
\* (its rounds are bounded and each model call times out).  Time diverges: an
\* unexpired deadline is reached, since the statements between which Tick is
\* disabled take no time.
Fairness ==
    /\ \A r \in Callers : WF_vars(Work(r))
    /\ []<>(expiresIn = 0) \/ []<><<Tick /\ UNCHANGED chatVars>>_vars

FairSpec == Spec /\ Fairness

----------------------------------------------------------------------------
(* Properties. *)

\* A turn runs for a caller the configuration admits, on a verdict that said
\* "up", and holds a database session exactly while it runs (app.py 310-330).
PaidPathGuarded ==
    \A r \in Callers :
        /\ (stage[r] = "turn" <=> r \in dbOpen)
        /\ stage[r] \in {"turn", "aborted"} =>
              /\ Auth = "disabled" \/ (Auth = "tokens" /\ token[r] = "valid")
              /\ pc[r] = "returned" /\ held[r] # None /\ held[r].status = "up"

\* Every chat answer is accounted for under the one kind its response belongs
\* to, and nothing else is counted (app.py 304-373).
KindsOf(resp) ==
    CASE resp = "answer_200" -> {{"up"}}
      [] resp = "offline_200" -> {{"off"}, {"aborted"}}
      [] resp = "limit_400" -> {{"limit"}}
      [] resp \in {"unauthorized_401", "auth_503"} -> {{"denied"}}
      [] OTHER -> {{}}

CountedOnce ==
    \A r \in Callers :
        /\ stage[r] = "respond" => recorded[r] \in KindsOf(response[r])
        /\ stage[r] # "respond" => recorded[r] = {}

\* Once the endpoint stays in one state for good, the threads end up being told
\* so and nothing else: neither a lost invalidation nor a deadline stamped late
\* keeps an outdated verdict alive for ever (degrade.py 48-55).
VerdictConverges ==
    \A e \in Status :
        <>[](endpoint = e) =>
            <>[](\A r \in Callers :
                    pc[r] = "returned" /\ held[r] # None => held[r].status = e)

\* Every request that was let in is answered, whatever the endpoint does.
EveryRequestAnswered ==
    \A r \in Callers : stage[r] # "idle" ~> stage[r] = "idle"
=============================================================================
