---------------------------- MODULE StatusCache ----------------------------
(***************************************************************************)
(* serving/degrade.py, class StatusCache: the endpoint verdict every API   *)
(* worker thread shares.  The route handlers are plain `def` functions, so *)
(* the web framework runs them on a pool of threads and the unlocked       *)
(* statements of current() and invalidate() interleave.                    *)
(*                                                                         *)
(* Time is relative: expiresIn is the time left before _deadline and age   *)
(* the time since a verdict was observed; both count in ticks.             *)
(***************************************************************************)
EXTENDS Integers

CONSTANTS
    Callers,   \* the worker threads that may be inside current()
    TTL,       \* STATUS_CACHE_TTL_S, in ticks
    ProbeMax,  \* ticks an observed verdict may still travel: the client's timeout
    None       \* Python's None

ASSUME TimeAssumption == TTL \in Nat \ {0} /\ ProbeMax \in Nat

Status == {"up", "off", "error"}

ASSUME NoneAssumption == None \notin [status : Status, age : Nat]

VARIABLES
    endpoint,   \* the GPU endpoint as a probe would find it
    cached,     \* _cached: None or a verdict
    expiresIn,  \* ticks until _deadline, 0 once the clock has reached it
    pc,         \* where each thread is inside current()
    held        \* the verdict a thread observed, and then the one it was given

cacheVars == <<endpoint, cached, expiresIn, pc, held>>

\* "dropped": the box is going away and cuts connections half way.
Endpoint == Status \cup {"dropped"}

\* A verdict on its way to, or in, the cache.  age is a ghost, and stops counting
\* one past the bound that is claimed for it.
MaxAge == TTL + ProbeMax + 1
Verdict == [status : Status, age : 0 .. MaxAge]

PC == {"outside", "deadline", "probe", "answered", "stamp", "read",
       "returned", "raised"}

CacheTypeOK ==
    /\ endpoint \in Endpoint
    /\ cached \in Verdict \cup {None}
    /\ expiresIn \in 0 .. TTL
    /\ pc \in [Callers -> PC]
    /\ held \in [Callers -> Verdict \cup {None}]

CacheInit ==
    /\ endpoint \in Endpoint
    /\ cached = None
    /\ expiresIn = 0
    /\ pc = [r \in Callers |-> "outside"]
    /\ held = [r \in Callers |-> None]

----------------------------------------------------------------------------
(* current(): one action per statement that touches shared state. *)

Goto(r, to) == pc' = [pc EXCEPT ![r] = to]

\* `self._cached is None`
Enter(r) ==
    /\ pc[r] = "outside"
    /\ Goto(r, IF cached = None THEN "probe" ELSE "deadline")
    /\ UNCHANGED <<endpoint, cached, expiresIn, held>>

NeverExpires == FALSE   \* mutant: the deadline is ignored

\* `self._clock() >= self._deadline`
Expired == expiresIn = 0

\* mutant: a hit moves the deadline, as if the window slid with every request
CheckDeadlineSliding(r) ==
    /\ pc[r] = "deadline"
    /\ Goto(r, IF Expired THEN "probe" ELSE "read")
    /\ expiresIn' = IF Expired THEN 0 ELSE TTL
    /\ UNCHANGED <<endpoint, cached, held>>

CheckDeadline(r) ==
    /\ pc[r] = "deadline"
    /\ Goto(r, IF Expired THEN "probe" ELSE "read")
    /\ UNCHANGED <<endpoint, cached, expiresIn, held>>

\* LLMClient.health(): a verdict for each way the endpoint can answer.
HealthVerdict(e) == [status |-> e, age |-> 0]

\* `self._probe()` observes the endpoint; the verdict is still in the thread.
Answer(r) ==
    /\ pc[r] = "probe"
    /\ endpoint \in Status
    /\ Goto(r, "answered")
    /\ held' = [held EXCEPT ![r] = HealthVerdict(endpoint)]
    /\ UNCHANGED <<endpoint, cached, expiresIn>>

\* mutant: the probe is retried for as long as connections are dropped
ProbeRetries(r) ==
    /\ pc[r] = "probe"
    /\ endpoint = "dropped"
    /\ UNCHANGED cacheVars

\* A connection lost mid-answer is in neither _OFF_ERRORS nor _ERROR_ERRORS:
\* it leaves health() and current() as an exception, before the assignment.
ProbeRaises(r) ==
    /\ pc[r] = "probe"
    /\ endpoint = "dropped"
    /\ Goto(r, "raised")
    /\ UNCHANGED <<endpoint, cached, expiresIn, held>>

\* `self._cached = ...`
Store(r) ==
    /\ pc[r] = "answered"
    /\ cached' = held[r]
    /\ held' = [held EXCEPT ![r] = None]
    /\ Goto(r, "stamp")
    /\ UNCHANGED <<endpoint, expiresIn>>

\* `self._deadline = self._clock() + self._ttl_s`
Stamp(r) ==
    /\ pc[r] = "stamp"
    /\ expiresIn' = TTL
    /\ Goto(r, "read")
    /\ UNCHANGED <<endpoint, cached, held>>

\* `return self._cached`: a second read of the shared field.
Return(r) ==
    /\ pc[r] = "read"
    /\ held' = [held EXCEPT ![r] = cached]
    /\ Goto(r, "returned")
    /\ UNCHANGED <<endpoint, cached, expiresIn>>

\* The handler is done with the verdict (or with the exception).
Leave(r) ==
    /\ pc[r] \in {"returned", "raised"}
    /\ Goto(r, "outside")
    /\ held' = [held EXCEPT ![r] = None]
    /\ UNCHANGED <<endpoint, cached, expiresIn>>

\* invalidate(), called by a handler whose turn the endpoint did not finish.
Invalidate(r) ==
    /\ pc[r] = "returned"
    /\ held[r] # None
    /\ held[r].status = "up"
    /\ cached' = None
    /\ Goto(r, "outside")
    /\ held' = [held EXCEPT ![r] = None]
    /\ UNCHANGED <<endpoint, expiresIn>>

----------------------------------------------------------------------------
(* The environment. *)

EndpointMoves ==
    /\ endpoint' \in Endpoint \ {endpoint}
    /\ UNCHANGED <<cached, expiresIn, pc, held>>

\* Statements between two waits take no time: the clock moves only while every
\* thread is outside, waiting on the probe or done with the call.
Older(v) ==
    IF v = None \/ v.age = MaxAge THEN v ELSE [v EXCEPT !.age = @ + 1]

Tick ==
    /\ \A r \in Callers :
          \/ pc[r] \in {"outside", "probe", "returned", "raised"}
          \/ pc[r] = "answered" /\ held[r].age < ProbeMax
    /\ expiresIn' = IF expiresIn = 0 THEN 0 ELSE expiresIn - 1
    /\ cached' = Older(cached)
    /\ held' = [r \in Callers |->
                  IF pc[r] = "answered" THEN Older(held[r]) ELSE held[r]]
    /\ UNCHANGED <<endpoint, pc>>

----------------------------------------------------------------------------

\* The steps of current() a thread takes once it is inside.
CallStep(r) ==
    CheckDeadline(r) \/ Answer(r) \/ ProbeRaises(r) \/ Store(r) \/ Stamp(r) \/ Return(r)

CacheNext ==
    \/ \E r \in Callers : Enter(r) \/ CallStep(r) \/ Leave(r) \/ Invalidate(r)
    \/ EndpointMoves
    \/ Tick

CacheSpec == CacheInit /\ [][CacheNext]_cacheVars

----------------------------------------------------------------------------
(* Properties. *)

\* What a thread is told is never older than one TTL window plus the time an
\* answer may travel, however the threads' stores and deadline stamps
\* interleave (degrade.py 48-52): the deadline always belongs to a verdict at
\* least as recent as the promise it makes.
BoundedStaleness ==
    \A r \in Callers :
        pc[r] = "returned" /\ held[r] # None => held[r].age <= TTL + ProbeMax

\* current() is annotated `-> EndpointStatus` and every caller dereferences the
\* result: no thread is handed None.
CurrentReturnsAStatus ==
    \A r \in Callers : pc[r] = "returned" => held[r] # None
=============================================================================
