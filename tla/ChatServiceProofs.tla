------------------------- MODULE ChatServiceProofs -------------------------
(***************************************************************************)
(* The chat handlers use the status cache only through its operations, so  *)
(* every guarantee of StatusCache is theirs; and the paid path stays       *)
(* guarded whatever the endpoint and the other threads do.                 *)
(***************************************************************************)
EXTENDS ChatService, TLAPS

-----------------------------------------------------------------------------
(* The cache, for any set of worker threads, any TTL and any probe         *)
(* timeout: what it hands out is never older than TTL plus the time an     *)
(* answer may travel.                                                      *)

\* A verdict is Young while it may still be stored, and the deadline in force
\* leaves the cached verdict at most TTL + ProbeMax of life: the two facts that
\* make BoundedStaleness inductive.
Young(v) == v # None => v.age <= ProbeMax
Promised(v) == v # None => v.age <= TTL + ProbeMax

StalenessInv ==
    /\ CacheTypeOK
    /\ \A r \in Callers : pc[r] = "answered" => held[r] # None /\ Young(held[r])
    /\ \A r \in Callers : pc[r] = "stamp" => Young(cached)
    /\ \A r \in Callers : pc[r] = "read" => Promised(cached)
    /\ \A r \in Callers : pc[r] = "returned" => Promised(held[r])
    /\ cached # None /\ expiresIn > 0 => cached.age + expiresIn <= TTL + ProbeMax

LEMMA NoneIsNoVerdict == \A v \in Verdict : v # None
  BY NoneAssumption, TimeAssumption DEF Verdict, MaxAge

LEMMA OlderVerdict ==
  ASSUME NEW v \in Verdict \cup {None}
  PROVE  /\ Older(v) \in Verdict \cup {None}
         /\ (Older(v) = None) <=> (v = None)
         /\ v # None => Older(v).age <= v.age + 1
  <1>1. CASE v = None
    BY <1>1 DEF Older
  <1>2. CASE v # None /\ v.age = MaxAge
    BY <1>2, NoneIsNoVerdict, TimeAssumption DEF Older, Verdict, MaxAge
  <1>3. CASE v # None /\ v.age # MaxAge
    <2>1. Older(v) = [v EXCEPT !.age = v.age + 1]
      BY <1>3 DEF Older
    <2>2. v \in Verdict
      BY <1>3
    <2>3. Older(v) \in Verdict /\ Older(v).age = v.age + 1
      BY <2>1, <2>2, <1>3, TimeAssumption DEF Verdict, MaxAge
    <2>4. QED
      BY <2>3, <1>3, NoneIsNoVerdict, TimeAssumption DEF Verdict, MaxAge
  <1>4. QED
    BY <1>1, <1>2, <1>3

LEMMA StalenessInit == CacheInit => StalenessInv
  BY TimeAssumption DEF CacheInit, StalenessInv, CacheTypeOK, PC, Endpoint, Young, Promised

LEMMA StalenessStep == StalenessInv /\ [CacheNext]_cacheVars => StalenessInv'
  <1> SUFFICES ASSUME StalenessInv, [CacheNext]_cacheVars
               PROVE  StalenessInv'
    OBVIOUS
  <1> USE TimeAssumption, NoneIsNoVerdict
      DEF StalenessInv, CacheTypeOK, PC, Young, Promised
  <1>1. ASSUME NEW r \in Callers, Enter(r) PROVE StalenessInv'
    BY <1>1 DEF Enter, Goto
  <1>2. ASSUME NEW r \in Callers, CheckDeadline(r) PROVE StalenessInv'
    BY <1>2 DEF CheckDeadline, Expired, Goto, Verdict
  <1>3. ASSUME NEW r \in Callers, Answer(r) PROVE StalenessInv'
    BY <1>3 DEF Answer, HealthVerdict, Goto, Verdict, MaxAge
  <1>4. ASSUME NEW r \in Callers, ProbeRaises(r) PROVE StalenessInv'
    BY <1>4 DEF ProbeRaises, Goto
  <1>5. ASSUME NEW r \in Callers, Store(r) PROVE StalenessInv'
    BY <1>5 DEF Store, Goto, Verdict
  <1>6. ASSUME NEW r \in Callers, Stamp(r) PROVE StalenessInv'
    BY <1>6 DEF Stamp, Goto, Verdict
  <1>7. ASSUME NEW r \in Callers, Return(r) PROVE StalenessInv'
    BY <1>7 DEF Return, Goto
  <1>8. ASSUME NEW r \in Callers, Leave(r) PROVE StalenessInv'
    BY <1>8 DEF Leave, Goto
  <1>9. ASSUME NEW r \in Callers, Invalidate(r) PROVE StalenessInv'
    BY <1>9 DEF Invalidate, Goto
  <1>10. CASE EndpointMoves
    BY <1>10 DEF EndpointMoves
  <1>11. CASE Tick
    <2>1. CacheTypeOK'
      BY <1>11, OlderVerdict DEF Tick
    <2>2. \A r \in Callers :
             (pc[r] = "answered" => held[r] # None /\ Young(held[r]))'
      <3> SUFFICES ASSUME NEW r \in Callers, pc'[r] = "answered"
                   PROVE  held'[r] # None /\ held'[r].age <= ProbeMax
        OBVIOUS
      <3>1. held'[r] = Older(held[r]) /\ held[r] # None /\ held[r].age < ProbeMax
        BY <1>11 DEF Tick
      <3>2. held[r] \in Verdict /\ held'[r] \in Verdict
        BY <3>1, OlderVerdict
      <3>3. QED
        BY <3>1, <3>2, OlderVerdict DEF Verdict, MaxAge
    <2>3. \A r \in Callers : pc'[r] # "stamp" /\ pc'[r] # "read"
      BY <1>11 DEF Tick
    <2>4. \A r \in Callers : (pc[r] = "returned" => Promised(held[r]))'
      BY <1>11 DEF Tick
    <2>5. (cached # None /\ expiresIn > 0
              => cached.age + expiresIn <= TTL + ProbeMax)'
      <3> SUFFICES ASSUME cached' # None, expiresIn' > 0
                   PROVE  cached'.age + expiresIn' <= TTL + ProbeMax
        OBVIOUS
      <3>1. cached' = Older(cached) /\ expiresIn' = expiresIn - 1 /\ expiresIn > 0
        BY <1>11 DEF Tick
      <3>2. cached # None /\ cached \in Verdict /\ cached' \in Verdict
        BY <3>1, OlderVerdict
      <3>3. QED
        BY <3>1, <3>2, OlderVerdict DEF Verdict, MaxAge
    <2>6. QED
      BY <2>1, <2>2, <2>3, <2>4, <2>5
  <1>12. CASE UNCHANGED cacheVars
    BY <1>12 DEF cacheVars
  <1>13. QED
    BY <1>1, <1>2, <1>3, <1>4, <1>5, <1>6, <1>7, <1>8, <1>9, <1>10, <1>11, <1>12
    DEF CacheNext, CallStep

\* The cache's state is well typed in every behaviour of degrade.py 31-55.
THEOREM CacheTypeCorrect == CacheSpec => []CacheTypeOK
  <1>1. StalenessInv => CacheTypeOK
    BY DEF StalenessInv
  <1>2. QED
    BY <1>1, StalenessInit, StalenessStep, PTL DEF CacheSpec

\* No thread is ever told a verdict older than TTL + ProbeMax (degrade.py 48-52).
THEOREM StalenessBounded == CacheSpec => []BoundedStaleness
  <1>1. StalenessInv => BoundedStaleness
    BY DEF StalenessInv, BoundedStaleness, Promised
  <1>2. QED
    BY <1>1, StalenessInit, StalenessStep, PTL DEF CacheSpec

-----------------------------------------------------------------------------
(* The handlers over it.                                                   *)

\* Every step of the service is a step of the cache or leaves it alone.
LEMMA ServiceStep == [Next]_vars => [CacheNext]_cacheVars
  <1> SUFFICES ASSUME [Next]_vars PROVE [CacheNext]_cacheVars
    OBVIOUS
  <1>1. ASSUME NEW r \in Callers, RateLimited(r) PROVE UNCHANGED cacheVars
    BY <1>1 DEF RateLimited, cacheVars
  <1>2. ASSUME NEW r \in Callers, Arrive(r) PROVE CacheNext
    BY <1>2 DEF Arrive, CacheNext
  <1>3. ASSUME NEW r \in Callers, InCurrent(r) PROVE CacheNext
    BY <1>3 DEF InCurrent, CacheNext
  <1>4. ASSUME NEW r \in Callers,
               \/ VerdictFails(r) \/ StatusReply(r) \/ OfflineReply(r)
               \/ TurnLimited(r) \/ TurnRaises(r) \/ TurnAnswers(r)
        PROVE  CacheNext
    BY <1>4 DEF VerdictFails, StatusReply, OfflineReply,
                TurnLimited, TurnRaises, TurnAnswers, CacheNext
  <1>5. ASSUME NEW r \in Callers, AbortReply(r) PROVE CacheNext
    BY <1>5 DEF AbortReply, CacheNext
  <1>6. ASSUME NEW r \in Callers, NEW t \in Token, Denied(r, t) PROVE CacheNext
    BY <1>6 DEF Denied, CacheNext
  <1>7. ASSUME NEW r \in Callers, NEW t \in Token, StartTurn(r, t)
        PROVE  UNCHANGED cacheVars
    BY <1>7 DEF StartTurn, cacheVars
  <1>8. ASSUME NEW r \in Callers, TurnAborts(r) \/ Send(r) PROVE UNCHANGED cacheVars
    BY <1>8 DEF TurnAborts, Send, cacheVars
  <1>9. CASE Environment
    BY <1>9 DEF Environment, CacheNext
  <1>10. CASE UNCHANGED vars
    BY <1>10 DEF vars, cacheVars
  <1>11. ASSUME NEW r \in Callers, Work(r) PROVE [CacheNext]_cacheVars
    BY <1>11, <1>3, <1>4, <1>5, <1>6, <1>7, <1>8 DEF Work
  <1>12. QED
    BY <1>1, <1>2, <1>9, <1>10, <1>11 DEF Next

\* The chat service implements the status cache (app.py 299-391 over
\* degrade.py 31-55).
THEOREM ServiceImplementsCache == Spec => CacheSpec
  <1>1. Init => CacheInit
    BY DEF Init
  <1>2. QED
    BY <1>1, ServiceStep, PTL DEF Spec, CacheSpec

\* So no request is decided on a verdict older than TTL + ProbeMax.
THEOREM ServiceStalenessBounded == Spec => []BoundedStaleness
  BY ServiceImplementsCache, StalenessBounded, PTL

----------------------------------------------------------------------------

\* PaidPathGuarded is inductive once the cache's own invariant gives the types
\* and a thread outside its handler is known to be outside current().
HandlerTypeOK ==
    /\ stage \in [Callers -> Stage]
    /\ token \in [Callers -> Token]
    /\ dbOpen \subseteq Callers
    /\ recorded \in [Callers -> SUBSET Kind]
    /\ response \in [Callers -> Response]

GuardInv ==
    /\ StalenessInv
    /\ HandlerTypeOK
    /\ PaidPathGuarded
    /\ \A r \in Callers : stage[r] \in {"idle", "respond"} => pc[r] = "outside"

LEMMA GuardInit == Init => GuardInv
  <1> SUFFICES ASSUME Init PROVE GuardInv
    OBVIOUS
  <1>1. StalenessInv
    BY StalenessInit DEF Init
  <1>2. HandlerTypeOK
    BY DEF Init, HandlerTypeOK, Stage, Token, Response
  <1>3. PaidPathGuarded /\ \A r \in Callers : stage[r] = "idle" /\ pc[r] = "outside"
    BY DEF Init, PaidPathGuarded, CacheInit
  <1>4. QED
    BY <1>1, <1>2, <1>3 DEF GuardInv

LEMMA Admitted ==
  ASSUME NEW t \in Token, AuthorizeChat(t) = "allowed"
  PROVE  Auth = "disabled" \/ (Auth = "tokens" /\ t = "valid")
  BY AuthAssumption DEF AuthorizeChat, Token

LEMMA Denial == \A t \in Token : AuthorizeChat(t) # "allowed" => AuthorizeChat(t) \in Response
  BY AuthAssumption DEF AuthorizeChat, Token, Response

LEMMA GuardStep == GuardInv /\ [Next]_vars => GuardInv'
  <1> SUFFICES ASSUME GuardInv, [Next]_vars
               PROVE  GuardInv'
    OBVIOUS
  <1>1. StalenessInv'
    BY ServiceStep, StalenessStep DEF GuardInv
  <1>2. CacheTypeOK
    BY DEF GuardInv, StalenessInv
  <1> DEFINE Rest == /\ HandlerTypeOK
                     /\ PaidPathGuarded
                     /\ \A r \in Callers : stage[r] \in {"idle", "respond"} => pc[r] = "outside"
  <1>3. Rest
    BY DEF GuardInv
  <1> SUFFICES Rest'
    BY <1>1 DEF GuardInv
  <1> USE <1>2, <1>3 DEF HandlerTypeOK, PaidPathGuarded, Stage, Kind, Token
  <1>4. ASSUME NEW r \in Callers, RateLimited(r) PROVE Rest'
    BY <1>4 DEF RateLimited, Response
  <1>5. ASSUME NEW r \in Callers, Arrive(r) PROVE Rest'
    BY <1>5 DEF Arrive, Enter, Goto, CacheTypeOK
  <1>6. ASSUME NEW r \in Callers, InCurrent(r) PROVE Rest'
    BY <1>6 DEF InCurrent, chatVars, CallStep, CheckDeadline, Answer, ProbeRaises,
                Store, Stamp, Return, Goto, CacheTypeOK
  <1>7. ASSUME NEW r \in Callers, VerdictFails(r) PROVE Rest'
    BY <1>7 DEF VerdictFails, Leave, Goto, Reply, Response, CacheTypeOK
  <1>8. ASSUME NEW r \in Callers, StatusReply(r) \/ OfflineReply(r) PROVE Rest'
    BY <1>8 DEF StatusReply, OfflineReply, HasVerdict, Leave, Goto, Reply, Response,
                CacheTypeOK
  <1>9. ASSUME NEW r \in Callers, NEW t \in Token, Denied(r, t) PROVE Rest'
    BY <1>9, Denial DEF Denied, HasVerdict, Leave, Goto, Reply, CacheTypeOK
  <1>10. ASSUME NEW r \in Callers, NEW t \in Token, StartTurn(r, t) PROVE Rest'
    BY <1>10, Admitted DEF StartTurn, HasVerdict
  <1>11. ASSUME NEW r \in Callers, TurnLimited(r) \/ TurnRaises(r) PROVE Rest'
    BY <1>11 DEF TurnLimited, TurnRaises, CloseDb, Leave, Goto, Reply, Response, CacheTypeOK
  <1>12. ASSUME NEW r \in Callers, TurnAnswers(r) PROVE Rest'
    BY <1>12 DEF TurnAnswers, Leave, Goto, Reply, Response, CacheTypeOK
  <1>13. ASSUME NEW r \in Callers, TurnAborts(r) PROVE Rest'
    BY <1>13 DEF TurnAborts
  <1>14. ASSUME NEW r \in Callers, AbortReply(r) PROVE Rest'
    BY <1>14 DEF AbortReply, AbortKinds, Invalidate, Goto, Reply, Response, CacheTypeOK
  <1>15. ASSUME NEW r \in Callers, Send(r) PROVE Rest'
    BY <1>15 DEF Send, Response
  <1>16. CASE Environment
    BY <1>16 DEF Environment, chatVars, EndpointMoves, Tick, CacheTypeOK
  <1>17. CASE UNCHANGED vars
    BY <1>17 DEF vars
  <1>18. QED
    BY <1>4, <1>5, <1>6, <1>7, <1>8, <1>9, <1>10, <1>11, <1>12, <1>13, <1>14, <1>15,
       <1>16, <1>17 DEF Next, Work

\* The service's state is well typed.
THEOREM TypeCorrect == Spec => []TypeOK
  <1>1. GuardInv => TypeOK
    BY DEF GuardInv, HandlerTypeOK, TypeOK, StalenessInv
  <1>2. QED
    BY <1>1, GuardInit, GuardStep, PTL DEF Spec

\* A turn is run only for an admitted caller on an "up" verdict, and owns a
\* database session exactly while it runs (app.py 302-330).
THEOREM PaidPathIsGuarded == Spec => []PaidPathGuarded
  <1>1. GuardInv => PaidPathGuarded
    BY DEF GuardInv
  <1>2. QED
    BY <1>1, GuardInit, GuardStep, PTL DEF Spec
----------------------------------------------------------------------------

\* What each answer is accounted for under, one arm of KindsOf at a time.
LEMMA KindsOfAnswers ==
  /\ KindsOf("answer_200") = {{"up"}}
  /\ KindsOf("offline_200") = {{"off"}, {"aborted"}}
  /\ KindsOf("limit_400") = {{"limit"}}
  /\ KindsOf("status_200") = {{}}
  /\ KindsOf("internal_500") = {{}}
  /\ KindsOf("rate_429") = {{}}
  BY DEF KindsOf

LEMMA KindsOfDenials ==
  \A t \in Token : AuthorizeChat(t) # "allowed" => KindsOf(AuthorizeChat(t)) = {{"denied"}}
  <1> SUFFICES ASSUME NEW t \in Token, AuthorizeChat(t) # "allowed"
               PROVE  KindsOf(AuthorizeChat(t)) = {{"denied"}}
    OBVIOUS
  <1>1. AuthorizeChat(t) \in {"unauthorized_401", "auth_503"}
    BY AuthAssumption DEF AuthorizeChat, Token
  <1>2. KindsOf("unauthorized_401") = {{"denied"}} /\ KindsOf("auth_503") = {{"denied"}}
    BY DEF KindsOf
  <1>3. QED
    BY <1>1, <1>2

\* Whatever has nothing counted yet ends with one answer and its own kinds.
LEMMA ReplyCounts ==
  ASSUME HandlerTypeOK, CountedOnce, NEW r \in Callers, stage[r] # "respond",
         NEW resp, NEW kinds, Reply(r, resp, kinds), kinds \in KindsOf(resp)
  PROVE  CountedOnce'
  BY DEF HandlerTypeOK, CountedOnce, Reply

\* Every chat answer is accounted for under exactly the kind its response
\* belongs to, and a request not yet answered under none (app.py 304-373).
THEOREM AnswersAreCountedOnce == Spec => []CountedOnce
  <1>1. Init => CountedOnce
    BY DEF Init, CountedOnce
  <1>2. HandlerTypeOK /\ CountedOnce /\ [Next]_vars => CountedOnce'
    <2> SUFFICES ASSUME HandlerTypeOK, CountedOnce, [Next]_vars PROVE CountedOnce'
      OBVIOUS
    <2>1. ASSUME NEW r \in Callers, RateLimited(r) PROVE CountedOnce'
      BY <2>1, KindsOfAnswers DEF RateLimited, CountedOnce, HandlerTypeOK
    <2>2. ASSUME NEW r \in Callers, Arrive(r) PROVE CountedOnce'
      BY <2>2 DEF Arrive, CountedOnce, HandlerTypeOK
    <2>3. ASSUME NEW r \in Callers, InCurrent(r) PROVE CountedOnce'
      BY <2>3 DEF InCurrent, chatVars, CountedOnce
    <2>4. ASSUME NEW r \in Callers, VerdictFails(r) \/ StatusReply(r) \/ TurnRaises(r)
          PROVE  CountedOnce'
      BY <2>4, ReplyCounts, KindsOfAnswers
         DEF VerdictFails, StatusReply, HasVerdict, TurnRaises
    <2>5. ASSUME NEW r \in Callers, OfflineReply(r) PROVE CountedOnce'
      BY <2>5, ReplyCounts, KindsOfAnswers DEF OfflineReply, HasVerdict
    <2>6. ASSUME NEW r \in Callers, NEW t \in Token, Denied(r, t) PROVE CountedOnce'
      BY <2>6, ReplyCounts, KindsOfDenials DEF Denied, HasVerdict
    <2>7. ASSUME NEW r \in Callers, NEW t \in Token, StartTurn(r, t) PROVE CountedOnce'
      BY <2>7 DEF StartTurn, HasVerdict, CountedOnce, HandlerTypeOK
    <2>8. ASSUME NEW r \in Callers, TurnLimited(r) PROVE CountedOnce'
      BY <2>8, ReplyCounts, KindsOfAnswers DEF TurnLimited
    <2>9. ASSUME NEW r \in Callers, TurnAnswers(r) PROVE CountedOnce'
      BY <2>9, ReplyCounts, KindsOfAnswers DEF TurnAnswers
    <2>10. ASSUME NEW r \in Callers, TurnAborts(r) PROVE CountedOnce'
      BY <2>10 DEF TurnAborts, CountedOnce, HandlerTypeOK
    <2>11. ASSUME NEW r \in Callers, AbortReply(r) PROVE CountedOnce'
      BY <2>11, ReplyCounts, KindsOfAnswers DEF AbortReply, AbortKinds
    <2>12. ASSUME NEW r \in Callers, Send(r) PROVE CountedOnce'
      BY <2>12 DEF Send, CountedOnce, HandlerTypeOK
    <2>13. CASE Environment
      BY <2>13 DEF Environment, chatVars, CountedOnce
    <2>14. CASE UNCHANGED vars
      BY <2>14 DEF vars, CountedOnce
    <2>15. QED
      BY <2>1, <2>2, <2>3, <2>4, <2>5, <2>6, <2>7, <2>8, <2>9, <2>10, <2>11, <2>12,
         <2>13, <2>14 DEF Next, Work
  <1>3. GuardInv => HandlerTypeOK
    BY DEF GuardInv
  <1>4. QED
    BY <1>1, <1>2, <1>3, GuardInit, GuardStep, PTL DEF Spec
=============================================================================
