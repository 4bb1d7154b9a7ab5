----------------------- MODULE RequestPipelineProofs -----------------------
(***************************************************************************)
(* Whatever the requests, the clients and the limits: every state property *)
(* of the pipeline, from one invariant of each request and those of the    *)
(* throttle.                                                               *)
(***************************************************************************)
EXTENDS RequestPipeline, ThrottleProofs

Passed == {"throttle", "handle", "commit"}       \* the JWT guard let it through

(* Nothing is thrown or answered before the end.                           *)
Pending(r) == pc[r] # "closed" => cause[r] = 0 /\ body[r] = NoBody

(* What the guards have established of a request.                          *)
Guarded(r) ==
    /\ pc[r] = "role" => RouteOf(r).admin
    /\ pc[r] = "throttle" => RouteOf(r).limit > 0
    /\ pc[r] \in Passed /\ ~RouteOf(r).public /\ ~RouteOf(r).admin =>
           /\ user[r] = {req[r].sub}
           /\ req[r].token = "access" \/ (req[r].token = "refresh" /\ req[r].path = "refresh")
    /\ pc[r] \in {"handle", "commit"} => status[r] = RouteOf(r).code

(* wasAdmin follows the role for as long as the request is served.         *)
Watched(r) ==
    /\ pc[r] \in Working /\ role[req[r].sub] = "ADMIN" => wasAdmin[r]
    /\ pc[r] \in Passed /\ req[r].path = "listUsers" => wasAdmin[r]

Reported(r) ==
    IF cause[r] = 0 THEN reports[r] = 0
    ELSE (env.dsn => reports[r] = 1) /\ (env.webhook => status[r] = cause[r])

(* A body is the one of the handler of this very request.                  *)
Served(r) ==
    body[r] # NoBody =>
        /\ pc[r] = "closed" /\ req[r].path \in RouteNames
        /\ body[r] \in Bodies(req[r]) /\ status[r] = RouteOf(r).code
        /\ req[r].path = "listUsers" => wasAdmin[r]

Sound(r) == Pending(r) /\ Guarded(r) /\ Watched(r) /\ Reported(r) /\ Served(r)

(* Every counted request is counted under its own key.                     *)
HitsAreOwn == \A h \in hits : h.key = KeyOf(req[h.request]) /\ pc[h.request] # "idle"

ThrottleInv == IInv /\ AtMostLimitPerWindow /\ RefusedAtTheLimit

PInv == TasksTypeOK /\ ThrottleInv /\ HitsAreOwn /\ \A r \in Requests : Sound(r)

-----------------------------------------------------------------------------
(* The numbers that stand for the texts of the query string.               *)
LEMMA AskedAreNumbers ==
    ASSUME NEW q \in Req
    PROVE  Asked(q) \in Int \X Int /\ Echo(q.size, 20) \in Int
<1>1. \A raw \in RawTexts, d \in Int : PageReqDto(raw, d) \in Int /\ Echo(raw, d) \in Int
    BY DEF PageReqDto, Echo, RawTexts, NumberOf, NaN
<1> QED BY <1>1 DEF Req, Asked

(* A page of a finite table is finite.                                     *)
LEMMA PagesAreFinite ==
    ASSUME NEW q, NEW rows \in Nat
    PROVE  Cardinality(Items(q, rows)) \in Nat
<1>1. IsFiniteSet(1 .. rows)
    BY FS_Interval
<1>2. Items(q, rows) \subseteq 1 .. rows
    BY DEF Items
<1> QED BY <1>1, <1>2, FS_Subset, FS_CardinalityType

LEMMA BodiesAreTyped ==
    ASSUME NEW q \in Req, q.path \in RouteNames, NEW b \in Bodies(q)
    PROVE  b \in Body
<1>1. Route[q.path].fields \subseteq FieldNames
    BY DEF FieldNames
<1>2. CASE Route[q.path].list
  <2>1. PICK rows \in TableSizes :
            b = [size |-> Echo(q.size, 20), items |-> Cardinality(Items(q, rows)),
                 fields |-> Route[q.path].fields, wrap |-> PageResDto]
      BY <1>2 DEF Bodies
  <2>2. Cardinality(Items(q, rows)) \in Nat
      BY PagesAreFinite, PipelineAssumption
  <2> QED BY <1>1, <2>1, <2>2, AskedAreNumbers DEF Body
<1>3. CASE ~Route[q.path].list
    BY <1>1, <1>3 DEF Bodies, NoBody, Body
<1> QED BY <1>2, <1>3

LEMMA ErrorsAreStatuses ==
    ASSUME NEW q, q.path \in RouteNames
    PROVE  ErrorsOf(q) \subseteq Nat \ {0}
<1>1. Numbers(Route[q.path])
    BY RoutesHaveNumbers
<1> QED BY <1>1 DEF ErrorsOf, Numbers

LEMMA RefusalIsAStatus == \A q : Refusal(q) \in Nat
BY DEF Refusal

(* What the strategy lets pass.                                            *)
LEMMA SignedTokensPass ==
    ASSUME NEW q \in Req, ~Route[q.path].public, ~Route[q.path].admin, Refusal(q) = 0
    PROVE  q.token = "access" \/ (q.token = "refresh" /\ q.path = "refresh")
BY DEF Req, Tokens, Refusal

LEMMA KeysAreKeys ==
    ASSUME NEW q \in Req, q.path \in RouteNames, Route[q.path].limit > 0
    PROVE  KeyOf(q) \in Keys
BY PipelineAssumption DEF Req, Clients, KeyOf, Tracker, Keys


-----------------------------------------------------------------------------
(* The steps of a request that no step of another one touches.             *)
Row(s) == <<pc[s], req[s], status[s], body[s], cause[s], user[s], reports[s], wasAdmin[s]>>

LEMMA Untouched ==
    ASSUME PInv, NEW s \in Requests, UNCHANGED <<role, env, Row(s)>>
    PROVE  Sound(s)'
BY DEF PInv, Row, Sound, Pending, Guarded, Watched, Reported, Served, RouteOf

(* What the invariant says of a request at work.                           *)
LEMMA AtWork ==
    ASSUME PInv, NEW r \in Requests, pc[r] \in Working
    PROVE  /\ req[r] \in Req /\ req[r].path \in RouteNames
           /\ cause[r] = 0 /\ body[r] = NoBody /\ reports[r] = 0
           /\ RouteOf(r).code \in Nat /\ RouteOf(r).limit \in Nat
<1>1. req[r] \in RequestsOf[r] /\ req[r].path \in RouteNames
    BY DEF PInv, TasksTypeOK, Working
<1>2. req[r] \in Req
    BY <1>1, PipelineAssumption
<1>3. Numbers(Route[req[r].path])
    BY <1>1, RoutesHaveNumbers
<1> QED BY <1>1, <1>2, <1>3 DEF PInv, Sound, Pending, Reported, RouteOf, Numbers, Working

(* What a step writes of the response keeps its type.                      *)
Response == pc \in [Requests -> AtRest \cup Working] /\ status \in [Requests -> Nat] /\ logged \in [Requests -> Nat]

LEMMA AnswerIsTyped ==
    ASSUME PInv, NEW r \in Requests, NEW code \in Nat, Answer(r, code)
    PROVE  Response'
<1>1. logged' \in [Requests -> Nat]
    BY DEF Answer, Log, PInv, TasksTypeOK
<1> QED BY <1>1 DEF Response, Answer, Goto, PInv, TasksTypeOK, AtRest, Working

LEMMA EnterRouteIsTyped ==
    ASSUME PInv, NEW r \in Requests, pc[r] \in Working, EnterRoute(r) \/ AfterJwt(r)
    PROVE  Response'
<1>1. RouteOf(r).code \in Nat
    BY AtWork
<1> QED BY <1>1 DEF Response, AfterJwt, EnterRoute, Goto, PInv, TasksTypeOK, AtRest, Working

LEMMA ArriveStep ==
    ASSUME PInv, NEW r \in Requests, NEW q \in RequestsOf[r], Arrive(r, q)
    PROVE  TasksTypeOK' /\ \A s \in Requests : Sound(s)'
<1>0. q \in Req
    BY PipelineAssumption
<1>1. TasksTypeOK'
  <2>1. Response'
    <3>1. CASE Answer(r, 404)
        BY <3>1, AnswerIsTyped
    <3>2. CASE Goto(r, "guard") /\ UNCHANGED <<status, logged>>
        BY <3>2 DEF Goto, Response, PInv, TasksTypeOK, AtRest, Working
    <3>3. ASSUME NEW code \in {200, 401}, status' = [status EXCEPT ![r] = code],
                 Goto(r, "closed"), UNCHANGED logged
          PROVE  Response'
        BY <3>3 DEF Goto, Response, PInv, TasksTypeOK, AtRest, Working
    <3> QED BY <3>1, <3>2, <3>3 DEF Arrive
  <2>2. /\ \A s \in Requests \ {r} : pc'[s] = pc[s] /\ req'[s] = req[s]
        /\ pc'[r] \in {"guard", "closed"} /\ req'[r] = q
        /\ pc'[r] = "guard" => q.path \in RouteNames
      BY DEF Arrive, Goto, Answer, PInv, TasksTypeOK
  <2>3. req' \in [Requests -> Req \cup {NoReq}] /\ wasAdmin' \in [Requests -> BOOLEAN]
      BY <1>0 DEF Arrive, PInv, TasksTypeOK
  <2> QED BY <2>1, <2>2, <2>3 DEF Response, Arrive, World, PInv, TasksTypeOK, Working
<1>2. Sound(r)'
    BY <1>0 DEF Arrive, At, Goto, Answer, Log, World, PInv, TasksTypeOK, Sound, Pending, Guarded, Watched, Reported,
           Served, RouteOf, Working, Passed
<1>3. ASSUME NEW s \in Requests, s # r PROVE Sound(s)'
  <2>1. UNCHANGED <<role, env, Row(s)>>
      BY <1>3 DEF Arrive, Goto, Answer, World, Row, PInv, TasksTypeOK
  <2> QED BY <2>1, Untouched
<1> QED BY <1>1, <1>2, <1>3

LEMMA CanActivateStep ==
    ASSUME PInv, NEW r \in Requests, CanActivate(r)
    PROVE  TasksTypeOK' /\ \A s \in Requests : Sound(s)'
<1>0. pc[r] = "guard" /\ pc[r] \in Working
    BY DEF CanActivate, At, Working
<1>1. TasksTypeOK'
  <2>1. Response'
    <3>1. CASE Answer(r, Refusal(req[r]))
        BY <3>1, AnswerIsTyped, RefusalIsAStatus
    <3>2. CASE AfterJwt(r)
        BY <1>0, <3>2, EnterRouteIsTyped
    <3>3. CASE Goto(r, "role") /\ UNCHANGED <<status, user, logged>>
        BY <3>3 DEF Goto, Response, PInv, TasksTypeOK, AtRest, Working
    <3> QED BY <3>1, <3>2, <3>3 DEF CanActivate
  <2>2. \A s \in Requests : pc'[s] = pc[s] \/ (s = r /\ pc'[s] # "idle")
      BY DEF CanActivate, AfterJwt, EnterRoute, Goto, Answer, PInv, TasksTypeOK
  <2>3. user' \in [Requests -> SUBSET Users]
      BY <1>0, AtWork DEF CanActivate, PInv, TasksTypeOK, Req
  <2> QED BY <1>0, <2>1, <2>2, <2>3 DEF Response, CanActivate, World, PInv, TasksTypeOK
<1>2. Sound(r)'
  <2>1. Guards(req[r].path, RouteOf(r))
      BY <1>0, AtWork, RoutesAreGuarded DEF RouteOf
  <2>2. req'[r] = req[r] /\ UNCHANGED <<role, env, body, cause, reports, wasAdmin>>
      BY DEF CanActivate, World
  <2>3. /\ pc'[r] \in {"role", "throttle", "handle", "closed"}
        /\ pc'[r] = "handle" => status'[r] = RouteOf(r).code
        /\ pc'[r] = "throttle" => RouteOf(r).limit > 0
        /\ pc'[r] = "role" => RouteOf(r).admin
        /\ pc'[r] \in Passed => Refusal(req[r]) = 0 /\ ~RouteOf(r).admin
        /\ pc'[r] \in Passed /\ ~RouteOf(r).public => user'[r] = {req[r].sub}
      BY <1>0, <2>1, AtWork
      DEF CanActivate, AfterJwt, EnterRoute, UsesStrategy, RouteOf, Goto, Answer, Guards, Passed, PInv, TasksTypeOK
  <2>4. pc'[r] \in Passed /\ ~RouteOf(r).public =>
            req[r].token = "access" \/ (req[r].token = "refresh" /\ req[r].path = "refresh")
      BY <1>0, <2>3, AtWork, SignedTokensPass DEF RouteOf
  <2> QED
    BY <1>0, <2>1, <2>2, <2>3, <2>4, AtWork
    DEF PInv, Guards, Sound, Pending, Guarded, Watched, Reported, Served, RouteOf, Working, Passed
<1>3. ASSUME NEW s \in Requests, s # r PROVE Sound(s)'
  <2>1. UNCHANGED <<role, env, Row(s)>>
      BY <1>3 DEF CanActivate, AfterJwt, EnterRoute, Goto, Answer, World, Row, PInv, TasksTypeOK
  <2> QED BY <2>1, Untouched
<1> QED BY <1>1, <1>2, <1>3

LEMMA CheckUserIsAdminStep ==
    ASSUME PInv, NEW r \in Requests, CheckUserIsAdmin(r)
    PROVE  TasksTypeOK' /\ \A s \in Requests : Sound(s)'
<1>0. pc[r] = "role" /\ pc[r] \in Working
    BY DEF CheckUserIsAdmin, At, Working
<1>1. TasksTypeOK'
    BY <1>0, AtWork
    DEF CheckUserIsAdmin, AfterJwt, EnterRoute, Goto, Answer, Log, World, PInv, TasksTypeOK, AtRest, Working
<1>2. Sound(r)'
  <2>1. Guards(req[r].path, RouteOf(r))
      BY <1>0, AtWork, RoutesAreGuarded DEF RouteOf
  <2> QED
    BY <1>0, <2>1, AtWork
    DEF CheckUserIsAdmin, AfterJwt, EnterRoute, Goto, Answer, Log, World, PInv, TasksTypeOK, Guards,
        Sound, Pending, Guarded, Watched, Reported, Served, RouteOf, Working, Passed
<1>3. ASSUME NEW s \in Requests, s # r PROVE Sound(s)'
  <2>1. UNCHANGED <<role, env, Row(s)>>
      BY <1>3 DEF CheckUserIsAdmin, AfterJwt, EnterRoute, Goto, Answer, World, Row, PInv, TasksTypeOK
  <2> QED BY <2>1, Untouched
<1> QED BY <1>1, <1>2, <1>3

LEMMA ThrottleGuardStep ==
    ASSUME PInv, NEW r \in Requests, ThrottleGuard(r)
    PROVE  TasksTypeOK' /\ \A s \in Requests : Sound(s)'
<1>0. pc[r] = "throttle" /\ pc[r] \in Working
    BY DEF ThrottleGuard, At, Working
<1>1. TasksTypeOK'
  <2>1. Response'
      BY <1>0, AnswerIsTyped, EnterRouteIsTyped DEF ThrottleGuard
  <2>2. \A s \in Requests : pc'[s] = pc[s] \/ (s = r /\ pc'[s] \in {"handle", "closed"})
      BY DEF ThrottleGuard, EnterRoute, Goto, Answer, PInv, TasksTypeOK
  <2> QED BY <1>0, <2>1, <2>2 DEF Response, ThrottleGuard, World, PInv, TasksTypeOK
<1>2. Sound(r)'
    BY <1>0, AtWork
    DEF ThrottleGuard, EnterRoute, Goto, Answer, Log, World, PInv, TasksTypeOK,
        Sound, Pending, Guarded, Watched, Reported, Served, RouteOf, Working, Passed
<1>3. ASSUME NEW s \in Requests, s # r PROVE Sound(s)'
  <2>1. UNCHANGED <<role, env, Row(s)>>
      BY <1>3 DEF ThrottleGuard, EnterRoute, Goto, Answer, World, Row, PInv, TasksTypeOK
  <2> QED BY <2>1, Untouched
<1> QED BY <1>1, <1>2, <1>3

(* The answer of a handler and the error of one close the request alike;   *)
(* a sign-up goes on to its COMMIT, and leaves its save behind.            *)
LEMMA HandleStep ==
    ASSUME PInv, NEW r \in Requests, Handle(r)
    PROVE  TasksTypeOK' /\ \A s \in Requests : Sound(s)'
<1>0. pc[r] \in {"handle", "commit"} /\ pc[r] \in Working
    BY DEF Handle, At, Working
<1> DEFINE q == req[r]
<1>1. q \in Req /\ q.path \in RouteNames /\ cause[r] = 0 /\ body[r] = NoBody /\ reports[r] = 0
    BY <1>0, AtWork
<1>2. status[r] = RouteOf(r).code /\ (q.path = "listUsers" => wasAdmin[r])
    BY <1>0 DEF PInv, Sound, Guarded, Watched, Passed
<1>3. CASE Return(r)
  <2>1. PICK b \in Bodies(q) : body' = [body EXCEPT ![r] = b]
      BY <1>3 DEF Return
  <2>2. Answer(r, status[r]) /\ UNCHANGED <<cause, reports, detached>>
      BY <1>3 DEF Return
  <2>3. Response'
      BY <2>2, AnswerIsTyped DEF PInv, TasksTypeOK
  <2>4. TasksTypeOK'
    <3>1. body' \in [Requests -> Body]
        BY <1>1, <2>1, BodiesAreTyped DEF PInv, TasksTypeOK
    <3>2. \A s \in Requests : pc'[s] = pc[s] \/ (s = r /\ pc'[s] = "closed")
        BY <2>2 DEF Answer, Goto, PInv, TasksTypeOK
    <3> QED BY <1>0, <2>2, <2>3, <3>1, <3>2 DEF Response, Handle, PInv, TasksTypeOK
  <2>5. Sound(r)'
    <3>1. /\ pc'[r] = "closed" /\ status'[r] = RouteOf(r).code /\ body'[r] \in Bodies(q)
          /\ UNCHANGED <<req, role, env, user, wasAdmin, cause, reports>>
        BY <1>2, <2>1, <2>2 DEF Answer, Goto, Handle, PInv, TasksTypeOK
    <3> QED
      BY <1>1, <1>2, <3>1
      DEF Sound, Pending, Guarded, Watched, Reported, Served, RouteOf, Working, Passed
  <2>6. ASSUME NEW s \in Requests, s # r PROVE Sound(s)'
    <3>1. UNCHANGED <<role, env, Row(s)>>
        BY <2>1, <2>2, <2>6 DEF Handle, Answer, Goto, Row, PInv, TasksTypeOK
    <3> QED BY <3>1, Untouched
  <2> QED BY <2>4, <2>5, <2>6
<1>4. ASSUME NEW code \in Nat \ {0}, Throw(r, code)
      PROVE  TasksTypeOK' /\ \A s \in Requests : Sound(s)'
  <2>0. code \in Nat \ {0}
      BY <1>4
  <2>1. cause' = [cause EXCEPT ![r] = code] /\ reports' = Reports(r) /\ UNCHANGED body
      BY <1>4 DEF Throw
  <2>2. Answer(r, IF env.webhook THEN code ELSE 500)
      BY <1>4 DEF Throw
  <2>3. Response'
      BY <2>0, <2>2, AnswerIsTyped
  <2>4. TasksTypeOK'
    <3>1. cause' \in [Requests -> Nat] /\ reports' \in [Requests -> 0 .. 1] /\ detached' \subseteq Promises
        BY <1>1, <1>4, <2>0 DEF Throw, Reports, Promises, PInv, TasksTypeOK
    <3>2. \A s \in Requests : pc'[s] = pc[s] \/ (s = r /\ pc'[s] = "closed")
        BY <2>2 DEF Answer, Goto, PInv, TasksTypeOK
    <3> QED BY <1>0, <2>1, <2>3, <3>1, <3>2 DEF Response, Handle, PInv, TasksTypeOK
  <2>5. Sound(r)'
    <3>1. /\ pc'[r] = "closed" /\ (env.webhook => status'[r] = code) /\ cause'[r] = code
          /\ (env.dsn => reports'[r] = 1) /\ body'[r] = NoBody
          /\ UNCHANGED <<req, role, env, user, wasAdmin>>
        BY <1>1, <2>1, <2>2 DEF Answer, Goto, Handle, Reports, PInv, TasksTypeOK
    <3> QED
      BY <2>0, <3>1 DEF Sound, Pending, Guarded, Watched, Reported, Served, RouteOf, Working, Passed
  <2>6. ASSUME NEW s \in Requests, s # r PROVE Sound(s)'
    <3>1. UNCHANGED <<role, env, Row(s)>>
        BY <2>1, <2>2, <2>6 DEF Handle, Answer, Goto, Reports, Row, PInv, TasksTypeOK
    <3> QED BY <3>1, Untouched
  <2> QED BY <2>4, <2>5, <2>6
<1>5. CASE LeaveSave(r) /\ pc[r] = "handle"
  <2>1. /\ \A s \in Requests : pc'[s] = IF s = r THEN "commit" ELSE pc[s]
        /\ pc' \in [Requests -> AtRest \cup Working]
        /\ detached' \subseteq Promises
        /\ UNCHANGED <<phase, env, role, req, status, logged, body, cause, user, reports, wasAdmin>>
      BY <1>5 DEF LeaveSave, Goto, Handle, Promises, PInv, TasksTypeOK, Working
  <2>2. TasksTypeOK'
      BY <1>0, <2>1 DEF PInv, TasksTypeOK
  <2>3. Sound(r)'
      BY <1>1, <1>5, <2>1
      DEF PInv, Sound, Pending, Guarded, Watched, Reported, Served, RouteOf, Working, Passed
  <2>4. ASSUME NEW s \in Requests, s # r PROVE Sound(s)'
      BY <2>1, <2>4, Untouched DEF Row
  <2> QED BY <2>2, <2>3, <2>4
<1>6. ErrorsOf(q) \subseteq Nat \ {0} /\ 500 \in Nat \ {0}
    BY <1>1, ErrorsAreStatuses
<1> QED BY <1>3, <1>4, <1>5, <1>6 DEF Handle, At

LEMMA ClientLeavesStep ==
    ASSUME PInv, NEW r \in Requests, ClientLeaves(r)
    PROVE  TasksTypeOK' /\ \A s \in Requests : Sound(s)'
<1>1. logged' \in [Requests -> Nat]
    BY DEF ClientLeaves, Log, PInv, TasksTypeOK
<1>2. TasksTypeOK'
    BY <1>1 DEF ClientLeaves, World, PInv, TasksTypeOK
<1>3. ASSUME NEW s \in Requests PROVE Sound(s)'
    BY Untouched DEF ClientLeaves, World, Row
<1> QED BY <1>2, <1>3

(* The end of the process loses what was at work, and nothing else.        *)
LEMMA PromiseSettlesStep ==
    ASSUME PInv, NEW p \in Promises, PromiseSettles(p)
    PROVE  TasksTypeOK' /\ \A s \in Requests : Sound(s)'
<1>1. UNCHANGED <<env, role, req, status, body, cause, user, reports, logged, wasAdmin>>
    BY DEF PromiseSettles
<1>2. CASE Settled(p)
  <2>1. TasksTypeOK'
      BY <1>1, <1>2 DEF Settled, PInv, TasksTypeOK
  <2>2. ASSUME NEW s \in Requests PROVE Sound(s)'
      BY <1>1, <1>2, Untouched DEF Settled, Row
  <2> QED BY <2>1, <2>2
<1>3. CASE Exit
  <2>1. \A s \in Requests : pc'[s] = pc[s] \/ (pc'[s] = "lost" /\ pc[s] \in Working)
      BY <1>3 DEF Exit, PInv, TasksTypeOK, AtRest, Working
  <2>2. pc' \in [Requests -> AtRest \cup Working]
      BY <1>3, <2>1 DEF Exit, AtRest, Working, PInv, TasksTypeOK
  <2>3. TasksTypeOK'
      BY <1>1, <1>3, <2>1, <2>2 DEF Exit, Working, PInv, TasksTypeOK
  <2>4. ASSUME NEW s \in Requests PROVE Sound(s)'
    <3>1. CASE pc'[s] = pc[s]
        BY <1>1, <3>1, Untouched DEF Row
    <3>2. CASE pc'[s] = "lost" /\ pc[s] \in Working
        BY <1>1, <3>2, AtWork
        DEF Sound, Pending, Guarded, Watched, Reported, Served, RouteOf, Working, Passed
    <3> QED BY <2>1, <3>1, <3>2
  <2> QED BY <2>3, <2>4
<1> QED BY <1>2, <1>3 DEF PromiseSettles

(* A role that changes is seen by every request of its user at work.       *)
LEMMA SetRoleStep ==
    ASSUME PInv, NEW u \in Users, NEW new \in Roles, SetRole(u, new)
    PROVE  TasksTypeOK' /\ \A s \in Requests : Sound(s)'
<1>1. UNCHANGED <<phase, env, detached, pc, req, status, body, cause, user, reports, logged>>
    BY DEF SetRole
<1>2. wasAdmin' \in [Requests -> BOOLEAN]
    BY DEF SetRole, PInv, TasksTypeOK
<1>3. TasksTypeOK'
    BY <1>1, <1>2 DEF SetRole, PInv, TasksTypeOK
<1>4. ASSUME NEW s \in Requests PROVE Sound(s)'
  <2>1. wasAdmin[s] => wasAdmin'[s]
      BY DEF SetRole, PInv, TasksTypeOK
  <2>2. ASSUME pc[s] \in Working, role'[req[s].sub] = "ADMIN"
        PROVE  role[req[s].sub] = "ADMIN" \/ wasAdmin'[s]
    <3>1. req[s].sub \in Users
        BY <2>2, AtWork DEF Req
    <3> QED BY <2>2, <3>1 DEF SetRole, PInv, TasksTypeOK, Working, AtRest
  <2> QED
    BY <1>1, <2>1, <2>2 DEF PInv, Sound, Pending, Guarded, Watched, Reported, Served, RouteOf
<1> QED BY <1>3, <1>4

(* The start of the server and the clock touch no request.                 *)
LEMMA OtherStep ==
    ASSUME PInv, Create \/ Listen \/ Restart \/ Clock \/ UNCHANGED vars
    PROVE  TasksTypeOK' /\ \A s \in Requests : Sound(s)'
<1>1. UNCHANGED <<env, role, detached, taskVars>> /\ phase' \in {"starting", "created", "up", "down"}
    BY DEF Create, Listen, Restart, Clock, World, vars, PInv, TasksTypeOK
<1>2. TasksTypeOK'
    BY <1>1 DEF taskVars, PInv, TasksTypeOK
<1>3. ASSUME NEW s \in Requests PROVE Sound(s)'
    BY <1>1, Untouched DEF taskVars, Row
<1> QED BY <1>2, <1>3

LEMMA RequestsStaySound ==
    ASSUME PInv, [Next]_vars PROVE TasksTypeOK' /\ \A s \in Requests : Sound(s)'
<1>1. ASSUME NEW r \in Requests, Step(r) PROVE TasksTypeOK' /\ \A s \in Requests : Sound(s)'
    BY <1>1, CanActivateStep, CheckUserIsAdminStep, ThrottleGuardStep, HandleStep DEF Step
<1>2. ASSUME NEW r \in Requests, ClientLeaves(r) \/ \E q \in RequestsOf[r] : Arrive(r, q)
      PROVE  TasksTypeOK' /\ \A s \in Requests : Sound(s)'
    BY <1>2, ClientLeavesStep, ArriveStep
<1> QED BY <1>1, <1>2, PromiseSettlesStep, SetRoleStep, OtherStep DEF Next

-----------------------------------------------------------------------------
(* Every step is one of the throttle or leaves its counters alone, and     *)
(* what is counted of a request stays its own.                             *)
LEMMA StepOfTheThrottle == ASSUME PInv, [Next]_vars PROVE [ThrottleNext]_throttleVars
<1>1. ASSUME NEW r \in Requests, ThrottleGuard(r) PROVE ThrottleNext
  <2>1. pc[r] = "throttle" /\ pc[r] \in Working /\ RouteOf(r).limit > 0
      BY <1>1 DEF ThrottleGuard, At, Working, PInv, Sound, Guarded
  <2>2. KeyOf(req[r]) \in Keys
      BY <2>1, AtWork, KeysAreKeys DEF RouteOf
  <2> QED BY <1>1, <2>2 DEF ThrottleGuard, ThrottleNext
<1>2. ASSUME NEW p \in Promises, PromiseSettles(p) PROVE Forget \/ UNCHANGED throttleVars
    BY <1>2 DEF PromiseSettles, Settled, Exit
<1>3. ASSUME Clock PROVE ThrottleNext
    BY <1>3 DEF Clock, ThrottleNext
<1>4. ASSUME NEW r \in Requests,
             CanActivate(r) \/ CheckUserIsAdmin(r) \/ Handle(r) \/ ClientLeaves(r)
                \/ \E q \in RequestsOf[r] : Arrive(r, q)
      PROVE  UNCHANGED throttleVars
    BY <1>4 DEF CanActivate, CheckUserIsAdmin, Handle, ClientLeaves, Arrive
<1>5. ASSUME Create \/ Listen \/ Restart \/ UNCHANGED vars \/ \E u \in Users, new \in Roles : SetRole(u, new)
      PROVE  UNCHANGED throttleVars
    BY <1>5 DEF Create, Listen, Restart, SetRole, vars
<1> QED BY <1>1, <1>2, <1>3, <1>4, <1>5 DEF Next, Step, ThrottleNext

LEMMA ThrottleStays == ASSUME PInv, [Next]_vars PROVE ThrottleInv'
<1>1. [ThrottleNext]_throttleVars
    BY StepOfTheThrottle
<1> QED BY <1>1, InvariantStep, RecentStep, RefusalStep DEF PInv, ThrottleInv

LEMMA HitsStayOwn == ASSUME PInv, [Next]_vars PROVE HitsAreOwn'
<1>1. \A s \in Requests : pc[s] # "idle" => req'[s] = req[s] /\ pc'[s] # "idle"
  <2>1. ASSUME NEW r \in Requests, Step(r) \/ ClientLeaves(r)
        PROVE  req' = req /\ \A s \in Requests : pc'[s] = pc[s] \/ pc'[s] # "idle"
    <3>1. ASSUME NEW code, Answer(r, code) PROVE \A s \in Requests : pc'[s] = pc[s] \/ pc'[s] # "idle"
        BY <3>1 DEF Answer, Goto, PInv, TasksTypeOK
    <3>2. ASSUME EnterRoute(r) \/ AfterJwt(r) \/ Goto(r, "role") \/ Goto(r, "commit")
          PROVE  \A s \in Requests : pc'[s] = pc[s] \/ pc'[s] # "idle"
        BY <3>2 DEF EnterRoute, AfterJwt, Goto, PInv, TasksTypeOK
    <3> QED
      BY <2>1, <3>1, <3>2
      DEF Step, CanActivate, CheckUserIsAdmin, ThrottleGuard, Handle, LeaveSave, Return, Throw, ClientLeaves
  <2>2. ASSUME NEW r \in Requests, NEW q \in RequestsOf[r], Arrive(r, q)
        PROVE  \A s \in Requests : pc[s] # "idle" => req'[s] = req[s] /\ pc'[s] = pc[s]
      BY <2>2 DEF Arrive, At, Goto, Answer, PInv, TasksTypeOK
  <2>3. ASSUME NEW p \in Promises, PromiseSettles(p)
        PROVE  req' = req /\ \A s \in Requests : pc'[s] = pc[s] \/ pc'[s] # "idle"
      BY <2>3 DEF PromiseSettles, Settled, Exit
  <2>4. ASSUME Create \/ Listen \/ Restart \/ Clock \/ UNCHANGED vars \/ \E u \in Users, new \in Roles : SetRole(u, new)
        PROVE  UNCHANGED <<pc, req>>
      BY <2>4 DEF Create, Listen, Restart, Clock, SetRole, taskVars, vars
  <2> QED BY <2>1, <2>2, <2>3, <2>4 DEF Next
<1>2. ASSUME NEW h \in hits', h \notin hits
      PROVE  h.key = KeyOf(req'[h.request]) /\ pc'[h.request] # "idle"
  <2>1. PICK r \in Requests : ThrottleGuard(r)
    <3>1. ASSUME NEW r \in Requests,
                 CanActivate(r) \/ CheckUserIsAdmin(r) \/ Handle(r) \/ ClientLeaves(r)
                    \/ \E q \in RequestsOf[r] : Arrive(r, q)
          PROVE  FALSE
        BY <1>2, <3>1 DEF CanActivate, CheckUserIsAdmin, Handle, ClientLeaves, Arrive, throttleVars
    <3>2. ~(Create \/ Listen \/ Restart \/ Clock \/ UNCHANGED vars \/ \E u \in Users, new \in Roles : SetRole(u, new))
        BY <1>2 DEF Create, Listen, Restart, Clock, Tick, Expire, SetRole, vars, throttleVars
    <3>3. ~\E p \in Promises : PromiseSettles(p)
        BY <1>2 DEF PromiseSettles, Settled, Exit, Forget, throttleVars
    <3> QED BY <3>1, <3>2, <3>3 DEF Next, Step
  <2>2. h.request = r /\ h.key = KeyOf(req[r]) /\ pc[r] # "idle"
      BY <1>2, <2>1 DEF ThrottleGuard, At, Hit, HitOf
  <2> QED BY <1>1, <2>2
<1>3. \A h \in hits : h.request \in Requests
    BY DEF PInv, ThrottleInv, IInv, ThrottleTypeOK
<1> QED BY <1>1, <1>2, <1>3 DEF PInv, HitsAreOwn

LEMMA InitIsSound == Init => PInv
<1> SUFFICES ASSUME Init PROVE PInv
    OBVIOUS
<1>1. TasksTypeOK
  <2>1. NoBody \in Body
      BY DEF NoBody, Body
  <2> QED BY <2>1 DEF Init, TasksTypeOK, AtRest, Working
<1>2. ThrottleInv
  <2>1. ThrottleInit /\ IInv
      BY InitInvariant DEF Init
  <2>2. AtMostLimitPerWindow
      BY <2>1, NothingAdmittedYet
  <2> QED BY <2>1, <2>2 DEF ThrottleInv, ThrottleInit, RefusedAtTheLimit
<1>3. HitsAreOwn
    BY DEF Init, ThrottleInit, HitsAreOwn
<1>4. ASSUME NEW r \in Requests PROVE Sound(r)
    BY DEF Init, Sound, Pending, Guarded, Watched, Reported, Served, Working, Passed
<1> QED BY <1>1, <1>2, <1>3, <1>4 DEF PInv

LEMMA StepIsSound == PInv /\ [Next]_vars => PInv'
BY RequestsStaySound, ThrottleStays, HitsStayOwn DEF PInv

-----------------------------------------------------------------------------
(* The requests, their responses and the counters have their types.        *)
THEOREM PipelineTypes == Spec => []TypeOK
<1>1. PInv => TypeOK
    BY DEF PInv, ThrottleInv, IInv, TypeOK
<1> QED BY <1>1, InitIsSound, StepIsSound, PTL DEF Spec

(* Within any window no route serves a tracker more often than its limit,  *)
(* whatever the guards before the throttle do                              *)
(* (throttler-behind-proxy.guard.ts:16, app.module.ts:27).                 *)
THEOREM PipelineKeepsTheLimit == Spec => []AtMostLimitPerWindow
<1>1. PInv => AtMostLimitPerWindow
    BY DEF PInv, ThrottleInv
<1> QED BY <1>1, InitIsSound, StepIsSound, PTL DEF Spec

(* A client without a proxy is refused for its own requests only: its key  *)
(* is that of no other client (throttler-behind-proxy.guard.ts:33).        *)
THEOREM OwnRequestsOnly == Spec => []RefusedForItsOwnRequests
<1>1. ASSUME PInv PROVE RefusedForItsOwnRequests
  <2> SUFFICES ASSUME NEW h \in hits, h.request \notin admitted, req[h.request].client \in Direct
               PROVE  Route[req[h.request].path].limit
                        <= Cardinality({g \in hits \ {h} : /\ req[g.request].path = req[h.request].path
                                                           /\ req[g.request].client = req[h.request].client
                                                           /\ g.at <= h.at /\ h.at <= g.at + Ttl})
      BY DEF RefusedForItsOwnRequests
  <2> DEFINE own == {g \in hits \ {h} : /\ req[g.request].path = req[h.request].path
                                        /\ req[g.request].client = req[h.request].client
                                        /\ g.at <= h.at /\ h.at <= g.at + Ttl}
  <2>1. ASSUME NEW g \in hits
        PROVE  g.key = KeyOf(req[g.request]) /\ req[g.request].client \in Clients
    <3>1. g.request \in Requests /\ pc[g.request] # "idle"
        BY <1>1 DEF PInv, HitsAreOwn, ThrottleInv, IInv, ThrottleTypeOK
    <3>2. req[g.request] \in Req
        BY <1>1, <3>1, PipelineAssumption DEF PInv, TasksTypeOK
    <3> QED BY <1>1, <3>2 DEF PInv, HitsAreOwn, Req
  <2>2. Before(h) \subseteq own
    <3> SUFFICES ASSUME NEW g \in Before(h)
                 PROVE  req[g.request].path = req[h.request].path /\ req[g.request].client = req[h.request].client
        BY DEF Before, Of
    <3>1. g \in hits /\ KeyOf(req[g.request]) = KeyOf(req[h.request])
        BY <2>1 DEF Before, Of
    <3> QED BY <2>1, <3>1, PipelineAssumption DEF KeyOf, Tracker, Clients
  <2>3. IsFiniteSet(own) /\ IsFiniteSet(Before(h))
      BY <1>1, FS_Subset DEF PInv, ThrottleInv, IInv, Before, Of
  <2>4. Cardinality(Before(h)) <= Cardinality(own) /\ Cardinality(Before(h)) \in Nat /\ Cardinality(own) \in Nat
      BY <2>2, <2>3, FS_Subset, FS_CardinalityType
  <2>5. Limit(h.key) <= Cardinality(Before(h)) /\ h.key \in Keys
      BY <1>1 DEF PInv, ThrottleInv, IInv, ThrottleTypeOK, RefusedAtTheLimit, Before
  <2>6. Limit(h.key) = Route[req[h.request].path].limit /\ Limit(h.key) \in Nat
      BY <2>1, <2>5, LimitsAreNumbers DEF Limit, KeyOf
  <2> QED BY <2>4, <2>5, <2>6
<1> QED BY <1>1, InitIsSound, StepIsSound, PTL DEF Spec

(* An error inside the interceptors is reported once and reaches the       *)
(* client, as far as Sentry and Slack are configured                       *)
(* (sentry.interceptor.ts:40-64).                                          *)
THEOREM ErrorsAreKept == Spec => []ErrorIsReportedAndKept
<1>1. PInv => ErrorIsReportedAndKept
    BY DEF PInv, Sound, Reported, ErrorIsReportedAndKept
<1> QED BY <1>1, InitIsSound, StepIsSound, PTL DEF Spec

(* The list of users goes only to a token that names somebody who was an   *)
(* administrator since the request came, although the role is read before  *)
(* the list is; the token need not be signed by the server, as the guard   *)
(* of this route only decodes it (user.controller.ts:33,                   *)
(* jwt-auth.guard.ts:66, :82-84).                                          *)
THEOREM ListForNamedAdmins == Spec => []ListNeedsNamedAdmin
<1>1. PInv => ListNeedsNamedAdmin
    BY DEF PInv, Sound, Served, NoBody, ListNeedsNamedAdmin
<1> QED BY <1>1, InitIsSound, StepIsSound, PTL DEF Spec

(* Behind the strategy a handler runs only for a token the server signed,  *)
(* valid and of the kind the route asks for, and has its user              *)
(* (user.decorator.ts:14, jwt-auth.guard.ts:69-88, jwt.strategy.ts).       *)
THEOREM HandlersHaveTheirUser == Spec => []HandlerHasItsUser
<1>1. PInv => HandlerHasItsUser
    BY DEF PInv, Sound, Guarded, Passed, HandlerHasItsUser
<1> QED BY <1>1, InitIsSound, StepIsSound, PTL DEF Spec

(* The counters of the pipeline are those of Throttle: whatever comes      *)
(* before the guard, it counts each request once, under a key of a         *)
(* throttled route (throttler-behind-proxy.guard.ts:16-33).                *)
THEOREM PipelineThrottles == Spec => ThrottleSpec
<1>1. Init => ThrottleInit
    BY DEF Init
<1>2. PInv /\ [Next]_vars => [ThrottleNext]_throttleVars
    BY StepOfTheThrottle
<1> QED BY <1>1, <1>2, InitIsSound, StepIsSound, PTL DEF Spec, ThrottleSpec

=============================================================================
