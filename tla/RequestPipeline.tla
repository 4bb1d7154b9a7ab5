-------------------------- MODULE RequestPipeline --------------------------
(***************************************************************************)
(* From the start of the server (main.ts) to the answer of each request:   *)
(* request log, guards, pipes, handler, interceptors, error reports, and   *)
(* the two promises nobody awaits: the Slack alert of an error and the     *)
(* refresh token that sign-up saves.  Integers are HTTP statuses.          *)
(***************************************************************************)
EXTENDS Throttle

CONSTANTS Users,
          Direct, Proxied,   \* clients, the latter behind one proxy
          Proxy,             \* its address
          Envs,              \* environments the server may start in
          RequestsOf,        \* what each request may be
          TableSizes         \* how many rows a listed table may have

Clients == Direct \cup Proxied
Roles   == {"none", "USER", "ADMIN"}             \* "none": no row in users
Paths   == RouteNames \cup {"docs", "unknown"}
(* "unverified" decodes to the payload of an access token, but is not      *)
(* signed with the secret of the server.                                   *)
Tokens  == {"none", "bare", "garbled", "unverified", "access", "expired", "refresh"}
Env     == [stage : {"local", "dev", "prod"}, dsn : BOOLEAN, webhook : BOOLEAN]
(* sub is the user the payload of the token names.                         *)
Req     == [path : Paths, token : Tokens, sub : Users, client : Clients,
            page : RawTexts, size : RawTexts]
Promises == Requests \X {"alert", "save"}

ASSUME PipelineAssumption ==
    /\ Trackers = Direct \cup {Proxy} /\ Proxy \notin Clients /\ Direct \cap Proxied = {}
    /\ Envs \subseteq Env
    /\ RequestsOf \in [Requests -> SUBSET Req]
    /\ TableSizes \subseteq Nat

VARIABLES phase,    \* "starting", "created", "up" or "down"
          env,      \* STAGE, and whether SENTRY_DSN and SLACK_WEBHOOK are set
          role,     \* column role of the rows of users
          pc,       \* where the request stands
          req,      \* what was asked
          status,   \* statusCode of the response so far
          body,     \* what the response carries
          cause,    \* status of the error thrown inside the interceptors, or 0
          user,     \* request.user, a set of at most one user
          reports,  \* errors passed to an initialised Sentry
          detached, \* promises nobody awaits that are not settled
          logged,   \* status in the log line of the request, or 0
          wasAdmin  \* the user its token names was an administrator since

taskVars == <<pc, req, status, body, cause, user, reports, logged, wasAdmin>>
vars == <<phase, env, role, detached, taskVars, throttleVars>>

-----------------------------------------------------------------------------
NoReq  == [path |-> "none"]
NoBody == [size |-> 0, items |-> 0, fields |-> {}, wrap |-> {}]
AtRest  == {"idle", "closed", "lost"}
Working == {"guard", "role", "throttle", "handle", "commit"}
RouteOf(r) == Route[req[r].path]

Init ==
    /\ phase = "starting" /\ env \in Envs /\ role \in [Users -> Roles]
    /\ pc = [r \in Requests |-> "idle"]  /\ req = [r \in Requests |-> NoReq]
    /\ status = [r \in Requests |-> 200] /\ body = [r \in Requests |-> NoBody]
    /\ cause = [r \in Requests |-> 0]    /\ user = [r \in Requests |-> {}]
    /\ reports = [r \in Requests |-> 0]  /\ logged = [r \in Requests |-> 0]
    /\ detached = {} /\ wasAdmin = [r \in Requests |-> FALSE]
    /\ ThrottleInit

At(r, label)    == phase = "up" /\ pc[r] = label
Goto(r, label)  == pc' = [pc EXCEPT ![r] = label]
(* LoggerMiddleware writes its line when the response closes, with the     *)
(* status of that moment.                                                  *)
Log(r, code)    == logged' = [logged EXCEPT ![r] = IF @ = 0 THEN code ELSE @]
Answer(r, code) == Goto(r, "closed") /\ status' = [status EXCEPT ![r] = code] /\ Log(r, code)
(* Nest sets the status of the route when the guards have let it through.  *)
EnterRoute(r)   ==
    Goto(r, "handle") /\ status' = [status EXCEPT ![r] = RouteOf(r).code] /\ UNCHANGED logged
World           == <<phase, env, role, detached>>

-----------------------------------------------------------------------------
(* NestFactory.create builds AppModule and connects the database; without  *)
(* it, or without the port, the process ends, and Docker restarts it.      *)
Create ==
    /\ phase = "starting" /\ phase' \in {"created", "down"}
    /\ UNCHANGED <<env, role, detached, taskVars, throttleVars>>

Listen ==
    /\ phase = "created" /\ phase' \in {"up", "down"}
    /\ UNCHANGED <<env, role, detached, taskVars, throttleVars>>

Restart ==
    /\ phase = "down" /\ phase' = "starting"
    /\ UNCHANGED <<env, role, detached, taskVars, throttleVars>>

(* The process ends: connections break, promises and counters are gone.    *)
Exit ==
    /\ phase' = "down" /\ detached' = {} /\ Forget
    /\ pc' = [r \in Requests |-> IF pc[r] \in AtRest THEN pc[r] ELSE "lost"]

DocsServed == env.stage \in {"local", "dev"}

(* /docs is mounted before the request log, everything else behind it; a   *)
(* path without a route meets no guard and no interceptor.                 *)
Arrive(r, q) ==
    /\ At(r, "idle")
    /\ req' = [req EXCEPT ![r] = q]
    /\ wasAdmin' = [wasAdmin EXCEPT ![r] = role[q.sub] = "ADMIN"]
    /\ \/ q.path \in RouteNames /\ Goto(r, "guard") /\ UNCHANGED <<status, logged>>
       \/ q.path = "docs" /\ DocsServed
          /\ \E code \in {200, 401} : status' = [status EXCEPT ![r] = code]
          /\ Goto(r, "closed") /\ UNCHANGED logged
       \/ q.path \notin RouteNames /\ ~(q.path = "docs" /\ DocsServed) /\ Answer(r, 404)
    /\ UNCHANGED <<World, body, cause, user, reports, throttleVars>>

(* JwtAuthGuard up to the role or the strategy; 0 lets the request pass.   *)
(* No token can be cut out of a bare "Bearer", and what does not decode    *)
(* has no tokenType: both throw a TypeError.  Only the strategy looks at   *)
(* signature and expiry, and a route with @Roles never reaches it.         *)
Refusal(q) ==
    LET route == Route[q.path] IN
    CASE route.public                                   -> 0
      [] q.token = "none"                               -> 401
      [] q.token = "bare"                               -> 500
      [] q.token = "garbled" /\ q.path # "refresh"      -> 500
      [] q.token = "refresh" /\ q.path # "refresh"      -> 401
      [] q.token \in {"garbled", "unverified", "expired"} /\ ~route.admin -> 401
      [] OTHER                                          -> 0

TokenIsAccess(q) == ~Route[q.path].public /\ q.token # "refresh"
UsesStrategy(q) == ~Route[q.path].public /\ ~Route[q.path].admin

(* The throttler is a guard of the controller and comes after the global   *)
(* one.                                                                    *)
AfterJwt(r) ==
    IF RouteOf(r).limit > 0 THEN Goto(r, "throttle") /\ UNCHANGED <<status, logged>> ELSE EnterRoute(r)

CanActivate(r) ==
    /\ At(r, "guard")
    /\ \/ Refusal(req[r]) # 0 /\ Answer(r, Refusal(req[r])) /\ UNCHANGED user
       \/ Refusal(req[r]) = 0 /\ RouteOf(r).admin
          /\ Goto(r, "role") /\ UNCHANGED <<status, user, logged>>
       \/ Refusal(req[r]) = 0 /\ ~RouteOf(r).admin /\ AfterJwt(r)
          /\ user' = [user EXCEPT ![r] = IF UsesStrategy(req[r]) THEN {req[r].sub} ELSE {}]
    /\ UNCHANGED <<World, req, body, cause, reports, wasAdmin, throttleVars>>

CheckUserExists(r) ==
    /\ At(r, "role")
    /\ IF role[req[r].sub] = "none" THEN Answer(r, 500) ELSE AfterJwt(r)
    /\ UNCHANGED <<World, req, body, cause, user, reports, wasAdmin, throttleVars>>

(* What checkUserIsAdmin makes of the row it finds; without one it throws, *)
(* and so it does when the query fails.                                    *)
CheckUserIsAdmin(r) ==
    /\ At(r, "role")
    /\ \/ role[req[r].sub] = "ADMIN" /\ AfterJwt(r)
       \/ role[req[r].sub] = "USER" /\ Answer(r, 403)
       \/ Answer(r, 500)
    /\ UNCHANGED <<World, req, body, cause, user, reports, wasAdmin, throttleVars>>

(* trust proxy is not set: req.ips is empty and req.ip is the other end of *)
(* the connection.                                                         *)
OneTracker(client) == Proxy
Tracker(client) == IF client \in Proxied THEN Proxy ELSE client
KeyOf(q) == <<q.path, Tracker(q.client)>>

ThrottleGuard(r) ==
    /\ At(r, "throttle")
    /\ Hit(r, KeyOf(req[r]))
    /\ IF WithinLimit(KeyOf(req[r])) THEN EnterRoute(r) ELSE Answer(r, 429)
    /\ UNCHANGED <<World, req, body, cause, user, reports, wasAdmin>>

-----------------------------------------------------------------------------
Asked(q)    == <<PageReqDto(q.page, 1), PageReqDto(q.size, 20)>>
IsInt(p)    == p[1] # NaN /\ p[2] # NaN
InRange(p)  == (p[1] - 1) * p[2] >= 0 /\ p[2] >= 0

(* Statuses the pipes and the handler may end in, other than success.      *)
ErrorsOf(q) ==
    IF Route[q.path].list THEN IF IsInt(Asked(q)) THEN {500} ELSE {400}
    ELSE Route[q.path].refusals \cup Route[q.path].errors

(* SentryInterceptor: capture, alert, rethrow.  The constructor of the     *)
(* webhook throws when it has no address, and that error goes out instead. *)
ReportsAgain(r) == [reports EXCEPT ![r] = IF env.dsn THEN @ + 2 ELSE @]
Reports(r) == [reports EXCEPT ![r] = IF env.dsn THEN @ + 1 ELSE @]

ThrowAfterAlert(r, code) ==
    /\ cause' = [cause EXCEPT ![r] = code]
    /\ reports' = IF env.webhook THEN Reports(r) ELSE reports
    /\ detached' = IF env.webhook THEN detached \cup {<<r, "alert">>} ELSE detached
    /\ Answer(r, IF env.webhook THEN code ELSE 500)
    /\ UNCHANGED body

Throw(r, code) ==
    /\ cause' = [cause EXCEPT ![r] = code]
    /\ reports' = Reports(r)
    /\ detached' = IF env.webhook THEN detached \cup {<<r, "alert">>} ELSE detached
    /\ Answer(r, IF env.webhook THEN code ELSE 500)
    /\ UNCHANGED body

(* The items of a page: OFFSET and LIMIT, which 0 leaves out.              *)
Items(q, rows) ==
    LET skip == (Asked(q)[1] - 1) * Asked(q)[2]
        take == Asked(q)[2]
    IN  {i \in 1 .. rows : skip < i /\ (take = 0 \/ i <= skip + take)}

(* TransformInterceptor: an array becomes a page, whose size is read off   *)
(* the query string; `raw || default` also replaces an empty text.         *)
Echo(raw, default) == IF raw \in {"absent", "empty"} THEN default ELSE NumberOf[raw]

(* findOne answers null to the id of no user, which is an empty body.      *)
Bodies(q) ==
    IF Route[q.path].list
    THEN {[size |-> Echo(q.size, 20), items |-> Cardinality(Items(q, rows)),
           fields |-> Route[q.path].fields, wrap |-> PageResDto] : rows \in TableSizes}
    ELSE {[NoBody EXCEPT !.fields = f] :
             f \in {Route[q.path].fields} \cup (IF q.path = "oneUser" THEN {{}} ELSE {})}

Return(r) ==
    /\ Route[req[r].path].list => IsInt(Asked(req[r])) /\ InRange(Asked(req[r]))
    /\ \E b \in Bodies(req[r]) : body' = [body EXCEPT ![r] = b]
    /\ Answer(r, status[r])
    /\ UNCHANGED <<cause, reports, detached>>

(* Sign-up saves its refresh token without awaiting it, and sends COMMIT.  *)
LeaveSave(r) ==
    /\ detached' = detached \cup {<<r, "save">>}
    /\ Goto(r, "commit")
    /\ UNCHANGED <<status, logged, body, cause, reports>>

Handle(r) ==
    /\ \/ /\ At(r, "handle")
          /\ \/ req[r].path = "signup" /\ LeaveSave(r)
             \/ req[r].path # "signup" /\ Return(r)
             \/ \E code \in ErrorsOf(req[r]) : Throw(r, code)
       \/ /\ At(r, "commit")
          /\ Return(r) \/ Throw(r, 500)
    /\ UNCHANGED <<phase, env, role, req, user, wasAdmin, throttleVars>>

-----------------------------------------------------------------------------
(* The response of a client that leaves is closed; its handler goes on.    *)
ClientLeaves(r) ==
    /\ phase = "up" /\ pc[r] \notin AtRest /\ logged[r] = 0 /\ Log(r, status[r])
    /\ UNCHANGED <<World, pc, req, status, body, cause, user, reports, wasAdmin, throttleVars>>

(* A rejected promise that nobody awaits is an unhandled rejection: an     *)
(* initialised Sentry only warns of it, without one Node ends the process. *)
Settled(p) == detached' = detached \ {p} /\ UNCHANGED <<phase, pc, throttleVars>>

RejectionEndsProcess(p) ==
    /\ phase = "up" /\ p \in detached
    /\ Settled(p) \/ Exit
    /\ UNCHANGED <<env, role, req, status, body, cause, user, reports, logged, wasAdmin>>

PromiseSettles(p) ==
    /\ phase = "up" /\ p \in detached
    /\ Settled(p) \/ (~env.dsn /\ Exit)
    /\ UNCHANGED <<env, role, req, status, body, cause, user, reports, logged, wasAdmin>>

(* Sign-up, and the administrator's psql session of docs/ch-5.             *)
RoleMoves == {<<"none", "USER">>, <<"USER", "ADMIN">>, <<"ADMIN", "USER">>}

SetRole(u, new) ==
    /\ phase = "up" /\ <<role[u], new>> \in RoleMoves
    /\ role' = [role EXCEPT ![u] = new]
    /\ wasAdmin' = [r \in Requests |->
           wasAdmin[r] \/ (pc[r] \notin AtRest /\ req[r].sub = u /\ new = "ADMIN")]
    /\ UNCHANGED <<phase, env, detached, pc, req, status, body, cause, user, reports, logged, throttleVars>>

Clock ==
    /\ phase = "up"
    /\ Tick \/ \E h \in timers : Expire(h)
    /\ UNCHANGED <<World, taskVars>>

Step(r) == CanActivate(r) \/ CheckUserIsAdmin(r) \/ ThrottleGuard(r) \/ Handle(r)

Next ==
    \/ Create \/ Listen \/ Restart \/ Clock
    \/ \E r \in Requests :
          Step(r) \/ ClientLeaves(r) \/ \E q \in RequestsOf[r] : Arrive(r, q)
    \/ \E p \in Promises : PromiseSettles(p)
    \/ \E u \in Users, new \in Roles : SetRole(u, new)

Spec == Init /\ [][Next]_vars /\ \A r \in Requests : WF_vars(Step(r))

-----------------------------------------------------------------------------
Body == [size : Int, items : Nat, fields : SUBSET FieldNames, wrap : {{}, PageResDto}]

TasksTypeOK ==
    /\ phase \in {"starting", "created", "up", "down"}
    /\ env \in Envs /\ role \in [Users -> Roles]
    /\ pc \in [Requests -> AtRest \cup Working]
    /\ req \in [Requests -> Req \cup {NoReq}]
    /\ \A r \in Requests : pc[r] # "idle" => req[r] \in RequestsOf[r]
    /\ \A r \in Requests : pc[r] \in Working => req[r].path \in RouteNames
    /\ status \in [Requests -> Nat] /\ cause \in [Requests -> Nat]
    /\ reports \in [Requests -> 0 .. 1] /\ logged \in [Requests -> Nat]
    /\ body \in [Requests -> Body]
    /\ user \in [Requests -> SUBSET Users] /\ wasAdmin \in [Requests -> BOOLEAN]
    /\ detached \subseteq Promises

TypeOK == TasksTypeOK /\ ThrottleTypeOK

(* An error thrown by a pipe or a handler is captured once when Sentry has *)
(* an address, whatever becomes of the alert, and the client gets that     *)
(* error when Slack has one; a refusal of a guard is never captured        *)
(* (sentry.interceptor.ts:40-64).                                          *)
ErrorIsReportedAndKept ==
    \A r \in Requests :
        IF cause[r] = 0 THEN reports[r] = 0
        ELSE /\ env.dsn => reports[r] = 1
             /\ env.webhook => status[r] = cause[r]

(* The list of users is served only for a token that names somebody who    *)
(* was an administrator at some moment since the request came, although    *)
(* the role is read before the list and may change in between.  The guard  *)
(* only decodes the token of this route, so this is a statement about the  *)
(* user it names, not about who sent it (user.controller.ts:33,            *)
(* jwt-auth.guard.ts:66, :82-84).                                          *)
ListNeedsNamedAdmin ==
    \A r \in Requests :
        pc[r] # "idle" /\ req[r].path = "listUsers" /\ body[r].fields # {} => wasAdmin[r]

(* Behind the strategy a handler runs only for a token of its own request  *)
(* that the server signed, that has not expired and that is of the kind    *)
(* the route asks for, and request.user is the user it names               *)
(* (user.decorator.ts:14, jwt-auth.guard.ts:69-88, jwt.strategy.ts).       *)
HandlerHasItsUser ==
    \A r \in Requests :
        pc[r] \in {"handle", "commit"} /\ ~RouteOf(r).public /\ ~RouteOf(r).admin =>
            /\ user[r] = {req[r].sub}
            /\ req[r].token = "access" \/ (req[r].token = "refresh" /\ req[r].path = "refresh")

(* A client that reaches the server directly is refused by the throttle    *)
(* only after as many requests of its own for that route in the window as  *)
(* the limit allows (throttler-behind-proxy.guard.ts:33).                  *)
RefusedForItsOwnRequests ==
    \A h \in hits :
        LET q == req[h.request]
            own == {g \in hits \ {h} : /\ req[g.request].path = q.path
                                       /\ req[g.request].client = q.client
                                       /\ g.at <= h.at /\ h.at <= g.at + Ttl}
        IN  h.request \notin admitted /\ q.client \in Direct => Route[q.path].limit <= Cardinality(own)

(* Every request that came gets its line in the request log, so that its   *)
(* response was closed, whatever becomes of the alerts and saves that the  *)
(* others left behind; only a server without Sentry may end before         *)
(* (main.ts:97, sentry.interceptor.ts:46, auth.service.ts:147,             *)
(* logger.middleware.ts:23).                                               *)
EveryRequestIsClosed ==
    \A r \in Requests :
        pc[r] = "guard" ~> logged[r] # 0 \/ (pc[r] = "lost" /\ ~env.dsn)

(* What the documentation promises of answers, and the code does not do.   *)

(* A documented route answers in success with the status, the shape and at *)
(* least the fields its decorator documents, and the size of a page is the *)
(* number of its items (swagger.decorator.ts, res.dto.ts:103-131,          *)
(* user.service.ts:39).                                                    *)
AnswersAreAsDocumented ==
    \A r \in Requests :
        pc[r] = "closed" /\ req[r].path \in RouteNames /\ RouteOf(r).doc # Undocumented /\ status[r] < 300 =>
            LET doc == RouteOf(r).doc
            IN  /\ status[r] = doc.code /\ body[r].wrap = doc.wrap
                /\ doc.fields \subseteq body[r].fields
                /\ body[r].wrap # {} => body[r].size = body[r].items
=============================================================================
