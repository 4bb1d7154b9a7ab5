------------------------------ MODULE Routes ------------------------------
(***************************************************************************)
(* What the decorators of the four controllers say of each route, what its *)
(* handler may answer, and what the API documentation promises.  A body is *)
(* the set of its field names; a status is its number.                     *)
(***************************************************************************)
EXTENDS Integers

CONSTANTS DefaultLimit, DownloadLimit   \* requests per window: 20 and 3

ASSUME LimitsArePositive == DefaultLimit \in Nat \ {0} /\ DownloadLimit \in Nat \ {0}

-----------------------------------------------------------------------------
(* The bodies of answers.                                                  *)
SignupResDto    == {"id", "accessToken", "refreshToken"}
SigninResDto    == {"accessToken", "refreshToken"}
RefreshResDto   == {"accessToken", "refreshToken"}
FindUserResDto  == {"id", "email", "createdAt"}
CreateVideoResDto == {"id", "title"}
FindVideoResDto == {"id", "title", "user"}
PageResDto      == {"page", "size", "items"}
HealthResult    == {"status", "info", "error", "details"}

(* What the handlers build.                                                *)
TokenPair       == {"accessToken", "refreshToken"}
UserColumns     == {"id", "email", "role", "createdAt", "updatedAt"}
UserItem        == {"id", "email", "createdAt"}
VideoItem       == {"id", "title", "user"}

(* What is documented of an answer: its status, the fields of the page if  *)
(* it is one, and the fields of the body or of each item of the page.      *)
Undocumented               == [code |-> 0, wrap |-> {}, fields |-> {}]
ApiGetResponse(model)      == [code |-> 200, wrap |-> {}, fields |-> model]
ApiPostResponse(model)     == [code |-> 201, wrap |-> {}, fields |-> model]
ApiGetItemsResponse(model) == [code |-> 200, wrap |-> PageResDto, fields |-> model]

(* What pages a DTO makes of the raw text of ?page and ?size, and what the *)
(* answer repeats of it; NaN stands for what is no number.                 *)
NaN      == -99
NumberOf == [empty |-> 0, zero |-> 0, one |-> 1, two |-> 2, minusOne |-> -1, word |-> NaN]
RawTexts == {"absent"} \cup DOMAIN NumberOf
PageReqDto(raw, default) == IF raw = "absent" THEN default ELSE NumberOf[raw]

-----------------------------------------------------------------------------
(* A route without decorators.  `refusals` are the statuses its pipes may  *)
(* give, `errors` those its handler may throw, 500 being any other error.  *)
Get  == [public |-> FALSE, admin |-> FALSE, limit |-> 0, list |-> FALSE,
         code |-> 200, refusals |-> {}, errors |-> {500}, fields |-> {}, doc |-> Undocumented]
Post == [Get EXCEPT !.code = 201]

AuthController(name) ==
    CASE name = "signup"  -> [Post EXCEPT !.public = TRUE, !.refusals = {400}, !.errors = {400, 500},
                                !.fields = {"id"} \cup TokenPair, !.doc = ApiPostResponse(SignupResDto)]
      [] name = "signin"  -> [Post EXCEPT !.public = TRUE, !.refusals = {400}, !.errors = {401, 500},
                                !.fields = TokenPair, !.doc = ApiPostResponse(SigninResDto)]
      [] name = "refresh" -> [Post EXCEPT !.errors = {400, 500},
                                !.fields = TokenPair, !.doc = ApiPostResponse(RefreshResDto)]

UserController(name) ==
    CASE name = "listUsers" -> [Get EXCEPT !.admin = TRUE, !.list = TRUE, !.refusals = {400},
                                  !.fields = UserItem, !.doc = ApiGetItemsResponse(FindUserResDto)]
      [] name = "oneUser"   -> [Get EXCEPT !.refusals = {400}, !.fields = UserColumns,
                                  !.doc = ApiGetResponse(FindUserResDto)]

(* The whole class stands behind the throttler; its limit is the default   *)
(* one but for what @Throttle and @SkipThrottle say.                       *)
VideoController(name) ==
    CASE name = "upload"     -> [Post EXCEPT !.limit = DefaultLimit, !.refusals = {400, 422},
                                   !.fields = {"id", "title"}, !.doc = ApiPostResponse(CreateVideoResDto)]
      [] name = "listVideos" -> [Get EXCEPT !.list = TRUE, !.refusals = {400},
                                   !.fields = VideoItem, !.doc = ApiGetItemsResponse(FindVideoResDto)]
      [] name = "oneVideo"   -> [Get EXCEPT !.limit = DefaultLimit, !.refusals = {400}, !.errors = {404, 500},
                                   !.fields = VideoItem, !.doc = ApiGetResponse(FindVideoResDto)]
      [] name = "download"   -> [Get EXCEPT !.limit = DownloadLimit, !.refusals = {400}, !.errors = {404, 500}]

HealthController == [Get EXCEPT !.public = TRUE, !.errors = {503}, !.fields = HealthResult]

RouteNames == {"signup", "signin", "refresh", "listUsers", "oneUser",
               "upload", "listVideos", "oneVideo", "download", "health"}

Route == [name \in RouteNames |->
            CASE name \in {"signup", "signin", "refresh"} -> AuthController(name)
              [] name \in {"listUsers", "oneUser"}        -> UserController(name)
              [] name \in {"upload", "listVideos", "oneVideo", "download"} -> VideoController(name)
              [] name = "health"                          -> HealthController]

FieldNames == UNION {Route[name].fields : name \in RouteNames}
=============================================================================
