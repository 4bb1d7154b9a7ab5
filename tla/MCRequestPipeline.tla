------------------------- MODULE MCRequestPipeline -------------------------
EXTENDS RequestPipeline

Ask(paths, tokens, client, page, size) ==
    [path : paths, token : tokens, sub : Users, client : {client}, page : {page}, size : {size}]

Plain(paths, tokens) == Ask(paths, tokens, "direct", "absent", "absent")

(* The first request is any; the other meets it at the throttle.           *)
AnyRequest ==
    Plain(Paths \ {"signin", "refresh", "listUsers", "oneUser", "listVideos"}, {"access"})
    \cup Plain({"signin"}, {"none"}) \cup Plain({"refresh"}, {"garbled", "expired", "refresh"})
    \cup Plain({"listUsers"}, {"access", "expired", "unverified"})
    \cup Plain({"oneUser"}, Tokens)
    \cup Ask({"listVideos"}, {"access"}, "direct", "two", "zero")
    \cup UNION {Ask({"listVideos"}, {"access"}, "direct", "absent", size) :
                   size \in {"absent", "word", "minusOne"}}

Download(client) == Ask({"download"}, {"access"}, client, "absent", "absent")

MCRequestsOf ==
    [r \in Requests |-> IF r = "r1" THEN AnyRequest ELSE Download("direct") \cup Download("proxied")]

(* For the documentation of answers: pages and a single user.              *)
MCPagesAndUser ==
    [r \in Requests |-> Plain({"listVideos", "oneUser"}, {"access"})]

MCEnvs == {[stage |-> "local", dsn |-> TRUE,  webhook |-> TRUE],
           [stage |-> "prod",  dsn |-> TRUE,  webhook |-> FALSE],
           [stage |-> "prod",  dsn |-> FALSE, webhook |-> TRUE]}
=============================================================================
