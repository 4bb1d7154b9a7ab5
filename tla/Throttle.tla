----------------------------- MODULE Throttle -----------------------------
(***************************************************************************)
(* The request counters of @nestjs/throttler as VideoController uses them: *)
(* one counter per route and tracker, raised by every request that asks,   *)
(* the refused ones included, and lowered by a timer of its own per        *)
(* request when the window is over.  There is one window length.           *)
(***************************************************************************)
EXTENDS Routes, FiniteSets

CONSTANTS Requests, Trackers,
          Ttl,       \* length of the window
          MaxTime    \* bound on the clock

ASSUME WindowAssumption ==
    IsFiniteSet(Requests) /\ Ttl \in Nat \ {0} /\ MaxTime \in Nat

VARIABLES now,       \* the clock
          total,     \* totalHits of each key
          hits,      \* every request counted since the start, its key and its time
          timers,    \* the hits whose timer has not fired
          admitted   \* the requests the guard let through

throttleVars == <<now, total, hits, timers, admitted>>

-----------------------------------------------------------------------------
Keys     == {name \in RouteNames : Route[name].limit > 0} \X Trackers
Limit(k) == Route[k[1]].limit
HitOf(r, k) == [request |-> r, key |-> k, at |-> now]
Counted  == {h.request : h \in hits}
Of(S, k) == {h \in S : h.key = k}

ThrottleInit ==
    /\ now = 0
    /\ total = [k \in Keys |-> 0]
    /\ hits = {} /\ timers = {} /\ admitted = {}

LimitStillOpen(k) == total[k] <= Limit(k)
WithinLimit(k)    == total[k] + 1 <= Limit(k)

(* handleRequest counts first and compares what the counter then is.       *)
Hit(r, k) ==
    /\ r \notin Counted
    /\ total' = [total EXCEPT ![k] = @ + 1]
    /\ hits' = hits \cup {HitOf(r, k)}
    /\ timers' = timers \cup {HitOf(r, k)}
    /\ admitted' = IF WithinLimit(k) THEN admitted \cup {r} ELSE admitted
    /\ UNCHANGED now

Due(h) == h.at + Ttl <= now

Expire(h) ==
    /\ Due(h)
    /\ total' = [total EXCEPT ![h.key] = @ - 1]
    /\ timers' = timers \ {h}
    /\ UNCHANGED <<now, hits, admitted>>

(* A timer fires in the unit of time in which it is due, before or after   *)
(* the requests of that unit.                                              *)
Tick ==
    /\ now < MaxTime
    /\ \A h \in timers : ~Due(h)
    /\ now' = now + 1
    /\ UNCHANGED <<total, hits, timers, admitted>>

(* The counters live in memory: the process ends, and they with it.        *)
Forget ==
    /\ total' = [k \in Keys |-> 0]
    /\ hits' = {} /\ timers' = {} /\ admitted' = {}
    /\ UNCHANGED now

ThrottleNext ==
    \/ \E r \in Requests, k \in Keys : Hit(r, k)
    \/ \E h \in timers : Expire(h)
    \/ Tick
    \/ Forget

ThrottleSpec == ThrottleInit /\ [][ThrottleNext]_throttleVars

-----------------------------------------------------------------------------
ThrottleTypeOK ==
    /\ now \in 0 .. MaxTime
    /\ total \in [Keys -> Nat]
    /\ hits \subseteq [request : Requests, key : Keys, at : 0 .. MaxTime]
    /\ timers \subseteq hits
    /\ admitted \subseteq Counted

(* Between two starts no route serves a tracker more often than its limit  *)
(* within any window, wherever it begins: the counter forgets each request *)
(* on its own, not all of them at the end of a window                      *)
(* (throttler-behind-proxy.guard.ts:16, app.module.ts:27).                 *)
AtMostLimitPerWindow ==
    \A k \in Keys :
        Cardinality({h \in Of(hits, k) : h.request \in admitted /\ now < h.at + Ttl}) <= Limit(k)

(* A refused request had as many others of its own route and tracker       *)
(* before it in the window that ends with it as the limit allows: no       *)
(* refusal on account of another route, another tracker or an old window.  *)
RefusedAtTheLimit ==
    \A h \in hits :
        h.request \notin admitted =>
            Limit(h.key) <= Cardinality({g \in Of(hits, h.key) \ {h} : g.at <= h.at /\ h.at <= g.at + Ttl})
=============================================================================
