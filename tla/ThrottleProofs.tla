-------------------------- MODULE ThrottleProofs --------------------------
(***************************************************************************)
(* Whatever the requests, the limits and the window: the counters keep the *)
(* limit in every window, and refuse nobody below it.                      *)
(***************************************************************************)
EXTENDS Throttle, FiniteSetTheorems, TLAPS

(* The counter of a key is the number of its timers; a hit without a timer *)
(* is out of the window, and a timer never outlives it.                    *)
CountersAreTimers == \A k \in Keys : total[k] = Cardinality(Of(timers, k))
OneHitEach        == \A g, h \in hits : g.request = h.request => g = h
TimersAreInTime   ==
    /\ \A h \in hits : h.at <= now
    /\ \A h \in hits \ timers : Due(h)
    /\ \A h \in timers : now <= h.at + Ttl

IInv == ThrottleTypeOK /\ IsFiniteSet(hits) /\ OneHitEach /\ CountersAreTimers /\ TimersAreInTime

Recent(k) == {h \in Of(hits, k) : h.request \in admitted /\ now < h.at + Ttl}
Before(h) == {g \in Of(hits, h.key) \ {h} : g.at <= h.at /\ h.at <= g.at + Ttl}

-----------------------------------------------------------------------------
(* What the decorators of every route have in common.                      *)
Numbers(t) == t.limit \in Nat /\ t.code \in Nat /\ t.refusals \subseteq Nat \ {0} /\ t.errors \subseteq Nat \ {0}

Guards(n, t) ==
    /\ t.admin => ~t.public
    /\ n = "listUsers" => t.admin

LEMMA RoutesHaveNumbers == \A n \in RouteNames : Numbers(Route[n])
<1> SUFFICES ASSUME NEW n \in RouteNames PROVE Numbers(Route[n])
    OBVIOUS
<1> USE DEF Numbers, Post, Get
<1>1. CASE n \in {"signup", "signin", "refresh"}
  <2>1. Route[n] = AuthController(n)
      BY <1>1 DEF Route, RouteNames
  <2> QED BY <1>1, <2>1 DEF AuthController
<1>2. CASE n \in {"listUsers", "oneUser"}
  <2>1. Route[n] = UserController(n)
      BY <1>2 DEF Route, RouteNames
  <2> QED BY <1>2, <2>1 DEF UserController
<1>3. CASE n \in {"upload", "listVideos", "oneVideo", "download"}
  <2>1. Route[n] = VideoController(n)
      BY <1>3 DEF Route, RouteNames
  <2> QED BY <1>3, <2>1, LimitsArePositive DEF VideoController
<1>4. CASE n \in {"health"}
  <2>1. Route[n] = HealthController
      BY <1>4 DEF Route, RouteNames
  <2> QED BY <1>4, <2>1 DEF HealthController
<1> QED BY <1>1, <1>2, <1>3, <1>4 DEF RouteNames

LEMMA RoutesAreGuarded == \A n \in RouteNames : Guards(n, Route[n])
<1> SUFFICES ASSUME NEW n \in RouteNames PROVE Guards(n, Route[n])
    OBVIOUS
<1> USE DEF Guards, Post, Get
<1>1. CASE n \in {"signup", "signin", "refresh"}
  <2>1. Route[n] = AuthController(n)
      BY <1>1 DEF Route, RouteNames
  <2> QED BY <1>1, <2>1 DEF AuthController
<1>2. CASE n \in {"listUsers", "oneUser"}
  <2>1. Route[n] = UserController(n)
      BY <1>2 DEF Route, RouteNames
  <2> QED BY <1>2, <2>1 DEF UserController
<1>3. CASE n \in {"upload", "listVideos", "oneVideo", "download"}
  <2>1. Route[n] = VideoController(n)
      BY <1>3 DEF Route, RouteNames
  <2> QED BY <1>3, <2>1 DEF VideoController
<1>4. CASE n \in {"health"}
  <2>1. Route[n] = HealthController
      BY <1>4 DEF Route, RouteNames
  <2> QED BY <1>4, <2>1 DEF HealthController
<1> QED BY <1>1, <1>2, <1>3, <1>4 DEF RouteNames

(* The limit of a throttled route is a positive number.                    *)
LEMMA LimitsAreNumbers == \A k \in Keys : Limit(k) \in Nat /\ Limit(k) > 0
BY RoutesHaveNumbers DEF Keys, Limit, Numbers

(* One more element of a finite set, or one less.                          *)
LEMMA CountOneMore ==
    ASSUME NEW S, IsFiniteSet(S), NEW x, x \notin S
    PROVE  Cardinality(S \cup {x}) = Cardinality(S) + 1
BY FS_AddElement

LEMMA CountOneLess ==
    ASSUME NEW S, IsFiniteSet(S), NEW x \in S
    PROVE  Cardinality(S \ {x}) = Cardinality(S) - 1
BY FS_RemoveElement

-----------------------------------------------------------------------------
LEMMA InitInvariant == ThrottleInit => IInv
<1> SUFFICES ASSUME ThrottleInit PROVE IInv
    OBVIOUS
<1>1. IsFiniteSet(hits)
    BY FS_EmptySet DEF ThrottleInit
<1>2. CountersAreTimers
  <2> SUFFICES ASSUME NEW k \in Keys PROVE total[k] = Cardinality(Of(timers, k))
      BY DEF CountersAreTimers
  <2>1. Of(timers, k) = {}
      BY DEF ThrottleInit, Of
  <2> QED BY <2>1, FS_EmptySet DEF ThrottleInit
<1> QED
  BY <1>1, <1>2, WindowAssumption
  DEF ThrottleInit, IInv, ThrottleTypeOK, OneHitEach, TimersAreInTime, Counted

LEMMA HitStep ==
    ASSUME IInv, NEW r \in Requests, NEW k \in Keys, Hit(r, k)
    PROVE  IInv'
<1> DEFINE h == HitOf(r, k)
<1>0. h = [request |-> r, key |-> k, at |-> now] /\ h \notin hits /\ now \in 0 .. MaxTime
    BY DEF HitOf, Hit, Counted, IInv, ThrottleTypeOK
<1>1. hits' = hits \cup {h} /\ timers' = timers \cup {h} /\ now' = now
    BY DEF Hit
<1> HIDE DEF h
<1>2. ThrottleTypeOK'
  <2>1. total' \in [Keys -> Nat] /\ hits' \subseteq [request : Requests, key : Keys, at : 0 .. MaxTime]
      BY <1>0, <1>1 DEF Hit, IInv, ThrottleTypeOK
  <2>2. admitted' \subseteq Counted'
      BY <1>0, <1>1 DEF Hit, IInv, ThrottleTypeOK, Counted
  <2> QED BY <1>1, <2>1, <2>2 DEF IInv, ThrottleTypeOK
<1>3. IsFiniteSet(hits')
    BY <1>1, FS_AddElement DEF IInv
<1>4. OneHitEach'
    BY <1>0, <1>1 DEF Hit, Counted, IInv, OneHitEach
<1>5. CountersAreTimers'
  <2> SUFFICES ASSUME NEW j \in Keys PROVE total'[j] = Cardinality(Of(timers', j))
      BY DEF CountersAreTimers, Of
  <2>1. total'[j] = IF j = k THEN total[j] + 1 ELSE total[j]
      BY DEF Hit, IInv, ThrottleTypeOK
  <2>2. IsFiniteSet(Of(timers, j))
      BY FS_Subset DEF IInv, ThrottleTypeOK, Of
  <2>3. CASE j = k
    <3>1. Of(timers', j) = Of(timers, j) \cup {h} /\ h \notin Of(timers, j)
        BY <1>0, <1>1, <2>3 DEF Of, IInv, ThrottleTypeOK
    <3> QED BY <2>1, <2>2, <2>3, <3>1, CountOneMore DEF IInv, CountersAreTimers
  <2>4. CASE j # k
    <3>1. Of(timers', j) = Of(timers, j)
        BY <1>0, <1>1, <2>4 DEF Of
    <3> QED BY <2>1, <2>4, <3>1 DEF IInv, CountersAreTimers
  <2> QED BY <2>3, <2>4
<1>6. TimersAreInTime'
    BY <1>0, <1>1, WindowAssumption DEF IInv, TimersAreInTime, Due, ThrottleTypeOK
<1> QED BY <1>2, <1>3, <1>4, <1>5, <1>6 DEF IInv

LEMMA ExpireStep ==
    ASSUME IInv, NEW h \in timers, Expire(h)
    PROVE  IInv'
<1>1. hits' = hits /\ timers' = timers \ {h} /\ now' = now /\ h \in hits /\ h.key \in Keys
    BY DEF Expire, IInv, ThrottleTypeOK
<1>2. IsFiniteSet(Of(timers, h.key)) /\ h \in Of(timers, h.key)
    BY FS_Subset DEF IInv, ThrottleTypeOK, Of
<1>3. CountersAreTimers' /\ total' \in [Keys -> Nat]
  <2>1. Cardinality(Of(timers, h.key) \ {h}) = total[h.key] - 1 /\ total[h.key] - 1 \in Nat
    <3>1. IsFiniteSet(Of(timers, h.key) \ {h})
        BY <1>2, FS_RemoveElement
    <3> QED BY <1>1, <1>2, <3>1, CountOneLess, FS_CardinalityType DEF IInv, CountersAreTimers
  <2>2. total' \in [Keys -> Nat]
      BY <1>1, <2>1 DEF Expire, IInv, ThrottleTypeOK
  <2>3. ASSUME NEW j \in Keys PROVE total'[j] = Cardinality(Of(timers', j))
    <3>1. CASE j = h.key
      <4>1. Of(timers', j) = Of(timers, h.key) \ {h}
          BY <1>1, <3>1 DEF Of
      <4> QED BY <2>1, <3>1, <4>1 DEF Expire, IInv, ThrottleTypeOK
    <3>2. CASE j # h.key
      <4>1. Of(timers', j) = Of(timers, j)
          BY <1>1, <3>2 DEF Of
      <4> QED BY <3>2, <4>1 DEF Expire, IInv, ThrottleTypeOK, CountersAreTimers
    <3> QED BY <3>1, <3>2
  <2> QED BY <2>2, <2>3 DEF CountersAreTimers, Of
<1>4. TimersAreInTime'
    BY <1>1 DEF Expire, IInv, TimersAreInTime, Due
<1> QED
  BY <1>1, <1>3, <1>4 DEF Expire, IInv, ThrottleTypeOK, OneHitEach, Counted

LEMMA TickStep == ASSUME IInv, Tick PROVE IInv'
<1>1. TimersAreInTime'
    BY WindowAssumption DEF Tick, Due, IInv, TimersAreInTime, ThrottleTypeOK
<1>2. ThrottleTypeOK'
    BY WindowAssumption DEF Tick, IInv, ThrottleTypeOK, Counted
<1> QED BY <1>1, <1>2 DEF Tick, IInv, OneHitEach, CountersAreTimers, Of

LEMMA ForgetStep == ASSUME IInv, Forget PROVE IInv'
<1>1. CountersAreTimers'
  <2> SUFFICES ASSUME NEW k \in Keys PROVE total'[k] = Cardinality(Of(timers', k))
      BY DEF CountersAreTimers, Of
  <2>1. Of(timers', k) = {}
      BY DEF Forget, Of
  <2> QED BY <2>1, FS_EmptySet DEF Forget
<1> QED
  BY <1>1, FS_EmptySet DEF Forget, IInv, ThrottleTypeOK, OneHitEach, TimersAreInTime, Counted

LEMMA InvariantStep == IInv /\ [ThrottleNext]_throttleVars => IInv'
<1> SUFFICES ASSUME IInv, [ThrottleNext]_throttleVars PROVE IInv'
    OBVIOUS
<1>1. CASE UNCHANGED throttleVars
    BY <1>1
    DEF throttleVars, IInv, ThrottleTypeOK, OneHitEach, CountersAreTimers, TimersAreInTime, Counted, Of, Due
<1> QED BY <1>1, HitStep, ExpireStep, TickStep, ForgetStep DEF ThrottleNext

-----------------------------------------------------------------------------
(* A request admitted within the window still has its timer, and the       *)
(* counter of the timers is compared with the limit.                       *)
LEMMA RecentStep ==
    ASSUME IInv, IInv', AtMostLimitPerWindow, [ThrottleNext]_throttleVars
    PROVE  AtMostLimitPerWindow'
<1> SUFFICES ASSUME NEW j \in Keys PROVE Cardinality(Recent(j)') <= Limit(j)
    BY DEF AtMostLimitPerWindow, Recent, Of
<1>1. IsFiniteSet(Recent(j)) /\ Cardinality(Recent(j)) <= Limit(j) /\ Limit(j) \in Nat
    BY FS_Subset, LimitsAreNumbers DEF AtMostLimitPerWindow, Recent, Of, IInv
<1>2. CASE Recent(j)' \subseteq Recent(j)
    BY <1>1, <1>2, FS_Subset, FS_CardinalityType
<1>3. ASSUME NEW r \in Requests, NEW k \in Keys, Hit(r, k), ~(Recent(j)' \subseteq Recent(j))
      PROVE  Cardinality(Recent(j)') <= Limit(j)
  <2>1. hits' = hits \cup {HitOf(r, k)} /\ now' = now
      BY <1>3 DEF Hit
  <2>2. j = k /\ r \in admitted'
      BY <1>3, <2>1 DEF Recent, Of, Hit, HitOf, Counted
  <2>3. total'[j] = total[j] + 1 /\ total'[j] <= Limit(j)
      BY <1>3, <2>2 DEF Hit, WithinLimit, IInv, ThrottleTypeOK, Counted
  <2>4. Recent(j)' \subseteq Of(timers', j)
      BY WindowAssumption DEF Recent, Of, IInv, TimersAreInTime, Due, ThrottleTypeOK
  <2>5. IsFiniteSet(Of(timers', j))
      BY FS_Subset DEF IInv, ThrottleTypeOK, Of
  <2>6. Cardinality(Recent(j)') <= Cardinality(Of(timers', j)) /\ IsFiniteSet(Recent(j)')
      BY <2>4, <2>5, FS_Subset
  <2>7. Cardinality(Of(timers', j)) = total'[j]
      BY DEF IInv, CountersAreTimers, Of
  <2> QED BY <1>1, <2>3, <2>5, <2>6, <2>7, FS_CardinalityType
<1>4. ASSUME NEW h \in timers, Expire(h) PROVE Recent(j)' \subseteq Recent(j)
    BY <1>4 DEF Expire, Recent, Of
<1>5. ASSUME Tick PROVE Recent(j)' \subseteq Recent(j)
  <2>1. \A h \in hits : now + 1 < h.at + Ttl => now < h.at + Ttl
      BY WindowAssumption DEF IInv, ThrottleTypeOK
  <2> QED BY <1>5, <2>1 DEF Tick, Recent, Of
<1>6. ASSUME UNCHANGED throttleVars PROVE Recent(j)' \subseteq Recent(j)
    BY <1>6 DEF throttleVars, Recent, Of
<1>7. ASSUME Forget PROVE Recent(j)' \subseteq Recent(j)
    BY <1>7 DEF Forget, Recent, Of
<1> QED BY <1>2, <1>3, <1>4, <1>5, <1>6, <1>7 DEF ThrottleNext

(* A refusal sees a counter at the limit: that many timers of the key, all *)
(* set within the window.                                                  *)
LEMMA RefusalStep ==
    ASSUME IInv, IInv', RefusedAtTheLimit, [ThrottleNext]_throttleVars
    PROVE  RefusedAtTheLimit'
<1> SUFFICES ASSUME NEW h \in hits', h.request \notin admitted'
             PROVE  Limit(h.key) <= Cardinality(Before(h)')
    BY DEF RefusedAtTheLimit, Before, Of
<1>1. IsFiniteSet(Before(h)') /\ Limit(h.key) \in Nat /\ h.key \in Keys
    BY FS_Subset, LimitsAreNumbers DEF Before, Of, IInv, ThrottleTypeOK
<1>2. hits \subseteq hits' /\ admitted \subseteq admitted'
    BY DEF ThrottleNext, Hit, Expire, Tick, Forget, throttleVars
<1>3. CASE h \in hits
  <2>1. Before(h) \subseteq Before(h)'
      BY <1>2 DEF Before, Of
  <2>2. Limit(h.key) <= Cardinality(Before(h))
      BY <1>2, <1>3 DEF RefusedAtTheLimit, Before
  <2> QED BY <1>1, <2>1, <2>2, FS_Subset, FS_CardinalityType
<1>4. CASE h \notin hits
  <2>1. PICK r \in Requests, k \in Keys : Hit(r, k)
      BY <1>4 DEF ThrottleNext, Expire, Tick, Forget, throttleVars
  <2>2. h = HitOf(r, k) /\ hits' = hits \cup {h} /\ now' = now
      BY <1>4, <2>1 DEF Hit
  <2>3. ~WithinLimit(k) /\ h.key = k /\ h.at = now
      BY <2>1, <2>2 DEF Hit, HitOf
  <2>4. Of(timers, k) \subseteq Before(h)'
      BY <1>4, <2>2, <2>3 DEF Of, Before, IInv, TimersAreInTime, ThrottleTypeOK
  <2>5. Limit(k) <= Cardinality(Of(timers, k))
    <3>1. total[k] = Cardinality(Of(timers, k)) /\ total[k] \in Nat
        BY DEF IInv, CountersAreTimers, ThrottleTypeOK
    <3> QED BY <1>1, <2>3, <3>1 DEF WithinLimit
  <2> QED BY <1>1, <2>3, <2>4, <2>5, FS_Subset, FS_CardinalityType
<1> QED BY <1>3, <1>4

-----------------------------------------------------------------------------
LEMMA NothingAdmittedYet == ThrottleInit => AtMostLimitPerWindow
<1> SUFFICES ASSUME ThrottleInit, NEW k \in Keys PROVE Cardinality(Recent(k)) <= Limit(k)
    BY DEF AtMostLimitPerWindow, Recent
<1>1. Recent(k) = {}
    BY DEF ThrottleInit, Recent, Of
<1> QED BY <1>1, FS_EmptySet, LimitsAreNumbers

(* In every window each route serves each tracker at most `limit` times    *)
(* (throttler-behind-proxy.guard.ts:16, app.module.ts:27).                 *)
THEOREM LimitHolds == ThrottleSpec => []AtMostLimitPerWindow
<1>1. ThrottleInit => AtMostLimitPerWindow
    BY NothingAdmittedYet
<1>2. IInv /\ AtMostLimitPerWindow /\ [ThrottleNext]_throttleVars => (IInv /\ AtMostLimitPerWindow)'
    BY InvariantStep, RecentStep
<1> QED BY <1>1, <1>2, InitInvariant, PTL DEF ThrottleSpec

(* Nobody is refused below the limit (throttler-behind-proxy.guard.ts:33). *)
THEOREM RefusalsAreDue == ThrottleSpec => []RefusedAtTheLimit
<1>1. ThrottleInit => RefusedAtTheLimit
    BY DEF ThrottleInit, RefusedAtTheLimit
<1>2. IInv /\ RefusedAtTheLimit /\ [ThrottleNext]_throttleVars => (IInv /\ RefusedAtTheLimit)'
    BY InvariantStep, RefusalStep
<1> QED BY <1>1, <1>2, InitInvariant, PTL DEF ThrottleSpec
=============================================================================
