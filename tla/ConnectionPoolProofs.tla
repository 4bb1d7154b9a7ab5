------------------------ MODULE ConnectionPoolProofs ------------------------
(***************************************************************************)
(* Theorems about ConnectionPool, for any number of requests and any pool. *)
(***************************************************************************)
EXTENDS ConnectionPool, FiniteSetTheorems, TLAPS

(* Exactly the requests in the queue wait, and none is there twice.        *)
QueueHoldsWaiting ==
    /\ \A i \in 1 .. Len(queue) : pc[queue[i]] \in Waiting
    /\ \A i, j \in 1 .. Len(queue) : queue[i] = queue[j] => i = j

(* A connection is leased as its holder's place in its handler says.       *)
LeasesFit ==
    \A l \in leases :
        /\ l.purpose = "own" => pc[l.holder] \in {"opened", "asking", "asked", "working", "failing"}
        /\ l.purpose = "lookup" => pc[l.holder] = "asked"

(* Only a sign-up asks for a second connection.                            *)
OnlySignupsAsk ==
    \A r \in Requests : pc[r] \in {"opened", "asking", "asked"} => r \in Signups

(* A plain request that is not done has a statement left.                  *)
StatementsLeft == \A q \in Plain : pc[q] # "done" => left[q] > 0

IInv == TypeOK /\ QueueHoldsWaiting /\ LeasesFit /\ OnlySignupsAsk /\ StatementsLeft

USE DisjointRequests DEF Requests

(* The initial states satisfy the invariant.                               *)
LEMMA Start == Init => IInv
BY BoundsArePositive DEF Init, IInv, TypeOK, QueueHoldsWaiting, LeasesFit, OnlySignupsAsk,
                        StatementsLeft

(* A request that starts to wait at the end of the queue keeps it proper.  *)
LEMMA Enqueued ==
  ASSUME TypeOK, QueueHoldsWaiting, NEW r \in Requests, NEW label \in Waiting,
         pc[r] \notin Waiting, queue' = Append(queue, r), Goto(r, label)
  PROVE  queue' \in Seq(Requests) /\ QueueHoldsWaiting'
BY DEF TypeOK, QueueHoldsWaiting, Goto, Waiting

(* A request outside the queue that does not begin to wait leaves it so.   *)
LEMMA QueueKept ==
  ASSUME TypeOK, QueueHoldsWaiting, NEW r \in Requests, NEW label,
         pc[r] \notin Waiting, queue' = queue, Goto(r, label)
  PROVE  QueueHoldsWaiting'
BY DEF TypeOK, QueueHoldsWaiting, Goto, Waiting

(* The first of the queue leaves it when it has its connection.            *)
LEMMA Dequeued ==
  ASSUME TypeOK, QueueHoldsWaiting, queue # <<>>, queue' = Tail(queue),
         NEW label, Goto(Head(queue), label)
  PROVE  queue' \in Seq(Requests) /\ QueueHoldsWaiting'
<1>1. Head(queue) \in Requests /\ Head(queue) = queue[1] /\ Len(queue) >= 1
  BY DEF TypeOK
<1>2. /\ queue' \in Seq(Requests)
      /\ Len(queue') = Len(queue) - 1
      /\ \A i \in 1 .. Len(queue') : queue'[i] = queue[i + 1] /\ i + 1 \in 1 .. Len(queue)
  BY DEF TypeOK
<1>3. \A i \in 1 .. Len(queue') : queue'[i] # Head(queue) /\ queue'[i] \in Requests
  BY <1>1, <1>2 DEF QueueHoldsWaiting, TypeOK
<1>. QED
  BY <1>1, <1>2, <1>3 DEF QueueHoldsWaiting, Goto, TypeOK, Waiting

(* Every step preserves the invariant: one step per action.                *)
LEMMA Step ==
  ASSUME IInv, [Next]_vars
  PROVE  IInv'
<1> USE DEF IInv, StatementsLeft
<1>1. ASSUME NEW r \in Requests, Connect(r) PROVE IInv'
  <2>1. queue' \in Seq(Requests) /\ QueueHoldsWaiting'
    BY <1>1, Enqueued DEF Connect, Waiting
  <2>. QED
    BY <1>1, <2>1 DEF Connect, Goto, TypeOK, LeasesFit, OnlySignupsAsk, Waiting, Lease
<1>2. CASE Grant
  <2> DEFINE r == Head(queue)
  <2>1. r \in Requests
    BY <1>2 DEF Grant, TypeOK
  <2>2. PICK label \in {"opened", "working", "asked"} : Goto(r, label)
    BY <1>2 DEF Grant
  <2>3. queue' \in Seq(Requests) /\ QueueHoldsWaiting'
    BY <1>2, <2>2, Dequeued DEF Grant
  <2>4. TypeOK'
    BY <1>2, <2>1, <2>2, <2>3 DEF Grant, Goto, TypeOK, Lease, Own, Lookup, Waiting
  <2>5. LeasesFit'
    BY <1>2, <2>1 DEF Grant, Goto, TypeOK, LeasesFit, Lease, Own, Lookup, Waiting
  <2>6. OnlySignupsAsk'
    BY <1>2, <2>1 DEF Grant, Goto, TypeOK, OnlySignupsAsk, ReadsOutsideItsOwn, Waiting
  <2>7. StatementsLeft'
    BY <1>2, <2>1, <2>2 DEF Grant, Goto, TypeOK
  <2>. QED BY <2>3, <2>4, <2>5, <2>6, <2>7
<1>3. ASSUME NEW s \in Requests, AskForLookup(s) PROVE IInv'
  <2>1. queue' \in Seq(Requests) /\ QueueHoldsWaiting'
    BY <1>3, Enqueued DEF AskForLookup, Waiting
  <2>. QED
    BY <1>3, <2>1 DEF AskForLookup, Goto, TypeOK, LeasesFit, OnlySignupsAsk, Waiting, Lease
<1>4. ASSUME NEW s \in Requests, LookedUp(s) PROVE IInv'
  <2>1. QueueHoldsWaiting'
    BY <1>4, QueueKept DEF LookedUp, Waiting
  <2>2. \A l \in leases' : l.holder = s => l.purpose = "own"
    BY <1>4 DEF LookedUp, Lookup, TypeOK, Lease
  <2>. QED
    BY <1>4, <2>1, <2>2 DEF LookedUp, Goto, TypeOK, LeasesFit, OnlySignupsAsk, Waiting, Lease
<1>5. ASSUME NEW r \in Requests, StatementFails(r) PROVE IInv'
  <2>1. QueueHoldsWaiting'
    BY <1>5, QueueKept DEF StatementFails, Waiting
  <2>. QED
    BY <1>5, <2>1 DEF StatementFails, Goto, TypeOK, LeasesFit, OnlySignupsAsk, Waiting, Lease
<1>6. ASSUME NEW r \in Requests, Release(r) PROVE IInv'
  <2>1. QueueHoldsWaiting'
    BY <1>6, QueueKept DEF Release, Waiting
  <2>2. \A l \in leases' : l.holder # r
    BY <1>6 DEF Release, Own, TypeOK, Lease, LeasesFit
  <2>. QED
    BY <1>6, <2>1, <2>2 DEF Release, Goto, TypeOK, LeasesFit, OnlySignupsAsk, Waiting, Lease
<1>7. ASSUME NEW q \in Plain, StatementEnds(q) PROVE IInv'
  <2>1. QueueHoldsWaiting'
    BY <1>7, QueueKept DEF StatementEnds, Waiting
  <2>2. \A l \in leases' : l.holder # q
    BY <1>7 DEF StatementEnds, Own, TypeOK, Lease, LeasesFit
  <2>3. left[q] \in 1 .. MaxStatements /\ left' = [left EXCEPT ![q] = @ - 1]
    BY <1>7 DEF StatementEnds, TypeOK
  <2>4. left' \in [Plain -> 0 .. MaxStatements]
    BY <2>3, BoundsArePositive DEF TypeOK
  <2>5. TypeOK'
    BY <1>7, <2>4 DEF StatementEnds, Goto, TypeOK, Waiting
  <2>6. LeasesFit' /\ OnlySignupsAsk'
    BY <1>7, <2>2 DEF StatementEnds, Goto, TypeOK, LeasesFit, OnlySignupsAsk, Lease
  <2>7. StatementsLeft'
    BY <1>7, <2>3 DEF StatementEnds, HasMore, Goto, TypeOK
  <2>. QED BY <2>1, <2>5, <2>6, <2>7
<1>8. CASE UNCHANGED vars
  BY <1>8 DEF vars, TypeOK, QueueHoldsWaiting, LeasesFit, OnlySignupsAsk, StatementsLeft
<1>. QED
  BY <1>1, <1>2, <1>3, <1>4, <1>5, <1>6, <1>7, <1>8 DEF Next, TransactionStep, PlainStep

(* The inductive invariant, from which the theorems below follow.          *)
THEOREM Invariance == Spec => []IInv
<1>1. IInv /\ [Next]_vars => IInv'
  BY Step
<1>. QED BY Start, <1>1, PTL DEF Spec

(* On every path through the handlers the connection goes back to the pool *)
(* before the answer (auth.service.ts:156-160,                             *)
(* create-video.handler.ts:64-68).                                         *)
THEOREM NothingLeaks == Spec => []NoConnectionLeaks
<1>1. IInv => NoConnectionLeaks
  BY DEF IInv, TypeOK, Lease, LeasesFit, NoConnectionLeaks
<1>. QED BY Invariance, <1>1, PTL

(* The leases stay connections of known requests, and the queue holds only *)
(* requests (auth.service.ts:122, :128).                                   *)
THEOREM PoolTypes == Spec => []TypeOK
<1>1. IInv => TypeOK
  BY DEF IInv
<1>. QED BY Invariance, <1>1, PTL

-----------------------------------------------------------------------------
(* There are no more first connections of sign-ups than sign-ups.          *)
LEMMA OwnLeasesCounted ==
  LET owned == {Own(s) : s \in Signups}
  IN  IsFiniteSet(owned) /\ Cardinality(owned) <= Cardinality(Signups)
<1> DEFINE owned == {Own(s) : s \in Signups}
<1> DEFINE f == [s \in Signups |-> Own(s)]
<1>1. IsFiniteSet(Signups)
  BY RequestsAreFinite, FS_Subset
<1>2. f \in Surjection(Signups, owned)
  BY DEF Surjection
<1>. QED BY <1>1, <1>2, FS_Surjection

(* With more connections than sign-ups in flight at a time, the pool can   *)
(* never be filled by sign-ups that wait for their second connection: when *)
(* a request waits, a connection is free or will be released               *)
(* (auth.service.ts:122, :128, :158).                                      *)
THEOREM RoomForLookups == Cardinality(Signups) < PoolSize /\ Spec => []NeverStalled
<1> SUFFICES ASSUME Cardinality(Signups) < PoolSize PROVE Spec => []NeverStalled
  OBVIOUS
<1>1. IInv => NeverStalled
  <2> SUFFICES ASSUME IInv, \A l \in leases : pc[l.holder] = "asking"
               PROVE  Cardinality(leases) < PoolSize
    BY DEF NeverStalled
  <2> DEFINE owned == {Own(s) : s \in Signups}
  <2>1. leases \subseteq owned
    BY DEF IInv, TypeOK, LeasesFit, OnlySignupsAsk, Lease, Own
  <2>2. IsFiniteSet(owned) /\ Cardinality(owned) <= Cardinality(Signups)
    BY OwnLeasesCounted
  <2>3. IsFiniteSet(leases) /\ Cardinality(leases) <= Cardinality(owned)
    BY <2>1, <2>2, FS_Subset
  <2>4. /\ Cardinality(leases) \in Nat /\ Cardinality(owned) \in Nat
        /\ Cardinality(Signups) \in Nat
    BY <2>2, <2>3, RequestsAreFinite, FS_Subset, FS_CardinalityType
  <2>. QED BY <2>2, <2>3, <2>4, BoundsArePositive
<1>. QED BY Invariance, <1>1, PTL

-----------------------------------------------------------------------------
(* Whoever waits for a connection stands in the queue.                     *)
WaitersAreQueued ==
    \A r \in Requests : pc[r] \in Waiting => \E i \in 1 .. Len(queue) : queue[i] = r

(* No waiter is forgotten: only the first of the queue leaves it, with its *)
(* connection.                                                             *)
LEMMA WaitersStep ==
  ASSUME IInv, WaitersAreQueued, [Next]_vars
  PROVE  WaitersAreQueued'
<1> USE DEF IInv, TypeOK, Goto, Waiting
<1>1. ASSUME NEW r \in Requests, NEW label, queue' = Append(queue, r), pc' = [pc EXCEPT ![r] = label]
      PROVE  WaitersAreQueued'
  <2>1. /\ Len(queue') = Len(queue) + 1 /\ queue'[Len(queue) + 1] = r
        /\ \A i \in 1 .. Len(queue) : queue'[i] = queue[i]
    BY <1>1
  <2>2. Len(queue) \in Nat
    OBVIOUS
  <2>. QED BY <1>1, <2>1, <2>2 DEF WaitersAreQueued
<1>2. ASSUME NEW r \in Requests, NEW label, label \notin Waiting, queue' = queue,
             pc' = [pc EXCEPT ![r] = label]
      PROVE  WaitersAreQueued'
  BY <1>2 DEF WaitersAreQueued
<1>3. CASE Grant
  <2>1. /\ Head(queue) = queue[1] /\ Len(queue) \in Nat /\ queue # <<>>
        /\ Len(queue') = Len(queue) - 1
        /\ \A i \in 1 .. Len(queue') : queue'[i] = queue[i + 1]
    BY <1>3 DEF Grant
  <2>2. PICK label \in {"opened", "working", "asked"} : pc' = [pc EXCEPT ![Head(queue)] = label]
    BY <1>3 DEF Grant
  <2>3. ASSUME NEW s \in Requests, pc'[s] \in Waiting
        PROVE  \E i \in 1 .. Len(queue') : queue'[i] = s
    <3>1. pc[s] \in Waiting /\ s # queue[1]
      BY <2>1, <2>2, <2>3
    <3>2. PICK j \in 1 .. Len(queue) : queue[j] = s
      BY <3>1 DEF WaitersAreQueued
    <3>3. j - 1 \in 1 .. Len(queue') /\ queue'[j - 1] = queue[j]
      BY <2>1, <3>1, <3>2
    <3>. QED BY <3>2, <3>3
  <2>. QED BY <2>3 DEF WaitersAreQueued
<1>4. ASSUME NEW r \in Requests, TransactionStep(r) \/ StatementFails(r) PROVE WaitersAreQueued'
  BY <1>1, <1>2, <1>4 DEF TransactionStep, Connect, AskForLookup, LookedUp, Release, StatementFails
<1>5. ASSUME NEW q \in Plain, PlainStep(q) PROVE WaitersAreQueued'
  BY <1>1, <1>2, <1>5 DEF PlainStep, Connect, StatementEnds
<1>6. CASE UNCHANGED vars
  BY <1>6 DEF vars, WaitersAreQueued
<1>. QED BY <1>3, <1>4, <1>5, <1>6 DEF Next

(* While a request is unanswered, one of them is at work on its own, or    *)
(* the first of the queue can have its connection.                         *)
SomebodyCanGoOn ==
    (\E r \in Requests : pc[r] \notin {"idle", "done"}) =>
        \/ \E r \in Requests : pc[r] \in {"next", "opened", "asked", "working", "failing"}
        \/ queue # <<>> /\ Cardinality(leases) < PoolSize

(* With more connections than sign-ups at a time the requests never all    *)
(* wait for each other (auth.service.ts:122, :128).                        *)
THEOREM NoDeadlock == Cardinality(Signups) < PoolSize /\ Spec => []SomebodyCanGoOn
<1>1. Init => WaitersAreQueued
  BY DEF Init, WaitersAreQueued, Waiting
<1>2. IInv /\ WaitersAreQueued /\ [Next]_vars => WaitersAreQueued'
  BY WaitersStep
<1>3. IInv /\ WaitersAreQueued /\ NeverStalled => SomebodyCanGoOn
  <2> SUFFICES ASSUME IInv, WaitersAreQueued, NeverStalled,
                      NEW r \in Requests, pc[r] \in Waiting,
                      ~(queue # <<>> /\ Cardinality(leases) < PoolSize)
               PROVE  \E s \in Requests : pc[s] \in {"next", "opened", "asked", "working", "failing"}
    BY DEF SomebodyCanGoOn, IInv, TypeOK, Waiting
  <2>1. queue # <<>>
    BY DEF WaitersAreQueued
  <2>2. PICK l \in leases : pc[l.holder] # "asking"
    BY <2>1 DEF NeverStalled
  <2>3. l.holder \in Requests /\ pc[l.holder] \in {"opened", "asked", "working", "failing"}
    BY <2>2 DEF IInv, TypeOK, Lease, LeasesFit
  <2>. QED BY <2>3
<1>. QED BY Invariance, RoomForLookups, <1>1, <1>2, <1>3, PTL DEF Spec

-----------------------------------------------------------------------------
(* The pool is out of connections, those it lent are L, and all their      *)
(* holders are sign-ups that wait for a second one.                        *)
StalledWith(L) ==
    /\ leases = L /\ ~(Cardinality(L) < PoolSize)
    /\ \A l \in L : pc[l.holder] = "asking"

(* A stall never ends, whatever the size of the pool and whoever else      *)
(* comes: no holder releases its connection, so none of them is answered   *)
(* (auth.service.ts:122, :128).                                            *)
THEOREM StallsAreForGood ==
  ASSUME NEW L
  PROVE  Spec => [](StalledWith(L) => []StalledWith(L))
<1>1. IInv /\ StalledWith(L) /\ [Next]_vars => StalledWith(L)'
  <2> SUFFICES ASSUME IInv, StalledWith(L), [Next]_vars PROVE StalledWith(L)'
    OBVIOUS
  <2> USE DEF StalledWith, IInv, TypeOK, Lease, Goto
  <2>1. ASSUME NEW r \in Requests, pc[r] # "asking", leases' = leases,
               NEW label, pc' = [pc EXCEPT ![r] = label]
        PROVE  StalledWith(L)'
    BY <2>1
  <2>2. ASSUME NEW r \in Requests, pc[r] # "asking", NEW x, x \in leases => x.holder = r,
               leases' = leases \ {x}, NEW label, pc' = [pc EXCEPT ![r] = label]
        PROVE  StalledWith(L)'
    <3>1. x \notin leases
      BY <2>2
    <3>2. leases' = leases
      BY <2>2, <3>1
    <3>. QED BY <2>1, <2>2, <3>2
  <2>3. ASSUME NEW r \in Requests, Connect(r) \/ AskForLookup(r) \/ StatementFails(r)
        PROVE  StalledWith(L)'
    BY <2>1, <2>3 DEF Connect, AskForLookup, StatementFails
  <2>4. ASSUME NEW r \in Requests, LookedUp(r) \/ Release(r) PROVE StalledWith(L)'
    BY <2>2, <2>4 DEF LookedUp, Release, Lookup, Own
  <2>5. ASSUME NEW q \in Plain, StatementEnds(q) PROVE StalledWith(L)'
    BY <2>2, <2>5 DEF StatementEnds, Own
  <2>6. ~Grant
    BY DEF Grant
  <2>7. CASE UNCHANGED vars
    BY <2>7 DEF vars
  <2>. QED BY <2>3, <2>4, <2>5, <2>6, <2>7 DEF Next, TransactionStep, PlainStep
<1>. QED BY Invariance, <1>1, PTL DEF Spec
=============================================================================
