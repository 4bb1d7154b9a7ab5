--------------------------- MODULE ConnectionPool ---------------------------
(***************************************************************************)
(* The database connections every request shares: the pool of the pg       *)
(* driver (first come, first served, no timeout), as the handlers use it.  *)
(* A sign-up or an upload leases one connection for its whole transaction; *)
(* a sign-up leases a second one while it holds the first, for the lookup  *)
(* of its address; a plain request leases one for each of its statements.  *)
(* An operator placed just before another with the same parameters and     *)
(* used nowhere is a deliberately wrong variant of it, used to test the    *)
(* properties.                                                             *)
(***************************************************************************)
EXTENDS Integers, Sequences, FiniteSets

CONSTANTS Signups, Uploads, Plain,  \* the requests of each kind
          PoolSize,                 \* connections of the pool (10 in pg)
          MaxStatements             \* bound on the statements of a plain request

Requests == Signups \cup Uploads \cup Plain

ASSUME DisjointRequests ==
    /\ Signups \cap Uploads = {} /\ Signups \cap Plain = {} /\ Uploads \cap Plain = {}
ASSUME RequestsAreFinite == IsFiniteSet(Requests)
ASSUME BoundsArePositive == PoolSize \in Nat \ {0} /\ MaxStatements \in Nat \ {0}

VARIABLES queue,   \* the requests waiting for a connection, in their order
          leases,  \* connections out of the pool: who holds it, and what for
          pc,      \* pc[r]: where the handler of request r is
          left     \* left[q]: statements plain request q has still to send

vars == <<queue, leases, pc, left>>

Lease   == [holder : Requests, purpose : {"own", "lookup"}]
Waiting == {"connecting", "asking"}

TypeOK ==
    /\ queue \in Seq(Requests)
    /\ leases \subseteq Lease
    /\ pc \in [Requests -> Waiting \cup {"idle", "next", "opened", "asked", "working",
                                   "failing", "done"}]
    /\ left \in [Plain -> 0 .. MaxStatements]

Init ==
    /\ queue = <<>>
    /\ leases = {}
    /\ pc = [r \in Requests |-> "idle"]
    /\ left \in [Plain -> 1 .. MaxStatements]

-----------------------------------------------------------------------------
Own(r)    == [holder |-> r, purpose |-> "own"]
Lookup(s) == [holder |-> s, purpose |-> "lookup"]

Goto(r, label) == pc' = [pc EXCEPT ![r] = label]

(* Sign-up reads through a repository, the other transactions only through *)
(* their own query runner.                                                 *)
AnyTransaction(r)     == r \in Signups \cup Uploads
ReadsOutsideItsOwn(r) == r \in Signups

-----------------------------------------------------------------------------
(* queryRunner.connect() of a transaction, or the statement of a           *)
(* repository: the caller waits for its connection in the queue.           *)
Connect(r) ==
    /\ pc[r] \in {"idle", "next"}
    /\ queue' = Append(queue, r)
    /\ Goto(r, "connecting")
    /\ UNCHANGED <<leases, left>>

(* The pool hands a free connection to the first of the queue.             *)
Grant ==
    /\ queue # <<>> /\ Cardinality(leases) < PoolSize
    /\ queue' = Tail(queue)
    /\ LET r == Head(queue) IN
          \/ /\ pc[r] = "connecting"
             /\ leases' = leases \cup {Own(r)}
             /\ Goto(r, IF ReadsOutsideItsOwn(r) THEN "opened" ELSE "working")
          \/ /\ pc[r] = "asking"
             /\ leases' = leases \cup {Lookup(r)}
             /\ Goto(r, "asked")
    /\ UNCHANGED left

(* In its transaction, a sign-up asks the pool for another connection.     *)
AskForLookup(s) ==
    /\ pc[s] = "opened"
    /\ queue' = Append(queue, s)
    /\ Goto(s, "asking")
    /\ UNCHANGED <<leases, left>>

(* The lookup gives its connection back; the address is taken, the         *)
(* statement failed, or the sign-up goes on.                               *)
LookedUp(s) ==
    /\ pc[s] = "asked"
    /\ leases' = leases \ {Lookup(s)}
    /\ Goto(s, "working") \/ Goto(s, "failing")
    /\ UNCHANGED <<queue, left>>

(* A statement of a transaction, or the write of the file, fails.          *)
StatementFails(r) ==
    /\ pc[r] = "working"
    /\ Goto(r, "failing")
    /\ UNCHANGED <<queue, leases, left>>

ReleaseOnSuccess(r) ==
    /\ pc[r] \in {"working", "failing"}
    /\ leases' = IF pc[r] = "working" THEN leases \ {Own(r)} ELSE leases
    /\ Goto(r, "done")
    /\ UNCHANGED <<queue, left>>

(* The finally block: whatever happened, the connection is released.       *)
Release(r) ==
    /\ pc[r] \in {"working", "failing"}
    /\ leases' = leases \ {Own(r)}
    /\ Goto(r, "done")
    /\ UNCHANGED <<queue, left>>

OneTooMany(q) == left[q] > 0
HasMore(q)    == left[q] > 1

(* A statement of a repository ends; the request may send another one.     *)
StatementEnds(q) ==
    /\ pc[q] = "working"
    /\ leases' = leases \ {Own(q)}
    /\ left' = [left EXCEPT ![q] = @ - 1]
    /\ Goto(q, IF HasMore(q) THEN "next" ELSE "done")
    /\ UNCHANGED queue

TransactionStep(r) == Connect(r) \/ AskForLookup(r) \/ LookedUp(r) \/ Release(r)
PlainStep(q)       == Connect(q) \/ StatementEnds(q)

Next ==
    \/ \E r \in Signups \cup Uploads : TransactionStep(r) \/ StatementFails(r)
    \/ \E q \in Plain : PlainStep(q)
    \/ Grant

Spec == Init /\ [][Next]_vars

(* Statements are answered, the event loop resumes every handler that was  *)
(* started, and the pool serves its queue.                                 *)
Fairness ==
    /\ \A r \in Signups \cup Uploads : WF_vars(pc[r] # "idle" /\ TransactionStep(r))
    /\ \A q \in Plain : WF_vars(pc[q] # "idle" /\ PlainStep(q))
    /\ WF_vars(Grant)

FairSpec == Spec /\ Fairness

-----------------------------------------------------------------------------
(* PROPERTIES                                                              *)

(* A connection out of the pool is in use by a request that has not been   *)
(* answered: rejected sign-ups and failed transactions give theirs back    *)
(* (auth.service.ts:156-160, create-video.handler.ts:64-68).               *)
NoConnectionLeaks ==
    \A l \in leases :
        pc[l.holder] \notin (IF l.purpose = "own" THEN {"idle", "next", "connecting", "done"}
                             ELSE {"idle", "connecting", "opened", "asking", "working", "failing", "done"})

(* Whenever a request waits, a connection is free or some holder of one    *)
(* can go on and release it: the pool is not full of sign-ups waiting for  *)
(* their second connection (auth.service.ts:122, :128).                    *)
NeverStalled ==
    queue # <<>> => \/ Cardinality(leases) < PoolSize
                    \/ \E l \in leases : pc[l.holder] # "asking"

(* Every request that asks the pool for a connection gets it and is        *)
(* answered (auth.service.ts:119-161, create-video.handler.ts:35-69).      *)
EveryRequestEnds == \A r \in Requests : pc[r] # "idle" ~> pc[r] = "done"

(* The guide to transactions: the finally block releases the connection of *)
(* sign-up, so none stays out of the pool                                  *)
(* (TRANSACTION_COMPLETE_GUIDE.md:587).                                    *)
SignupsReleaseTheirs == \A s \in Signups : Own(s) \in leases ~> Own(s) \notin leases
=============================================================================
