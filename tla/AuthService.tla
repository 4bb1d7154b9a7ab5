---------------------------- MODULE AuthService ----------------------------
(***************************************************************************)
(* Sign-up, sign-in and token refresh (src/src/auth), with the two tables  *)
(* they share.  Every `await` of a handler ends a step: between two steps  *)
(* of one request any other request may run.                               *)
(*                                                                         *)
(* A request is named by a constant.  The name of a sign-up doubles as the *)
(* uuid of the user it inserts, the name of a sign-up or sign-in as the    *)
(* uuid of the refresh_token row it inserts.  JWTs are deterministic: a    *)
(* refresh token is a function of the user and of the second it is signed  *)
(* in, so it is the record [sub, iat].  Access tokens are not stored and   *)
(* are left out.  An operator placed just before another with the same     *)
(* parameters and used nowhere is a deliberately wrong variant of it, used *)
(* to test the properties.                                                 *)
(***************************************************************************)
EXTENDS Integers

CONSTANTS Signups, Signins, Refreshes,  \* the requests of each kind
          Emails, Passwords,
          Nothing,           \* no token, no row: null
          TTL,               \* seconds until a refresh token expires ('30d')
          MaxTime,           \* bound on the clock
          PasswordSelected,  \* does findOneByEmail return the password column?
          Faulty,            \* may connections be lost and the process exit?
          RejectionEffects   \* what becomes of a rejection nobody handles

Requests == Signups \cup Signins \cup Refreshes

ASSUME DisjointRequests ==
    /\ Signups \cap Signins = {}
    /\ Signups \cap Refreshes = {}
    /\ Signins \cap Refreshes = {}
ASSUME NothingIsNoRequest == Nothing \notin Requests
ASSUME TimesAreNat == MaxTime \in Nat /\ TTL \in Nat
ASSUME FlagsAreBoolean == PasswordSelected \in BOOLEAN /\ Faulty \in BOOLEAN
(* An initialised Sentry reports an unhandled rejection (main.ts:97);      *)
(* without a DSN it is Node that handles it and ends the process.          *)
ASSUME RejectionHasAnEffect ==
    RejectionEffects \in (SUBSET {"reported", "exit"}) \ {{}}

VARIABLES now,     \* the clock, in seconds: what `iat` sees
          users,   \* committed rows of table users (the password column of row
                   \* u is the hash of cred[u.id].password and never changes)
          rows,    \* committed rows of table refresh_token
          pc,      \* pc[r]: where the handler of request r is
          cred,    \* cred[r]: e-mail and password of a sign-up or sign-in
          bearer,  \* bearer[r]: the token a refresh presented
          signed,  \* signed[r]: the refresh token the handler signed
          found,   \* found[r]: the id its last query returned
          save     \* save[s]: the INSERT sign-up s does not await

vars == <<now, users, rows, pc, cred, bearer, signed, found, save>>

Times    == 0 .. MaxTime
Token    == [sub : Signups, iat : Times]
UserRow  == [id : Signups, email : Emails]
TokenRow == [id : Requests, user : Signups, token : Token]
Cred     == [email : Emails, password : Passwords]

Final    == {"ok", "badRequest", "unauthorized", "error", "dropped"}
(* Where a handler waits for the database.                                 *)
AtDatabase == {"insert", "reject", "fail", "commit", "findRow", "sign", "save"}
InFlight == AtDatabase \cup {"compare", "respond"}

TypeOK ==
    /\ now \in Times
    /\ users \subseteq UserRow
    /\ rows \subseteq TokenRow
    /\ pc \in [Requests -> {"idle"} \cup InFlight \cup Final]
    /\ cred \in [Signups \cup Signins -> Cred]
    /\ bearer \in [Refreshes -> Token \cup {Nothing}]
    /\ signed \in [Requests -> Token \cup {Nothing}]
    /\ found \in [Requests -> Requests \cup {Nothing}]
    /\ save \in [Signups -> {"unsent", "pending", "inTransaction", "done", "lost"}]

Init ==
    /\ now = 0
    /\ users = {} /\ rows = {}
    /\ pc = [r \in Requests |-> "idle"]
    /\ cred \in [Signups \cup Signins -> Cred]
    /\ bearer = [r \in Refreshes |-> Nothing]
    /\ signed = [r \in Requests |-> Nothing]
    /\ found = [r \in Requests |-> Nothing]
    /\ save = [s \in Signups |-> "unsent"]

-----------------------------------------------------------------------------
UsersByEmail(email) == {u \in users : u.email = email}

AllRows(id)         == rows
RowsOfUser(id)      == {row \in rows : row.user = id}
RowsByToken(t)      == {row \in rows : row.token = t}

(* The UNIQUE constraints of the two tables, as an INSERT meets them.      *)
NoEmailConstraint(email) == TRUE
EmailFree(email)         == UsersByEmail(email) = {}
NoUserConstraint(id)     == TRUE
UserIdFree(id)           == RowsOfUser(id) = {}

NewUser(s)     == [id |-> s, email |-> cred[s].email]
NewRow(r)      == [id |-> r, user |-> signed[r].sub, token |-> signed[r]]
SignWithoutId(id) == [sub |-> Nothing, iat |-> now]
Token30d(id)   == [sub |-> id, iat |-> now]
Expired(t)     == now >= t.iat + TTL
(* save() of a loaded entity: UPDATE ... SET token = t WHERE id = id.      *)
UpdateEveryRow(id, t) == {[row EXCEPT !.token = t] : row \in rows}
UpdateRow(id, t) == {IF row.id = id THEN [row EXCEPT !.token = t] ELSE row : row \in rows}

(* The tokens clients hold: those of the requests answered with success.   *)
Issued == {signed[r] : r \in {q \in Requests : pc[q] = "ok"}}

Goto(r, label) == pc' = [pc EXCEPT ![r] = label]
(* A statement that took effect is answered, unless its connection is lost *)
(* before the answer arrives: then the handler throws.                     *)
GotoOrLose(r, label) == Goto(r, label) \/ (Faulty /\ Goto(r, "error"))

Unsaved(state) == IF state \in {"pending", "inTransaction"} THEN "lost" ELSE state
(* The process exits and is started again: every request in flight and     *)
(* every save() not yet in the database are gone.                          *)
ProcessExits ==
    /\ pc' = [r \in Requests |-> IF pc[r] \in InFlight THEN "dropped" ELSE pc[r]]
    /\ save' = [s \in Signups |-> Unsaved(save[s])]

(* The save() of s, which nobody awaits, rejects while its handler goes to *)
(* label.                                                                  *)
SaveRejects(s, label) ==
    \/ /\ "reported" \in RejectionEffects
       /\ save' = [save EXCEPT ![s] = "lost"]
       /\ Goto(s, label)
    \/ /\ "exit" \in RejectionEffects
       /\ ProcessExits

-----------------------------------------------------------------------------
(* SIGN-UP.  It looks the address up on a pooled connection of its own,    *)
(* outside the transaction the handler opened.                             *)
SignupFind(s) ==
    /\ pc[s] = "idle"
    /\ Goto(s, IF UsersByEmail(cred[s].email) # {} THEN "reject" ELSE "insert")
    /\ UNCHANGED <<now, users, rows, cred, bearer, signed, found, save>>

(* The INSERT of the user waits for an open transaction that inserted the  *)
(* same address; UNIQUE(email) then decides.  On success the handler signs *)
(* the token, calls save() on it without awaiting, and sends COMMIT.       *)
SignupInsert(s) ==
    /\ pc[s] = "insert"
    /\ \A o \in Signups \ {s} : pc[o] = "commit" => cred[o].email # cred[s].email
    /\ \/ /\ EmailFree(cred[s].email)
          /\ Goto(s, "commit")
          /\ signed' = [signed EXCEPT ![s] = Token30d(s)]
          /\ save' = [save EXCEPT ![s] = "pending"]
       \/ /\ ~EmailFree(cred[s].email)
          /\ Goto(s, "fail")
          /\ UNCHANGED <<signed, save>>
    /\ UNCHANGED <<now, users, rows, cred, bearer, found>>

(* The detached INSERT of the refresh token reaches the database: inside   *)
(* the transaction when it overtakes COMMIT, by itself when it does not,   *)
(* and then UNIQUE(user_id) may refuse it or its connection be lost: no    *)
(* handler sees that rejection.                                            *)
SignupSaveToken(s) ==
    /\ save[s] = "pending"
    /\ \/ /\ pc[s] = "commit"
          /\ save' = [save EXCEPT ![s] = "inTransaction"]
          /\ UNCHANGED <<rows, pc>>
       \/ /\ pc[s] # "commit" /\ UserIdFree(s)
          /\ save' = [save EXCEPT ![s] = "done"]
          /\ rows' = rows \cup {NewRow(s)}
          /\ UNCHANGED pc
       \/ /\ pc[s] # "commit" /\ (~UserIdFree(s) \/ Faulty)
          /\ SaveRejects(s, pc[s])
          /\ UNCHANGED rows
    /\ UNCHANGED <<now, users, cred, bearer, signed, found>>

AfterForgetting(state) == IF state = "inTransaction" THEN "done" ELSE "unsent"
AfterCommit(state)  == IF state = "inTransaction" THEN "done" ELSE state

(* COMMIT takes effect.  When its answer is lost the handler cannot roll   *)
(* back: it answers 500, and a save() still pending is rejected with the   *)
(* connection.                                                             *)
SignupCommit(s) ==
    /\ pc[s] = "commit"
    /\ users' = users \cup {NewUser(s)}
    /\ rows' = IF save[s] = "inTransaction" THEN rows \cup {NewRow(s)} ELSE rows
    /\ \/ /\ Goto(s, "respond")
          /\ save' = [save EXCEPT ![s] = AfterCommit(@)]
       \/ /\ Faulty /\ save[s] = "inTransaction"
          /\ Goto(s, "error")
          /\ save' = [save EXCEPT ![s] = "done"]
       \/ /\ Faulty /\ save[s] = "pending"
          /\ SaveRejects(s, "error")
    /\ UNCHANGED <<now, cred, bearer, signed, found>>

RollbackRejectedOnly(s) ==
    /\ pc[s] = "reject"
    /\ Goto(s, "badRequest")
    /\ UNCHANGED <<now, users, rows, cred, bearer, signed, found, save>>

(* The catch block: ROLLBACK, release, and the stored error is thrown.     *)
SignupRollback(s) ==
    /\ pc[s] \in {"reject", "fail"}
    /\ Goto(s, IF pc[s] = "reject" THEN "badRequest" ELSE "error")
    /\ UNCHANGED <<now, users, rows, cred, bearer, signed, found, save>>

-----------------------------------------------------------------------------
(* SIGN-IN.  validateUser looks the address up.                            *)
SigninFind(i) ==
    /\ pc[i] = "idle"
    /\ \/ /\ UsersByEmail(cred[i].email) = {}
          /\ Goto(i, "unauthorized")
          /\ UNCHANGED found
       \/ \E u \in UsersByEmail(cred[i].email) :
             /\ Goto(i, "compare")
             /\ found' = [found EXCEPT ![i] = u.id]
    /\ UNCHANGED <<now, users, rows, cred, bearer, signed, save>>

(* bcrypt.compare rejects when the row came without its password column,   *)
(* which is a 500; otherwise it decides, and signin signs the token.       *)
SigninCompare(i) ==
    /\ pc[i] = "compare"
    /\ \/ /\ ~PasswordSelected
          /\ Goto(i, "error")
          /\ UNCHANGED signed
       \/ /\ PasswordSelected
          /\ cred[i].password # cred[found[i]].password
          /\ Goto(i, "unauthorized")
          /\ UNCHANGED signed
       \/ /\ PasswordSelected
          /\ cred[i].password = cred[found[i]].password
          /\ Goto(i, "findRow")
          /\ signed' = [signed EXCEPT ![i] = Token30d(found[i])]
    /\ UNCHANGED <<now, users, rows, cred, bearer, found, save>>

(* createRefreshTokenUsingUser: is there a row of this user?               *)
SigninFindRow(i) ==
    /\ pc[i] = "findRow"
    /\ \/ /\ RowsOfUser(signed[i].sub) = {}
          /\ found' = [found EXCEPT ![i] = Nothing]
       \/ \E row \in RowsOfUser(signed[i].sub) : found' = [found EXCEPT ![i] = row.id]
    /\ Goto(i, "save")
    /\ UNCHANGED <<now, users, rows, cred, bearer, signed, save>>

(* save(): an UPDATE by primary key of the row that was found, else an     *)
(* INSERT, which UNIQUE(user_id) refuses when another one came first.      *)
SigninSave(i) ==
    /\ pc[i] = "save"
    /\ \/ /\ found[i] # Nothing
          /\ rows' = UpdateRow(found[i], signed[i])
          /\ GotoOrLose(i, "respond")
       \/ /\ found[i] = Nothing /\ UserIdFree(signed[i].sub)
          /\ rows' = rows \cup {NewRow(i)}
          /\ GotoOrLose(i, "respond")
       \/ /\ found[i] = Nothing /\ ~UserIdFree(signed[i].sub)
          /\ Goto(i, "error")
          /\ UNCHANGED rows
    /\ UNCHANGED <<now, users, cred, bearer, signed, found, save>>

-----------------------------------------------------------------------------
(* REFRESH.  The client presents a token some answer gave it; the guard    *)
(* and the JWT strategy refuse an expired one.                             *)
RefreshReceive(r) ==
    /\ pc[r] = "idle"
    /\ \E t \in Issued :
          /\ bearer' = [bearer EXCEPT ![r] = t]
          /\ Goto(r, IF Expired(t) THEN "unauthorized" ELSE "findRow")
    /\ UNCHANGED <<now, users, rows, cred, signed, found, save>>

RefreshFind(r) ==
    /\ pc[r] = "findRow"
    /\ \/ /\ RowsByToken(bearer[r]) = {}
          /\ Goto(r, "badRequest")
          /\ UNCHANGED found
       \/ \E row \in RowsByToken(bearer[r]) :
             /\ Goto(r, "sign")
             /\ found' = [found EXCEPT ![r] = row.id]
    /\ UNCHANGED <<now, users, rows, cred, bearer, signed, save>>

(* The handler resumes and signs for the user the bearer token names.      *)
RefreshSign(r) ==
    /\ pc[r] = "sign"
    /\ signed' = [signed EXCEPT ![r] = Token30d(bearer[r].sub)]
    /\ Goto(r, "save")
    /\ UNCHANGED <<now, users, rows, cred, bearer, found, save>>

(* save(): an UPDATE by primary key.  It does not ask whether the row      *)
(* still holds the token that was presented.                               *)
RefreshSave(r) ==
    /\ pc[r] = "save"
    /\ rows' = UpdateRow(found[r], signed[r])
    /\ GotoOrLose(r, "respond")
    /\ UNCHANGED <<now, users, cred, bearer, signed, found, save>>

-----------------------------------------------------------------------------
RespondAndSignAgain(r) ==
    /\ pc[r] = "respond"
    /\ Goto(r, "ok")
    /\ signed' = [signed EXCEPT ![r] = Token30d(@.sub)]
    /\ UNCHANGED <<now, users, rows, cred, bearer, found, save>>

RespondBeforeCommit(r) ==
    /\ pc[r] \in {"respond", "commit"}
    /\ Goto(r, "ok")
    /\ UNCHANGED <<now, users, rows, cred, bearer, signed, found, save>>

(* Release of the connection and the answer with the tokens.               *)
Respond(r) ==
    /\ pc[r] = "respond"
    /\ Goto(r, "ok")
    /\ UNCHANGED <<now, users, rows, cred, bearer, signed, found, save>>

(* A connection is lost before the statement took effect: the handler      *)
(* throws.  That includes the first statement of a sign-up (or its BEGIN)  *)
(* and the lookup of a sign-in.                                            *)
QueryFails(r) ==
    /\ Faulty
    /\ \/ pc[r] \in AtDatabase \ {"commit"}
       \/ pc[r] = "idle" /\ r \notin Refreshes
    /\ Goto(r, "error")
    /\ UNCHANGED <<now, users, rows, cred, bearer, signed, found, save>>

(* The same for COMMIT: the open transaction is gone, with a row it holds, *)
(* and a save() still pending is rejected.                                 *)
CommitFails(s) ==
    /\ Faulty
    /\ pc[s] = "commit"
    /\ \/ /\ save[s] = "inTransaction"
          /\ save' = [save EXCEPT ![s] = "lost"]
          /\ Goto(s, "error")
       \/ /\ save[s] = "pending"
          /\ SaveRejects(s, "error")
    /\ UNCHANGED <<now, users, rows, cred, bearer, signed, found>>

Crash ==
    /\ Faulty
    /\ ProcessExits
    /\ UNCHANGED <<now, users, rows, cred, bearer, signed, found>>

Tick ==
    /\ now < MaxTime
    /\ now' = now + 1
    /\ UNCHANGED <<users, rows, pc, cred, bearer, signed, found, save>>

SignupStep(s) == SignupFind(s) \/ SignupInsert(s) \/ SignupCommit(s) \/ SignupRollback(s)
SigninStep(i) == SigninFind(i) \/ SigninCompare(i) \/ SigninFindRow(i) \/ SigninSave(i)
RefreshStep(r) == RefreshReceive(r) \/ RefreshFind(r) \/ RefreshSign(r) \/ RefreshSave(r)

Next ==
    \/ \E s \in Signups : SignupStep(s) \/ SignupSaveToken(s) \/ CommitFails(s)
    \/ \E i \in Signins : SigninStep(i)
    \/ \E r \in Refreshes : RefreshStep(r)
    \/ \E r \in Requests : Respond(r) \/ QueryFails(r)
    \/ Crash
    \/ Tick

Spec == Init /\ [][Next]_vars

(* Every statement that was sent is executed and answered, and the event   *)
(* loop resumes every handler: weak fairness of each handler and of each   *)
(* detached save.  Nothing makes a client start a request, lets time pass  *)
(* or breaks a connection.                                                 *)
Started(r) == pc[r] # "idle"
Fairness ==
    /\ \A s \in Signups : WF_vars(Started(s) /\ SignupStep(s)) /\ WF_vars(SignupSaveToken(s))
    /\ \A i \in Signins : WF_vars(Started(i) /\ SigninStep(i))
    /\ \A r \in Refreshes : WF_vars(Started(r) /\ RefreshStep(r))
    /\ \A r \in Requests : WF_vars(Respond(r))

FairSpec == Spec /\ Fairness

-----------------------------------------------------------------------------
(* PROPERTIES                                                              *)

(* No two accounts share an e-mail address, although the check of signup   *)
(* runs outside its transaction and before the INSERT: two sign-ups with   *)
(* one address may both pass it (auth.service.ts:128, :137).               *)
UniqueEmail == \A u, v \in users : u.email = v.email => u = v

(* An account has one refresh_token row, whoever inserts it: the detached  *)
(* save of its sign-up or a sign-in that found no row yet                  *)
(* (auth.service.ts:147, :350-361).                                        *)
OneRowPerUser == \A a, b \in rows : a.user = b.user => a = b

(* A stored token was signed for the account that owns the row, and that   *)
(* account exists: an UPDATE by row id decided by an earlier read never    *)
(* lands on another account's row (auth.service.ts:197-206, :350-361).     *)
RowOwned == \A row \in rows : row.token.sub = row.user /\ \E u \in users : u.id = row.user

(* A client that was given tokens has an account that survives any crash:  *)
(* no request is answered with success for a user that is not committed    *)
(* (auth.service.ts:150-151).                                              *)
AnsweredUserIsDurable ==
    \A r \in Requests : pc[r] = "ok" => \E u \in users : u.id = signed[r].sub

(* The stored token of every account is one that some client has or is     *)
(* about to get, unless a fault took the answer of the request that signed *)
(* it: no interleaving of sign-up, sign-in and refresh leaves an account   *)
(* whose session nobody can refresh (auth.service.ts:181-184, :208).       *)
StoredTokenIsHeld ==
    \A row \in rows :
        \E r \in Requests : signed[r] = row.token /\ pc[r] \in {"respond", "ok", "error", "dropped"}

(* A committed account has its refresh_token row, or the detached INSERT   *)
(* that will give it one is still on its way: only a lost connection or    *)
(* the end of the process leaves it without (auth.service.ts:147, :150).   *)
SessionUnderWay ==
    \A u \in users : \/ \E row \in rows : row.user = u.id
                     \/ save[u.id] = "pending"
                     \/ (Faulty \/ "exit" \in RejectionEffects) /\ save[u.id] = "lost"

(* Every account ends up with a refresh_token row, although signup does    *)
(* not wait for it and the detached INSERT can be refused, unless a fault  *)
(* took the detached INSERT (auth.service.ts:147).                         *)
AccountGetsSession ==
    \A s \in Signups :
        (\E u \in users : u.id = s) ~> ((\E row \in rows : row.user = s) \/ save[s] = "lost")

(* Every request that was started is answered or dropped by a crash: a     *)
(* sign-up waiting for another one's transaction is always released        *)
(* (auth.service.ts:137, :150-158).                                        *)
EveryRequestEnds == \A r \in Requests : Started(r) ~> pc[r] \in Final

(* The two tables implement Accounts: the rows seen by any transaction are *)
(* at every moment those of accounts registered and sessions bound one     *)
(* after the other (auth.service.ts:126-151, :171-209).                    *)
TokenIn(table, id) == IF \E row \in table : row.user = id
                      THEN (CHOOSE row \in table : row.user = id).token
                      ELSE Nothing
SessionOf(id)      == TokenIn(rows, id)

Promise == INSTANCE Accounts WITH Ids <- Signups, None <- Nothing, accounts <- users,
                                  session <- [id \in Signups |-> SessionOf(id)]
ImplementsAccounts == Promise!Spec

(* What comments of the source say of sign-up and sign-in, and the code    *)
(* does not do.                                                            *)

(* Sign-up is atomic: the user and the refresh token are one unit, so a    *)
(* committed user has a refresh_token row (auth.service.ts:73-84).         *)
SignupIsAtomic == \A u \in users : \E row \in rows : row.user = u.id

(* Sign-in: without faults, a client whose e-mail and password are those   *)
(* of an account is not answered with an error (auth.service.ts:163-170).  *)
SigninSucceeds ==
    \A i \in Signins : \A u \in UsersByEmail(cred[i].email) :
        cred[u.id].password = cred[i].password => pc[i] # "error"
=============================================================================
