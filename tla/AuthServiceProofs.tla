------------------------- MODULE AuthServiceProofs -------------------------
(***************************************************************************)
(* Theorems about AuthService, for any sets of requests, e-mails and       *)
(* passwords, with and without faults.                                     *)
(***************************************************************************)
EXTENDS AuthService, TLAPS

Registered(id) == \E u \in users : u.id = id

(* A request answers, or is about to, with a token of a registered user.   *)
AnswersOwned ==
    \A r \in Requests : pc[r] \in {"respond", "ok"} =>
        signed[r] \in Token /\ Registered(signed[r].sub)

(* A committed user is the one its sign-up inserted, and that sign-up is   *)
(* past its COMMIT.                                                        *)
UsersCommitted ==
    \A u \in users : /\ u.email = cred[u.id].email
                     /\ pc[u.id] \in {"respond", "ok", "error", "dropped"}

(* An open transaction with an inserted user holds its e-mail alone.       *)
OpenTransactions ==
    \A s \in Signups : pc[s] = "commit" =>
        /\ \A u \in users : u.email # cred[s].email
        /\ \A o \in Signups \ {s} : pc[o] = "commit" => cred[o].email # cred[s].email

(* A detached save carries the token of its own user, who is in the open   *)
(* transaction or committed.                                               *)
SavesOwned ==
    \A s \in Signups :
        /\ pc[s] \in {"idle", "insert"} => save[s] = "unsent"
        /\ save[s] \in {"pending", "inTransaction"} =>
              signed[s] \in Token /\ signed[s].sub = s
        /\ save[s] = "pending" => pc[s] = "commit" \/ Registered(s)
        /\ save[s] = "inTransaction" => pc[s] = "commit"
        /\ pc[s] = "commit" => save[s] \in {"pending", "inTransaction"}

(* Row ids are primary keys, and only the INSERT of the request they name  *)
(* creates them.                                                           *)
RowIds ==
    /\ \A a, b \in rows : a.id = b.id => a = b
    /\ \A row \in rows :
          /\ row.id \in Signups => save[row.id] = "done"
          /\ row.id \in Signins => pc[row.id] \in {"respond", "ok", "error", "dropped"}
          /\ row.id \notin Refreshes

(* A sign-in past the password check acts for a registered user, and the   *)
(* row it will update is that user's.                                      *)
SigninsOwned ==
    \A i \in Signins :
        /\ pc[i] = "compare" => found[i] \in Signups /\ Registered(found[i])
        /\ pc[i] \in {"findRow", "save"} => signed[i] \in Token /\ Registered(signed[i].sub)
        /\ pc[i] = "save" /\ found[i] # Nothing =>
              \E row \in rows : row.id = found[i] /\ row.user = signed[i].sub

(* The same for a refresh: it acts for the user its bearer token names.    *)
RefreshesOwned ==
    \A r \in Refreshes :
        /\ pc[r] \in {"findRow", "sign", "save"} => bearer[r] \in Token
        /\ pc[r] \in {"sign", "save"} =>
              \E row \in rows : row.id = found[r] /\ row.user = bearer[r].sub
        /\ pc[r] = "save" => signed[r] \in Token /\ signed[r].sub = bearer[r].sub

IInv == /\ TypeOK
        /\ UniqueEmail /\ OneRowPerUser /\ RowOwned
        /\ AnswersOwned /\ UsersCommitted /\ OpenTransactions
        /\ SavesOwned /\ RowIds /\ SigninsOwned /\ RefreshesOwned

USE DisjointRequests, NothingIsNoRequest, TimesAreNat DEF Requests

(* An UPDATE by primary key keeps ids and owners and changes one token.    *)
LEMMA UpdateRowFacts ==
    ASSUME NEW id, NEW t \in Token, rows \subseteq TokenRow
    PROVE  /\ UpdateRow(id, t) \subseteq TokenRow
           /\ \A x \in UpdateRow(id, t) : \E y \in rows :
                 /\ x.id = y.id /\ x.user = y.user
                 /\ x.token = IF y.id = id THEN t ELSE y.token
                 /\ x = [id |-> y.id, user |-> y.user, token |-> x.token]
           /\ \A y \in rows : \E x \in UpdateRow(id, t) : x.id = y.id /\ x.user = y.user
<1> DEFINE New(y) == IF y.id = id THEN [y EXCEPT !.token = t] ELSE y
<1>1. ASSUME NEW y \in rows
      PROVE  /\ New(y) \in TokenRow
             /\ New(y).id = y.id /\ New(y).user = y.user
             /\ New(y).token = IF y.id = id THEN t ELSE y.token
             /\ New(y) = [id |-> y.id, user |-> y.user, token |-> New(y).token]
  <2>1. y \in TokenRow
    OBVIOUS
  <2>. QED BY <2>1 DEF TokenRow
<1>2. UpdateRow(id, t) = {New(y) : y \in rows}
  BY DEF UpdateRow
<1> HIDE DEF New
<1>. QED BY <1>1, <1>2

(* The process may end at any moment.                                      *)
LEMMA ExitKeepsIt ==
  ASSUME IInv, ProcessExits, UNCHANGED <<now, users, rows, cred, bearer, signed, found>>
  PROVE  IInv'
<1> USE DEF IInv, TypeOK, UniqueEmail, OneRowPerUser, RowOwned, AnswersOwned,
            UsersCommitted, OpenTransactions, SavesOwned, RowIds, SigninsOwned,
            RefreshesOwned, Registered, InFlight, AtDatabase, Final, Times
<1>1. TypeOK'
  BY SMTT(30) DEF ProcessExits, Unsaved, UserRow
<1>2. (UniqueEmail /\ OneRowPerUser /\ RowOwned /\ RowIds)'
  BY SMTT(30) DEF ProcessExits, Unsaved, UserRow
<1>3. (AnswersOwned /\ UsersCommitted /\ OpenTransactions /\ SavesOwned)'
  BY SMTT(30) DEF ProcessExits, Unsaved, UserRow
<1>4. (SigninsOwned /\ RefreshesOwned)'
  BY SMTT(30) DEF ProcessExits, Unsaved, UserRow
<1>. QED BY <1>1, <1>2, <1>3, <1>4

(* Every step preserves the invariant: one step per action, and where an   *)
(* action disturbs many parts one leaf for the types, one for the tables,  *)
(* one for sign-ups and answers, one for sign-ins and refreshes.           *)
LEMMA Step ==
  ASSUME IInv, [Next]_vars
  PROVE  IInv'
<1> USE DEF IInv, TypeOK, UniqueEmail, OneRowPerUser, RowOwned, AnswersOwned,
            UsersCommitted, OpenTransactions, SavesOwned, RowIds, SigninsOwned,
            RefreshesOwned, Registered, Goto, GotoOrLose, InFlight, AtDatabase,
            Final, Times
<1>1. ASSUME NEW s \in Signups, SignupFind(s) PROVE IInv'
  BY <1>1, SMTT(60) DEF SignupFind
<1>2. ASSUME NEW s \in Signups, SignupInsert(s) PROVE IInv'
  <2>1. TypeOK'
    BY <1>2, SMTT(30) DEF SignupInsert, EmailFree, UsersByEmail, Token30d, Token, UserRow
  <2>2. (UniqueEmail /\ OneRowPerUser /\ RowOwned /\ RowIds)'
    BY <1>2, SMTT(30) DEF SignupInsert, EmailFree, UsersByEmail, Token30d, Token, UserRow
  <2>3. (AnswersOwned /\ UsersCommitted /\ OpenTransactions /\ SavesOwned)'
    BY <1>2, SMTT(30) DEF SignupInsert, EmailFree, UsersByEmail, Token30d, Token, UserRow
  <2>4. (SigninsOwned /\ RefreshesOwned)'
    BY <1>2, SMTT(30) DEF SignupInsert, EmailFree, UsersByEmail, Token30d, Token, UserRow
  <2>. QED BY <2>1, <2>2, <2>3, <2>4
<1>3. ASSUME NEW s \in Signups, SignupCommit(s) PROVE IInv'
  <2>1. /\ NewUser(s) \in UserRow
        /\ NewUser(s).id = s /\ NewUser(s).email = cred[s].email
    BY <1>3 DEF SignupCommit, NewUser, UserRow, Cred
  <2>2. /\ NewRow(s) \in TokenRow
        /\ NewRow(s).id = s /\ NewRow(s).user = s /\ NewRow(s).token = signed[s]
    BY <1>3 DEF SignupCommit, NewRow, TokenRow, Token
  <2>3. \A row \in rows : row.user # s /\ row.id # s
    BY <1>3 DEF SignupCommit, UserRow, TokenRow
  <2>4. CASE /\ Goto(s, "respond") /\ save' = [save EXCEPT ![s] = AfterCommit(@)]
    <3>1. TypeOK'
      BY <1>3, <2>1, <2>2, <2>3, <2>4, SMTT(30) DEF SignupCommit, AfterCommit, UserRow
    <3>2. (UniqueEmail /\ OneRowPerUser /\ RowOwned /\ RowIds)'
      BY <1>3, <2>1, <2>2, <2>3, <2>4, SMTT(30) DEF SignupCommit, AfterCommit, UserRow, TokenRow
    <3>3. (AnswersOwned /\ UsersCommitted /\ OpenTransactions /\ SavesOwned)'
      BY <1>3, <2>1, <2>2, <2>3, <2>4, SMTT(30) DEF SignupCommit, AfterCommit, UserRow
    <3>4. (SigninsOwned /\ RefreshesOwned)'
      BY <1>3, <2>1, <2>2, <2>3, <2>4, SMTT(30) DEF SignupCommit, AfterCommit, UserRow
    <3>. QED BY <3>1, <3>2, <3>3, <3>4
  <2>5. CASE /\ Goto(s, "error")
             /\ save' = [save EXCEPT ![s] = IF @ = "inTransaction" THEN "done" ELSE "lost"]
    <3>1. TypeOK'
      BY <1>3, <2>1, <2>2, <2>3, <2>5, SMTT(30) DEF SignupCommit, UserRow
    <3>2. (UniqueEmail /\ OneRowPerUser /\ RowOwned /\ RowIds)'
      BY <1>3, <2>1, <2>2, <2>3, <2>5, SMTT(30) DEF SignupCommit, UserRow, TokenRow
    <3>3. (AnswersOwned /\ UsersCommitted /\ OpenTransactions /\ SavesOwned)'
      BY <1>3, <2>1, <2>2, <2>3, <2>5, SMTT(30) DEF SignupCommit, UserRow
    <3>4. (SigninsOwned /\ RefreshesOwned)'
      BY <1>3, <2>1, <2>2, <2>3, <2>5, SMTT(30) DEF SignupCommit, UserRow
    <3>. QED BY <3>1, <3>2, <3>3, <3>4
  <2>6. CASE ProcessExits /\ save[s] = "pending"
    <3>1. TypeOK'
      BY <1>3, <2>1, <2>6, SMTT(30) DEF SignupCommit, ProcessExits, Unsaved, UserRow
    <3>2. (UniqueEmail /\ OneRowPerUser /\ RowOwned /\ RowIds)'
      BY <1>3, <2>1, <2>6, SMTT(30) DEF SignupCommit, ProcessExits, Unsaved, UserRow
    <3>3. (AnswersOwned /\ UsersCommitted /\ OpenTransactions /\ SavesOwned)'
      BY <1>3, <2>1, <2>6, SMTT(30) DEF SignupCommit, ProcessExits, Unsaved, UserRow
    <3>4. (SigninsOwned /\ RefreshesOwned)'
      BY <1>3, <2>1, <2>6, SMTT(30) DEF SignupCommit, ProcessExits, Unsaved, UserRow
    <3>. QED BY <3>1, <3>2, <3>3, <3>4
  <2>. QED BY <1>3, <2>4, <2>5, <2>6 DEF SignupCommit, SaveRejects
<1>4. ASSUME NEW s \in Signups, SignupRollback(s) PROVE IInv'
  BY <1>4, SMTT(60) DEF SignupRollback
<1>5. ASSUME NEW s \in Signups, SignupSaveToken(s) PROVE IInv'
  <2>1. CASE ProcessExits /\ UNCHANGED rows
    BY <1>5, <2>1, ExitKeepsIt DEF SignupSaveToken
  <2>2. CASE ~(ProcessExits /\ UNCHANGED rows)
    BY <1>5, <2>2, SMTT(60)
       DEF SignupSaveToken, SaveRejects, NewRow, UserIdFree, RowsOfUser, TokenRow
  <2>. QED BY <2>1, <2>2
<1>6. ASSUME NEW i \in Signins, SigninFind(i) PROVE IInv'
  BY <1>6, SMTT(60) DEF SigninFind, UsersByEmail, UserRow
<1>7. ASSUME NEW i \in Signins, SigninCompare(i) PROVE IInv'
  <2>1. TypeOK'
    BY <1>7, SMTT(30) DEF SigninCompare, Token30d, Token, UserRow
  <2>2. (UniqueEmail /\ OneRowPerUser /\ RowOwned /\ RowIds)'
    BY <1>7, SMTT(30) DEF SigninCompare, Token30d, Token, UserRow
  <2>3. (AnswersOwned /\ UsersCommitted /\ OpenTransactions /\ SavesOwned)'
    BY <1>7, SMTT(30) DEF SigninCompare, Token30d, Token, UserRow
  <2>4. (SigninsOwned /\ RefreshesOwned)'
    BY <1>7, SMTT(30) DEF SigninCompare, Token30d, Token, UserRow
  <2>. QED BY <2>1, <2>2, <2>3, <2>4
<1>8. ASSUME NEW i \in Signins, SigninFindRow(i) PROVE IInv'
  BY <1>8, SMTT(60) DEF SigninFindRow, RowsOfUser, TokenRow
<1>9. ASSUME NEW i \in Signins, SigninSave(i) PROVE IInv'
  <2>1. TypeOK'
    BY <1>9, UpdateRowFacts, SMTT(30) DEF SigninSave, NewRow, UserIdFree, RowsOfUser, UserRow, TokenRow, Token
  <2>2. (UniqueEmail /\ OneRowPerUser /\ RowOwned /\ RowIds)'
    BY <1>9, UpdateRowFacts, SMTT(30) DEF SigninSave, NewRow, UserIdFree, RowsOfUser, UserRow, TokenRow, Token
  <2>3. (AnswersOwned /\ UsersCommitted /\ OpenTransactions /\ SavesOwned)'
    BY <1>9, UpdateRowFacts, SMTT(30) DEF SigninSave, NewRow, UserIdFree, RowsOfUser, UserRow, TokenRow, Token
  <2>4. (SigninsOwned /\ RefreshesOwned)'
    BY <1>9, UpdateRowFacts, SMTT(30) DEF SigninSave, NewRow, UserIdFree, RowsOfUser, UserRow, TokenRow, Token
  <2>. QED BY <2>1, <2>2, <2>3, <2>4
<1>10. ASSUME NEW r \in Refreshes, RefreshReceive(r) PROVE IInv'
  BY <1>10, SMTT(60) DEF RefreshReceive, Issued
<1>11. ASSUME NEW r \in Refreshes, RefreshFind(r) PROVE IInv'
  <2>1. TypeOK'
    BY <1>11, SMTT(30) DEF RefreshFind, RowsByToken, UserRow, TokenRow
  <2>2. (UniqueEmail /\ OneRowPerUser /\ RowOwned /\ RowIds)'
    BY <1>11, SMTT(30) DEF RefreshFind, RowsByToken, UserRow, TokenRow
  <2>3. (AnswersOwned /\ UsersCommitted /\ OpenTransactions /\ SavesOwned)'
    BY <1>11, SMTT(30) DEF RefreshFind, RowsByToken, UserRow, TokenRow
  <2>4. (SigninsOwned /\ RefreshesOwned)'
    BY <1>11, SMTT(30) DEF RefreshFind, RowsByToken, UserRow, TokenRow
  <2>. QED BY <2>1, <2>2, <2>3, <2>4
<1>12. ASSUME NEW r \in Refreshes, RefreshSign(r) PROVE IInv'
  BY <1>12, SMTT(60) DEF RefreshSign, Token30d, Token
<1>13. ASSUME NEW r \in Refreshes, RefreshSave(r) PROVE IInv'
  <2>1. TypeOK'
    BY <1>13, UpdateRowFacts, SMTT(30) DEF RefreshSave, UserRow
  <2>2. (UniqueEmail /\ OneRowPerUser /\ RowOwned /\ RowIds)'
    BY <1>13, UpdateRowFacts, SMTT(30) DEF RefreshSave, UserRow
  <2>3. (AnswersOwned /\ UsersCommitted /\ OpenTransactions /\ SavesOwned)'
    BY <1>13, UpdateRowFacts, SMTT(30) DEF RefreshSave, UserRow
  <2>4. (SigninsOwned /\ RefreshesOwned)'
    BY <1>13, UpdateRowFacts, SMTT(30) DEF RefreshSave, UserRow
  <2>. QED BY <2>1, <2>2, <2>3, <2>4
<1>14. ASSUME NEW r \in Requests, Respond(r) PROVE IInv'
  BY <1>14, SMTT(60) DEF Respond
<1>15. ASSUME NEW r \in Requests, QueryFails(r) PROVE IInv'
  BY <1>15, SMTT(60) DEF QueryFails
<1>16. ASSUME NEW s \in Signups, CommitFails(s) PROVE IInv'
  <2>1. CASE ProcessExits
    BY <1>16, <2>1, ExitKeepsIt DEF CommitFails
  <2>2. CASE ~ProcessExits
    BY <1>16, <2>2, SMTT(60) DEF CommitFails, SaveRejects, UserRow
  <2>. QED BY <2>1, <2>2
<1>17. ASSUME Crash PROVE IInv'
  BY <1>17, ExitKeepsIt DEF Crash
<1>18. ASSUME Tick PROVE IInv'
  BY <1>18, SMTT(60) DEF Tick
<1>19. ASSUME UNCHANGED vars PROVE IInv'
  BY <1>19, SMTT(60) DEF vars
<1>. QED
  BY <1>1, <1>2, <1>3, <1>4, <1>5, <1>6, <1>7, <1>8, <1>9, <1>10,
     <1>11, <1>12, <1>13, <1>14, <1>15, <1>16, <1>17, <1>18, <1>19
  DEF Next, SignupStep, SigninStep, RefreshStep

(* The initial states satisfy the invariant.                               *)
LEMMA Start == Init => IInv
BY DEF Init, IInv, TypeOK, UniqueEmail, OneRowPerUser, RowOwned, AnswersOwned,
       UsersCommitted, OpenTransactions, SavesOwned, RowIds, SigninsOwned,
       RefreshesOwned, Times

(* The inductive invariant, from which the theorems below follow.          *)
THEOREM Invariance == Spec => []IInv
<1>1. Init => IInv
  BY Start
<1>2. IInv /\ [Next]_vars => IInv'
  BY Step
<1>. QED BY <1>1, <1>2, PTL DEF Spec

(* Every variable keeps its type: in particular no handler signs a token   *)
(* for a user that does not exist (auth.service.ts:119-209).               *)
THEOREM TypeCorrect == Spec => []TypeOK
<1>1. IInv => TypeOK
  BY DEF IInv
<1>. QED BY Invariance, <1>1, PTL

(* No interleaving of sign-ups, lost connections and restarts creates two  *)
(* accounts with one e-mail (auth.service.ts:128, :137).                   *)
THEOREM EmailsAreUnique == Spec => []UniqueEmail
<1>1. IInv => UniqueEmail
  BY DEF IInv
<1>. QED BY Invariance, <1>1, PTL

(* The row of an account never holds another account's token               *)
(* (auth.service.ts:147, :197-206, :350-361).                              *)
THEOREM RowsAreOwned == Spec => []RowOwned
<1>1. IInv => RowOwned
  BY DEF IInv
<1>. QED BY Invariance, <1>1, PTL

(* No interleaving of the sessions of an account, nor a crash between the  *)
(* read of its row and the save, leaves it two rows                        *)
(* (auth.service.ts:350-361).                                              *)
THEOREM RowsAreSingle == Spec => []OneRowPerUser
<1>1. IInv => OneRowPerUser
  BY DEF IInv
<1>. QED BY Invariance, <1>1, PTL

(* Tokens are only answered for committed users (auth.service.ts:150-151). *)
THEOREM AnswersAreDurable == Spec => []AnsweredUserIsDurable
<1>1. IInv => AnsweredUserIsDurable
  BY DEF IInv, AnswersOwned, AnsweredUserIsDurable, Registered
<1>. QED BY Invariance, <1>1, PTL

-----------------------------------------------------------------------------
(* The detached save of a sign-up is only pending while its handler still  *)
(* answers with the token it carries, and inside the transaction only as   *)
(* long as that one is open.                                               *)
PendingSavesAnswer ==
    \A s \in Signups : save[s] = "pending" => pc[s] \in {"commit", "respond", "ok"}

(* Every step, faults included, keeps the stored tokens held.              *)
LEMMA HeldStep ==
  ASSUME IInv, IInv', StoredTokenIsHeld, PendingSavesAnswer, [Next]_vars
  PROVE  (StoredTokenIsHeld /\ PendingSavesAnswer)'
<1> USE DEF StoredTokenIsHeld, PendingSavesAnswer, Goto, GotoOrLose
<1>1. ASSUME NEW s \in Signups, SignupFind(s) \/ SignupRollback(s)
      PROVE  (StoredTokenIsHeld /\ PendingSavesAnswer)'
  BY <1>1 DEF SignupFind, SignupRollback, IInv, TypeOK
<1>2. ASSUME NEW s \in Signups, SignupInsert(s) PROVE (StoredTokenIsHeld /\ PendingSavesAnswer)'
  BY <1>2 DEF SignupInsert, IInv, TypeOK
<1>3. ASSUME NEW s \in Signups, SignupCommit(s) PROVE (StoredTokenIsHeld /\ PendingSavesAnswer)'
  BY <1>3 DEF SignupCommit, NewRow, AfterCommit, SaveRejects, ProcessExits, Unsaved,
               InFlight, AtDatabase, IInv, TypeOK
<1>4. ASSUME NEW s \in Signups, SignupSaveToken(s) PROVE (StoredTokenIsHeld /\ PendingSavesAnswer)'
  BY <1>4 DEF SignupSaveToken, NewRow, SaveRejects, ProcessExits, Unsaved,
               InFlight, AtDatabase, IInv, TypeOK
<1>5. ASSUME NEW i \in Signins, SigninFind(i) \/ SigninCompare(i) \/ SigninFindRow(i)
      PROVE  (StoredTokenIsHeld /\ PendingSavesAnswer)'
  BY <1>5 DEF SigninFind, SigninCompare, SigninFindRow, IInv, TypeOK
<1>6. ASSUME NEW i \in Signins, SigninSave(i) PROVE (StoredTokenIsHeld /\ PendingSavesAnswer)'
  BY <1>6, UpdateRowFacts DEF SigninSave, NewRow, IInv, TypeOK, SigninsOwned
<1>7. ASSUME NEW r \in Refreshes, RefreshReceive(r) \/ RefreshFind(r) \/ RefreshSign(r)
      PROVE  (StoredTokenIsHeld /\ PendingSavesAnswer)'
  BY <1>7 DEF RefreshReceive, RefreshFind, RefreshSign, IInv, TypeOK
<1>8. ASSUME NEW r \in Refreshes, RefreshSave(r) PROVE (StoredTokenIsHeld /\ PendingSavesAnswer)'
  BY <1>8, UpdateRowFacts DEF RefreshSave, IInv, TypeOK, RefreshesOwned
<1>9. ASSUME NEW r \in Requests, Respond(r) PROVE (StoredTokenIsHeld /\ PendingSavesAnswer)'
  BY <1>9 DEF Respond, IInv, TypeOK
<1>10. ASSUME NEW r \in Requests, QueryFails(r) PROVE (StoredTokenIsHeld /\ PendingSavesAnswer)'
  BY <1>10 DEF QueryFails, AtDatabase, SavesOwned, IInv, TypeOK
<1>11. CASE Crash \/ \E s \in Signups : CommitFails(s)
  BY <1>11 DEF Crash, CommitFails, SaveRejects, ProcessExits, InFlight, AtDatabase, Unsaved,
               IInv, TypeOK
<1>12. CASE Tick \/ UNCHANGED vars
  BY <1>12 DEF Tick, vars
<1>. QED
  BY <1>1, <1>2, <1>3, <1>4, <1>5, <1>6, <1>7, <1>8, <1>9, <1>10, <1>11, <1>12
     DEF Next, SignupStep, SigninStep, RefreshStep

(* Some client holds, or is about to be handed, the stored token of every  *)
(* account, unless a fault took that answer: nobody is locked out of       *)
(* refresh by the order in which requests and the detached save run        *)
(* (auth.service.ts:147, :206, :361).                                      *)
THEOREM StoredTokensAreHeld == Spec => []StoredTokenIsHeld
<1> DEFINE Held == StoredTokenIsHeld /\ PendingSavesAnswer
<1>1. Init => Held
  BY DEF Init, StoredTokenIsHeld, PendingSavesAnswer
<1>2. IInv /\ IInv' /\ Held /\ [Next]_vars => Held'
  BY HeldStep
<1>3. Held => StoredTokenIsHeld
  OBVIOUS
<1> HIDE DEF Held
<1>. QED BY Invariance, <1>1, <1>2, <1>3, PTL DEF Spec

-----------------------------------------------------------------------------
(* Every step, faults included, keeps the session of an account there or   *)
(* under way: rows keep their users, and a pending save is only lost with  *)
(* a connection or to a row that is already there.                         *)
LEMMA UnderWayStep ==
  ASSUME IInv, SessionUnderWay, [Next]_vars
  PROVE  SessionUnderWay'
<1> USE DEF SessionUnderWay, IInv, TypeOK
<1>0. ASSUME ProcessExits, Faulty \/ "exit" \in RejectionEffects, UNCHANGED <<users, rows>>
      PROVE  SessionUnderWay'
  BY <1>0 DEF ProcessExits, Unsaved, UserRow
<1>1. ASSUME NEW s \in Signups, SignupFind(s) \/ SignupRollback(s) PROVE SessionUnderWay'
  BY <1>1 DEF SignupFind, SignupRollback
<1>2. ASSUME NEW s \in Signups, SignupInsert(s) PROVE SessionUnderWay'
  BY <1>2 DEF SignupInsert, UserRow
<1>3. ASSUME NEW s \in Signups, SignupCommit(s) PROVE SessionUnderWay'
  <2>1. users' = users \cup {NewUser(s)} /\ NewUser(s).id = s /\ rows \subseteq rows'
    BY <1>3 DEF SignupCommit, NewUser
  <2>2. \A u \in users : u.id # s
    BY <1>3 DEF SignupCommit, UsersCommitted
  <2>3. \A o \in Signups \ {s} :
           save'[o] = save[o] \/ (Faulty /\ save'[o] = "lost")
    <3>1. CASE Faulty /\ save[s] = "pending" /\ ProcessExits
      BY <3>1 DEF ProcessExits, Unsaved
    <3>. QED BY <1>3, <3>1 DEF SignupCommit, SaveRejects
  <2>4. CASE save[s] = "inTransaction"
    <3>1. NewRow(s) \in rows' /\ NewRow(s).user = s
      BY <1>3, <2>4 DEF SignupCommit, NewRow, SavesOwned
    <3>. QED BY <2>1, <2>2, <2>3, <3>1 DEF UserRow
  <2>5. CASE save[s] = "pending"
    <3>1. save'[s] = "pending" \/ (Faulty /\ save'[s] = "lost")
      BY <1>3, <2>5 DEF SignupCommit, AfterCommit, SaveRejects, ProcessExits, Unsaved
    <3>. QED BY <2>1, <2>2, <2>3, <3>1 DEF UserRow
  <2>. QED BY <1>3, <2>4, <2>5 DEF SignupCommit, SavesOwned
<1>4. ASSUME NEW s \in Signups, SignupSaveToken(s) PROVE SessionUnderWay'
  <2>1. CASE "exit" \in RejectionEffects /\ ProcessExits /\ UNCHANGED rows
    BY <1>0, <1>4, <2>1 DEF SignupSaveToken
  <2>2. CASE ~("exit" \in RejectionEffects /\ ProcessExits /\ UNCHANGED rows)
    <3>1. users' = users /\ rows \subseteq rows' /\ \A o \in Signups \ {s} : save'[o] = save[o]
      BY <1>4, <2>2 DEF SignupSaveToken, SaveRejects
    <3>2. (\E row \in rows' : row.user = s) \/ pc[s] = "commit" \/ (Faulty /\ save'[s] = "lost")
      <4>1. CASE UserIdFree(s) /\ rows' = rows \cup {NewRow(s)}
        <5>1. signed[s].sub = s
          BY <1>4 DEF SignupSaveToken, SavesOwned
        <5>2. NewRow(s).user = s /\ NewRow(s) \in rows'
          BY <4>1, <5>1 DEF NewRow
        <5>. QED BY <5>2
      <4>2. CASE ~UserIdFree(s) /\ rows' = rows
        BY <4>2 DEF UserIdFree, RowsOfUser
      <4>. QED BY <1>4, <2>2, <4>1, <4>2 DEF SignupSaveToken, SaveRejects
    <3>. QED BY <3>1, <3>2 DEF UserRow, UsersCommitted
  <2>. QED BY <2>1, <2>2
<1>5. ASSUME NEW i \in Signins, SigninFind(i) \/ SigninCompare(i) \/ SigninFindRow(i)
      PROVE  SessionUnderWay'
  BY <1>5 DEF SigninFind, SigninCompare, SigninFindRow
<1>6. ASSUME NEW i \in Signins, SigninSave(i) PROVE SessionUnderWay'
  BY <1>6, UpdateRowFacts DEF SigninSave, SigninsOwned
<1>7. ASSUME NEW r \in Refreshes, RefreshReceive(r) \/ RefreshFind(r) \/ RefreshSign(r)
      PROVE  SessionUnderWay'
  BY <1>7 DEF RefreshReceive, RefreshFind, RefreshSign
<1>8. ASSUME NEW r \in Refreshes, RefreshSave(r) PROVE SessionUnderWay'
  BY <1>8, UpdateRowFacts DEF RefreshSave, RefreshesOwned
<1>9. ASSUME NEW r \in Requests, Respond(r) PROVE SessionUnderWay'
  BY <1>9 DEF Respond
<1>10. ASSUME NEW r \in Requests, QueryFails(r) PROVE SessionUnderWay'
  BY <1>10 DEF QueryFails
<1>11. CASE Crash
  BY <1>0, <1>11 DEF Crash
<1>12. ASSUME NEW s \in Signups, CommitFails(s) PROVE SessionUnderWay'
  <2>1. CASE ProcessExits
    BY <1>0, <1>12, <2>1 DEF CommitFails
  <2>2. CASE ~ProcessExits
    <3>1. \A u \in users : u.id \in Signups /\ u.id # s
      BY <1>12 DEF UserRow, UsersCommitted, CommitFails
    <3>. QED BY <1>12, <2>2, <3>1 DEF CommitFails, SaveRejects
  <2>. QED BY <2>1, <2>2
<1>13. CASE Tick \/ UNCHANGED vars
  BY <1>13 DEF Tick, vars
<1>. QED
  BY <1>1, <1>2, <1>3, <1>4, <1>5, <1>6, <1>7, <1>8, <1>9, <1>10, <1>11, <1>12, <1>13
     DEF Next, SignupStep, SigninStep, RefreshStep

(* Whatever the order of COMMIT and the detached save, and whichever       *)
(* sign-in comes between, only a lost connection or the end of the process *)
(* leaves an account without a session (auth.service.ts:147, :350-361).    *)
THEOREM SessionsAreUnderWay == Spec => []SessionUnderWay
<1>1. Init => SessionUnderWay
  BY DEF Init, SessionUnderWay
<1>2. IInv /\ SessionUnderWay /\ [Next]_vars => SessionUnderWay'
  BY UnderWayStep
<1>. QED BY Invariance, <1>1, <1>2, PTL DEF Spec

-----------------------------------------------------------------------------
(* Where a sign-in of the program as it is built can be: the comparison    *)
(* rejects, so nothing after it is ever reached and no token is signed.    *)
NeverPastComparing ==
    \A i \in Signins :
        pc[i] \in {"idle", "compare", "unauthorized", "error", "dropped"} /\ signed[i] = Nothing

(* While the lookup does not select the password column, no sign-in        *)
(* succeeds, whatever the address and the password, and none touches the   *)
(* session its account has (auth.service.ts:379, user.entity.ts:121).      *)
THEOREM SigninsNeverSucceed ==
  ASSUME ~PasswordSelected
  PROVE  Spec => []NeverPastComparing
<1>1. Init => NeverPastComparing
  BY DEF Init, NeverPastComparing
<1>2. IInv /\ NeverPastComparing /\ [Next]_vars => NeverPastComparing'
  <2> SUFFICES ASSUME IInv, NeverPastComparing, [Next]_vars PROVE NeverPastComparing'
    OBVIOUS
  <2> USE DEF NeverPastComparing, IInv, TypeOK, Goto, GotoOrLose
  <2>0. ASSUME ProcessExits, UNCHANGED signed PROVE NeverPastComparing'
    BY <2>0 DEF ProcessExits
  <2>1. ASSUME NEW s \in Signups, SignupStep(s) PROVE NeverPastComparing'
    <3>1. CASE ProcessExits /\ UNCHANGED signed
      BY <2>0, <3>1
    <3>2. CASE ~(ProcessExits /\ UNCHANGED signed)
      BY <2>1, <3>2 DEF SignupStep, SignupFind, SignupInsert, SignupCommit, SaveRejects, SignupRollback
    <3>. QED BY <3>1, <3>2
  <2>2. ASSUME NEW s \in Signups, SignupSaveToken(s) \/ CommitFails(s) PROVE NeverPastComparing'
    <3>1. CASE ProcessExits
      BY <2>0, <2>2, <3>1 DEF SignupSaveToken, CommitFails
    <3>2. CASE ~ProcessExits
      BY <2>2, <3>2 DEF SignupSaveToken, CommitFails, SaveRejects
    <3>. QED BY <3>1, <3>2
  <2>3. ASSUME NEW i \in Signins, SigninStep(i) PROVE NeverPastComparing'
    BY <2>3 DEF SigninStep, SigninFind, SigninCompare, SigninFindRow, SigninSave
  <2>4. ASSUME NEW r \in Refreshes, RefreshStep(r) PROVE NeverPastComparing'
    BY <2>4 DEF RefreshStep, RefreshReceive, RefreshFind, RefreshSign, RefreshSave
  <2>5. ASSUME NEW r \in Requests, Respond(r) \/ QueryFails(r) PROVE NeverPastComparing'
    BY <2>5 DEF Respond, QueryFails
  <2>6. CASE Crash \/ Tick \/ UNCHANGED vars
    BY <2>0, <2>6 DEF Crash, Tick, vars
  <2>. QED BY <2>1, <2>2, <2>3, <2>4, <2>5, <2>6 DEF Next
<1>. QED BY Invariance, <1>1, <1>2, PTL DEF Spec

-----------------------------------------------------------------------------
(* AuthService implements Accounts.                                        *)

(* Inserting the first row of a user binds that user's session only.       *)
LEMMA BindByInsert ==
    ASSUME NEW R, NEW x \in TokenRow, \A y \in R : y.user # x.user
    PROVE  \A id \in Signups : TokenIn(R \cup {x}, id) =
              IF id = x.user THEN x.token ELSE TokenIn(R, id)
<1>1. TokenIn(R \cup {x}, x.user) = x.token
  BY DEF TokenIn
<1>2. ASSUME NEW id \in Signups, id # x.user PROVE TokenIn(R \cup {x}, id) = TokenIn(R, id)
  <2>1. \A y : y \in R \cup {x} /\ y.user = id <=> y \in R /\ y.user = id
    BY <1>2
  <2>. QED BY <2>1 DEF TokenIn
<1>. QED BY <1>1, <1>2

(* So does updating the token of the user's row.                           *)
LEMMA BindByUpdate ==
    ASSUME rows \subseteq TokenRow, OneRowPerUser, RowIds,
           NEW x \in rows, NEW t \in Token
    PROVE  \A id \in Signups : TokenIn(UpdateRow(x.id, t), id) =
              IF id = x.user THEN t ELSE TokenIn(rows, id)
<1> DEFINE New(y) == IF y.id = x.id THEN [y EXCEPT !.token = t] ELSE y
<1>1. \A y \in rows : y \in TokenRow /\ New(y).user = y.user
  BY DEF TokenRow
<1>2. New(x).token = t
  BY DEF TokenRow
<1>3. \A y \in rows : y # x => New(y) = y
  BY DEF RowIds
<1>4. UpdateRow(x.id, t) = {New(y) : y \in rows}
  BY DEF UpdateRow
<1> HIDE DEF New
<1>5. TokenIn(UpdateRow(x.id, t), x.user) = t
  <2>1. New(x) \in UpdateRow(x.id, t) /\ New(x).user = x.user
    BY <1>1, <1>4
  <2>2. \A z \in UpdateRow(x.id, t) : z.user = x.user => z = New(x)
    BY <1>1, <1>4 DEF OneRowPerUser
  <2>. QED BY <2>1, <2>2, <1>2 DEF TokenIn
<1>6. ASSUME NEW id \in Signups, id # x.user
      PROVE  TokenIn(UpdateRow(x.id, t), id) = TokenIn(rows, id)
  <2>1. \A y : y \in UpdateRow(x.id, t) /\ y.user = id <=> y \in rows /\ y.user = id
    BY <1>1, <1>3, <1>4, <1>6
  <2>. QED BY <2>1 DEF TokenIn
<1>. QED BY <1>5, <1>6

(* Every step is a step of Accounts or leaves both its variables alone.    *)
LEMMA Simulation ==
  ASSUME IInv, IInv', [Next]_vars
  PROVE  [Promise!Next]_(Promise!vars)
<1> USE DEF IInv, TypeOK
<1>1. ASSUME rows' = rows, users' = users PROVE UNCHANGED Promise!vars
  BY <1>1 DEF Promise!vars, SessionOf
<1>2. ASSUME NEW s \in Signups, SignupCommit(s) PROVE Promise!Register(s, cred[s].email)
  <2>1. \A u \in users : u.id # s /\ u.email # cred[s].email
    BY <1>2 DEF SignupCommit, UsersCommitted, OpenTransactions, UserRow
  <2>2. users' = users \cup {[id |-> s, email |-> cred[s].email]}
    BY <1>2 DEF SignupCommit, NewUser
  <2>3. CASE save[s] = "inTransaction"
    <3>1. /\ NewRow(s) \in TokenRow /\ NewRow(s).user = s
          /\ NewRow(s).token \in Promise!TokensOf(s)
      BY <2>3 DEF NewRow, TokenRow, Token, SavesOwned, Promise!TokensOf
    <3>2. \A y \in rows : y.user # NewRow(s).user
      BY <2>1, <3>1 DEF RowOwned
    <3>3. rows' = rows \cup {NewRow(s)}
      BY <1>2, <2>3 DEF SignupCommit
    <3>4. \A id \in Signups : TokenIn(rows \cup {NewRow(s)}, id) =
             IF id = NewRow(s).user THEN NewRow(s).token ELSE TokenIn(rows, id)
      BY <3>1, <3>2, BindByInsert
    <3>5. [id \in Signups |-> SessionOf(id)]'
          = [[id \in Signups |-> SessionOf(id)] EXCEPT ![s] = NewRow(s).token]
      BY <3>1, <3>3, <3>4 DEF SessionOf
    <3>. QED BY <2>1, <2>2, <3>1, <3>5 DEF Promise!Register
  <2>4. CASE save[s] # "inTransaction"
    <3>1. rows' = rows
      BY <1>2, <2>4 DEF SignupCommit
    <3>2. TokenIn(rows, s) = Nothing
      BY <2>1 DEF TokenIn, RowOwned
    <3>3. [id \in Signups |-> SessionOf(id)]'
          = [[id \in Signups |-> SessionOf(id)] EXCEPT ![s] = Nothing]
      BY <3>1, <3>2 DEF SessionOf
    <3>. QED BY <2>1, <2>2, <3>3 DEF Promise!Register
  <2>. QED BY <2>3, <2>4
<1>3. ASSUME NEW r \in Requests, NEW id \in Signups, signed[r] \in Token, signed[r].sub = id,
             Registered(id), RowsOfUser(id) = {}, rows' = rows \cup {NewRow(r)}, users' = users
      PROVE  Promise!Bind(id)
  <2>1. /\ NewRow(r) \in TokenRow /\ NewRow(r).user = id /\ NewRow(r).token = signed[r]
        /\ signed[r] \in Promise!TokensOf(id)
    BY <1>3 DEF NewRow, TokenRow, Token, Promise!TokensOf
  <2>2. \A y \in rows : y.user # id
    BY <1>3 DEF RowsOfUser
  <2>3. \A k \in Signups : TokenIn(rows \cup {NewRow(r)}, k) =
           IF k = NewRow(r).user THEN NewRow(r).token ELSE TokenIn(rows, k)
    BY <2>1, <2>2, BindByInsert
  <2>4. [k \in Signups |-> SessionOf(k)]'
        = [[k \in Signups |-> SessionOf(k)] EXCEPT ![id] = signed[r]]
    BY <1>3, <2>1, <2>3 DEF SessionOf
  <2>. QED BY <1>3, <2>1, <2>4 DEF Promise!Bind, Registered
<1>4. ASSUME NEW x \in rows, NEW t \in Token, x.user = t.sub,
             rows' = UpdateRow(x.id, t), users' = users
      PROVE  Promise!Bind(x.user)
  <2>1. t \in Promise!TokensOf(x.user)
    BY <1>4 DEF Token, Promise!TokensOf
  <2>2. \A k \in Signups : TokenIn(UpdateRow(x.id, t), k) =
           IF k = x.user THEN t ELSE TokenIn(rows, k)
    BY BindByUpdate
  <2>3. [k \in Signups |-> SessionOf(k)]'
        = [[k \in Signups |-> SessionOf(k)] EXCEPT ![x.user] = t]
    BY <1>4, <2>2 DEF SessionOf
  <2>4. \E a \in users : a.id = x.user
    BY DEF RowOwned
  <2>. QED BY <1>4, <2>1, <2>3, <2>4 DEF Promise!Bind
<1>5. ASSUME NEW s \in Signups, SignupSaveToken(s)
      PROVE  UNCHANGED Promise!vars \/ \E id \in Signups : Promise!Bind(id)
  <2>1. CASE rows' = rows
    BY <1>1, <1>5, <2>1 DEF SignupSaveToken
  <2>2. CASE rows' # rows
    BY <1>3, <1>5, <2>2 DEF SignupSaveToken, UserIdFree, SavesOwned
  <2>. QED BY <2>1, <2>2
<1>6. ASSUME NEW i \in Signins, SigninSave(i)
      PROVE  UNCHANGED Promise!vars \/ \E id \in Signups : Promise!Bind(id)
  <2>1. signed[i] \in Token /\ Registered(signed[i].sub) /\ signed[i].sub \in Signups
    BY <1>6 DEF SigninSave, SigninsOwned, Token
  <2>2. CASE rows' = rows
    BY <1>1, <1>6, <2>2 DEF SigninSave
  <2>3. CASE found[i] # Nothing
    <3>1. PICK x \in rows : x.id = found[i] /\ x.user = signed[i].sub
      BY <1>6, <2>3 DEF SigninSave, SigninsOwned
    <3>2. rows' = UpdateRow(x.id, signed[i]) /\ users' = users
      BY <1>6, <2>3, <3>1 DEF SigninSave
    <3>. QED BY <1>4, <2>1, <3>1, <3>2
  <2>4. CASE found[i] = Nothing /\ rows' # rows
    <3>1. RowsOfUser(signed[i].sub) = {} /\ rows' = rows \cup {NewRow(i)} /\ users' = users
      BY <1>6, <2>4 DEF SigninSave, UserIdFree
    <3>. QED BY <1>3, <2>1, <3>1
  <2>. QED BY <2>2, <2>3, <2>4
<1>7. ASSUME NEW r \in Refreshes, RefreshSave(r)
      PROVE  \E id \in Signups : Promise!Bind(id)
  <2>1. PICK x \in rows : x.id = found[r] /\ x.user = bearer[r].sub
    BY <1>7 DEF RefreshSave, RefreshesOwned
  <2>2. signed[r] \in Token /\ signed[r].sub = x.user /\ x.user \in Signups
    BY <1>7, <2>1 DEF RefreshSave, RefreshesOwned, TokenRow
  <2>3. rows' = UpdateRow(x.id, signed[r]) /\ users' = users
    BY <1>7, <2>1 DEF RefreshSave
  <2>. QED BY <1>4, <2>2, <2>3
<1>8. CASE \/ \E s \in Signups : SignupFind(s) \/ SignupInsert(s) \/ SignupRollback(s)
           \/ \E i \in Signins : SigninFind(i) \/ SigninCompare(i) \/ SigninFindRow(i)
           \/ \E r \in Refreshes : RefreshReceive(r) \/ RefreshFind(r) \/ RefreshSign(r)
           \/ \E r \in Requests : Respond(r) \/ QueryFails(r)
           \/ \E s \in Signups : CommitFails(s)
           \/ Crash \/ Tick \/ UNCHANGED vars
  <2>1. rows' = rows /\ users' = users
    BY <1>8 DEF SignupFind, SignupInsert, SignupRollback, SigninFind, SigninCompare,
                SigninFindRow, RefreshReceive, RefreshFind, RefreshSign, Respond,
                QueryFails, CommitFails, Crash, Tick, vars
  <2>. QED BY <1>1, <2>1
<1>9. \A s \in Signups : cred[s].email \in Emails
  BY DEF Cred
<1>. QED
  BY <1>2, <1>5, <1>6, <1>7, <1>8, <1>9
     DEF Next, SignupStep, SigninStep, RefreshStep, Promise!Next

(* The tables implement the promise: accounts appear once per e-mail, and  *)
(* a session is only ever bound to an account that exists, by a token      *)
(* signed for it (auth.service.ts:126-151, :171-209).                      *)
THEOREM Refinement == Spec => ImplementsAccounts
<1>1. Init => Promise!Init
  BY DEF Init, Promise!Init, SessionOf, TokenIn
<1>2. IInv /\ IInv' /\ [Next]_vars => [Promise!Next]_(Promise!vars)
  BY Simulation
<1>. QED BY Invariance, <1>1, <1>2, PTL DEF Spec, ImplementsAccounts, Promise!Spec
=============================================================================
