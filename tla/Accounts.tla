------------------------------ MODULE Accounts ------------------------------
(***************************************************************************)
(* What the authentication component promises, without requests,           *)
(* transactions or connections: a set of accounts, no two with one e-mail  *)
(* address, and for each account at most one current refresh token, which  *)
(* was signed for that account.  AuthService implements it.                *)
(***************************************************************************)
CONSTANTS Ids,      \* account identities (the uuid primary keys of users)
          Emails,   \* e-mail addresses
          Times,    \* instants at which a token may have been signed
          None      \* no refresh token is stored

VARIABLES accounts, \* set of [id, email]
          session   \* session[id]: the refresh token stored for id, or None

vars == <<accounts, session>>

TokensOf(id) == [sub : {id}, iat : Times]

Init == /\ accounts = {}
        /\ session = [id \in Ids |-> None]

(* A new account appears, with its first refresh token or still without.   *)
Register(id, email) ==
    /\ \A a \in accounts : a.id # id /\ a.email # email
    /\ accounts' = accounts \cup {[id |-> id, email |-> email]}
    /\ \E t \in TokensOf(id) \cup {None} : session' = [session EXCEPT ![id] = t]

(* The current token of an existing account is set or replaced.            *)
Bind(id) ==
    /\ \E a \in accounts : a.id = id
    /\ \E t \in TokensOf(id) : session' = [session EXCEPT ![id] = t]
    /\ UNCHANGED accounts

Next == \E id \in Ids : Bind(id) \/ \E email \in Emails : Register(id, email)

Spec == Init /\ [][Next]_vars
=============================================================================
