---------------------------- MODULE Migrations ----------------------------
(***************************************************************************)
(* What the migrations promise whoever uses the database: all that are     *)
(* missing are applied in one step, one is undone in one step, and neither *)
(* puts UNIQUE(email) over rows that share an address.  Schema implements  *)
(* it.                                                                     *)
(***************************************************************************)
EXTENDS Naturals

CONSTANTS Emails, MaxRows

VARIABLES version,    \* how many migrations are applied
          guarded,    \* the database keeps addresses apart
          rows        \* how many users have the address

vars == <<version, guarded, rows>>

Latest  == 3
Guarded == {1, 3}     \* the versions with UNIQUE(email)
Nobody  == [e \in Emails |-> 0]
Single  == \A e \in Emails : rows[e] <= 1

Init == version = 0 /\ guarded = FALSE /\ rows = Nobody

Upgrade ==
    /\ version < Latest /\ Single
    /\ version' = Latest /\ guarded' = TRUE
    /\ UNCHANGED rows

Downgrade ==
    /\ version > 0 /\ version' = version - 1
    /\ guarded' = (version' \in Guarded)
    /\ guarded' => Single
    /\ rows' = IF version' = 0 THEN Nobody ELSE rows

Insert(e) ==
    /\ version > 0 /\ rows[e] < MaxRows /\ (guarded => rows[e] = 0)
    /\ rows' = [rows EXCEPT ![e] = @ + 1]
    /\ UNCHANGED <<version, guarded>>

Next == Upgrade \/ Downgrade \/ \E e \in Emails : Insert(e)

Spec == Init /\ [][Next]_vars
=============================================================================
