--------------------------- MODULE SchemaProofs ---------------------------
(***************************************************************************)
(* The committed schema is the one of the migrations the log records, and  *)
(* the database implements Migrations, for any addresses and rows.         *)
(***************************************************************************)
EXTENDS Schema, TLAPS

-----------------------------------------------------------------------------
(* What the statements that are left, todo, say of the schema S so far.    *)
Missing(S, objects) == S = Objects \ objects

(* The first migration; the type may be left of an earlier one.            *)
Install6 == <<Create("FK_refresh_token")>>
Install5 == <<Create("FK_video"), Create("FK_refresh_token")>>
Install4 == <<Create("refresh_token"), Create("FK_video"), Create("FK_refresh_token")>>
Install3 == <<Create("user"), Create("refresh_token"), Create("FK_video"), Create("FK_refresh_token")>>
Install2 == <<Create("video"), Create("user"), Create("refresh_token"), Create("FK_video"),
              Create("FK_refresh_token")>>
Install1 == <<Create("user_role_enum"), Create("video"), Create("user"), Create("refresh_token"),
              Create("FK_video"), Create("FK_refresh_token")>>

Installing(todo, S) ==
    \/ todo = InitUp   /\ S \subseteq {"user_role_enum"}
    \/ todo = Install1 /\ S = {}
    \/ todo = Install2 /\ S = {"user_role_enum"}
    \/ todo = Install3 /\ S = {"user_role_enum", "video"}
    \/ todo = Install4 /\ S = {"user_role_enum", "video", "user", "UQ_email"}
    \/ todo = Install5 /\ S = Tables \cup {"user_role_enum", "UQ_email"}
    \/ todo = Install6 /\ S = Objects \ {"FK_refresh_token"}
    \/ todo = <<>>     /\ S = Objects

Remove1 == <<Drop("FK_video"), Drop("refresh_token"), Drop("user"), Drop("video")>>
Remove2 == <<Drop("refresh_token"), Drop("user"), Drop("video")>>
Remove3 == <<Drop("user"), Drop("video")>>
Remove4 == <<Drop("video")>>

Removing(todo, S) ==
    \/ todo = InitDown /\ S = Objects
    \/ todo = Remove1  /\ S = Objects \ {"FK_refresh_token"}
    \/ todo = Remove2  /\ S = Tables \cup {"user_role_enum", "UQ_email"}
    \/ todo = Remove3  /\ S = {"user_role_enum", "video", "user", "UQ_email"}
    \/ todo = Remove4  /\ S = {"user_role_enum", "video"}
    \/ todo = <<>>     /\ S = {"user_role_enum"}

Opening(todo, S) ==
    \/ todo = DropsUnique /\ S = Objects
    \/ todo = <<>>        /\ S = Objects \ {"UQ_email"}

Closing(todo, S) ==
    \/ todo = AddsUnique /\ S = Objects \ {"UQ_email"}
    \/ todo = <<>>       /\ S = Objects

Stage(up, at, todo, S) ==
    \/ at = 1 /\ up  /\ Installing(todo, S)
    \/ at = 1 /\ ~up /\ Removing(todo, S)
    \/ at = 2 /\ up  /\ Opening(todo, S)
    \/ at = 2 /\ ~up /\ Closing(todo, S)
    \/ at = 3 /\ up  /\ Closing(todo, S)
    \/ at = 3 /\ ~up /\ Opening(todo, S)

-----------------------------------------------------------------------------
LEMMA Plans ==
    /\ Len(Up) = 3 /\ Up[1] = InitUp /\ Up[2] = DropsUnique /\ Up[3] = AddsUnique
    /\ Down[1] = InitDown /\ Down[2] = AddsUnique /\ Down[3] = DropsUnique
  BY SMT DEF Up, Down

(* What a statement does, and when it can be executed, object by object.   *)
LEMMA Effects ==
    ASSUME NEW S, NEW object
    PROVE  /\ object # "user" => After(S, Create(object)) = S \cup {object}
           /\ object # "user" => After(S, Drop(object)) = S \ {object}
           /\ object # "user" => After(S, DropIfAny(object)) = S \ {object}
           /\ After(S, Create("user")) = S \cup {"user", "UQ_email"}
           /\ After(S, Drop("user")) = S \ {"user", "UQ_email"}
  BY SMT DEF After, Create, Drop, DropIfAny

LEMMA Preconditions ==
    ASSUME NEW S, NEW object
    PROVE  /\ Possible(S, Create(object)) <=>
                 (/\ object \notin S
                  /\ \A other \in Objects : RestsOn(object, other) => other \in S
                  /\ object = "UQ_email" => Unique(rows))
           /\ Possible(S, Drop(object)) <=>
                 (object \in S /\ \A other \in S \ {"UQ_email"} : ~RestsOn(other, object))
           /\ Possible(S, DropIfAny(object)) <=> \A other \in S : ~RestsOn(other, object)
  BY SMT DEF Possible, Create, Drop, DropIfAny

LEMMA Different ==
    ASSUME NEW object
    PROVE  /\ object # "UQ_email" => Create(object) # Create("UQ_email")
           /\ Drop(object) # Create("UQ_email") /\ DropIfAny(object) # Create("UQ_email")
  BY SMT DEF Create, Drop, DropIfAny

(* Each statement of the first migration, up or down, finds what it needs  *)
(* and leaves what the next one finds.                                     *)
LEMMA InstallStep ==
    ASSUME NEW S, NEW todo, Installing(todo, S), todo # <<>>
    PROVE  /\ Possible(S, Head(todo)) /\ Head(todo) # Create("UQ_email")
           /\ Installing(Tail(todo), After(S, Head(todo)))
  <1>1. CASE todo = InitUp /\ S \subseteq {"user_role_enum"}
    <2>1. Head(todo) = DropIfAny("user_role_enum") /\ Tail(todo) = Install1
      BY <1>1 DEF InitUp, Install1
    <2>2. Possible(S, Head(todo)) /\ Head(todo) # Create("UQ_email")
      BY <1>1, <2>1, Preconditions, Different DEF RestsOn, Objects, Tables
    <2>3. After(S, Head(todo)) = {}
      <3>1. After(S, Head(todo)) = S \ {"user_role_enum"}
        BY <2>1, Effects
      <3> QED
        BY <1>1, <3>1
    <2> QED
      BY <2>1, <2>2, <2>3 DEF Installing
  <1>2. CASE todo = Install1 /\ S = {}
    <2>1. Head(todo) = Create("user_role_enum") /\ Tail(todo) = Install2
      BY <1>2 DEF Install1, Install2
    <2>2. Possible(S, Head(todo)) /\ Head(todo) # Create("UQ_email")
      BY <1>2, <2>1, Preconditions, Different DEF RestsOn, Objects, Tables
    <2>3. After(S, Head(todo)) = {"user_role_enum"}
      BY <1>2, <2>1, Effects DEF Objects, Tables
    <2> QED
      BY <2>1, <2>2, <2>3 DEF Installing
  <1>3. CASE todo = Install2 /\ S = {"user_role_enum"}
    <2>1. Head(todo) = Create("video") /\ Tail(todo) = Install3
      BY <1>3 DEF Install2, Install3
    <2>2. Possible(S, Head(todo)) /\ Head(todo) # Create("UQ_email")
      BY <1>3, <2>1, Preconditions, Different DEF RestsOn, Objects, Tables
    <2>3. After(S, Head(todo)) = {"user_role_enum", "video"}
      BY <1>3, <2>1, Effects DEF Objects, Tables
    <2> QED
      BY <2>1, <2>2, <2>3 DEF Installing
  <1>4. CASE todo = Install3 /\ S = {"user_role_enum", "video"}
    <2>1. Head(todo) = Create("user") /\ Tail(todo) = Install4
      BY <1>4 DEF Install3, Install4
    <2>2. Possible(S, Head(todo)) /\ Head(todo) # Create("UQ_email")
      BY <1>4, <2>1, Preconditions, Different DEF RestsOn, Objects, Tables
    <2>3. After(S, Head(todo)) = {"user_role_enum", "video", "user", "UQ_email"}
      BY <1>4, <2>1, Effects DEF Objects, Tables
    <2> QED
      BY <2>1, <2>2, <2>3 DEF Installing
  <1>5. CASE todo = Install4 /\ S = {"user_role_enum", "video", "user", "UQ_email"}
    <2>1. Head(todo) = Create("refresh_token") /\ Tail(todo) = Install5
      BY <1>5 DEF Install4, Install5
    <2>2. Possible(S, Head(todo)) /\ Head(todo) # Create("UQ_email")
      BY <1>5, <2>1, Preconditions, Different DEF RestsOn, Objects, Tables
    <2>3. After(S, Head(todo)) = Tables \cup {"user_role_enum", "UQ_email"}
      BY <1>5, <2>1, Effects DEF Objects, Tables
    <2> QED
      BY <2>1, <2>2, <2>3 DEF Installing
  <1>6. CASE todo = Install5 /\ S = Tables \cup {"user_role_enum", "UQ_email"}
    <2>1. Head(todo) = Create("FK_video") /\ Tail(todo) = Install6
      BY <1>6 DEF Install5, Install6
    <2>2. Possible(S, Head(todo)) /\ Head(todo) # Create("UQ_email")
      BY <1>6, <2>1, Preconditions, Different DEF RestsOn, Objects, Tables
    <2>3. After(S, Head(todo)) = Objects \ {"FK_refresh_token"}
      BY <1>6, <2>1, Effects DEF Objects, Tables
    <2> QED
      BY <2>1, <2>2, <2>3 DEF Installing
  <1>7. CASE todo = Install6 /\ S = Objects \ {"FK_refresh_token"}
    <2>1. Head(todo) = Create("FK_refresh_token") /\ Tail(todo) = <<>>
      BY <1>7 DEF Install6
    <2>2. Possible(S, Head(todo)) /\ Head(todo) # Create("UQ_email")
      BY <1>7, <2>1, Preconditions, Different DEF RestsOn, Objects, Tables
    <2>3. After(S, Head(todo)) = Objects
      BY <1>7, <2>1, Effects DEF Objects, Tables
    <2> QED
      BY <2>1, <2>2, <2>3 DEF Installing
  <1> QED
    BY <1>1, <1>2, <1>3, <1>4, <1>5, <1>6, <1>7 DEF Installing

LEMMA RemoveStep ==
    ASSUME NEW S, NEW todo, Removing(todo, S), todo # <<>>
    PROVE  /\ Possible(S, Head(todo)) /\ Head(todo) # Create("UQ_email")
           /\ Removing(Tail(todo), After(S, Head(todo)))
           /\ After(S, Head(todo)) \subseteq S
  <1>1. CASE todo = InitDown /\ S = Objects
    <2>1. Head(todo) = Drop("FK_refresh_token") /\ Tail(todo) = Remove1
      BY <1>1 DEF InitDown, Remove1
    <2>2. Possible(S, Head(todo)) /\ Head(todo) # Create("UQ_email")
      BY <1>1, <2>1, Preconditions, Different DEF RestsOn, Objects, Tables
    <2>3. After(S, Head(todo)) = Objects \ {"FK_refresh_token"}
      BY <1>1, <2>1, Effects DEF Objects, Tables
    <2>4. After(S, Head(todo)) \subseteq S
      BY <1>1, <2>3 DEF Objects, Tables
    <2> QED
      BY <2>1, <2>2, <2>3, <2>4 DEF Removing
  <1>2. CASE todo = Remove1 /\ S = Objects \ {"FK_refresh_token"}
    <2>1. Head(todo) = Drop("FK_video") /\ Tail(todo) = Remove2
      BY <1>2 DEF Remove1, Remove2
    <2>2. Possible(S, Head(todo)) /\ Head(todo) # Create("UQ_email")
      BY <1>2, <2>1, Preconditions, Different DEF RestsOn, Objects, Tables
    <2>3. After(S, Head(todo)) = Tables \cup {"user_role_enum", "UQ_email"}
      BY <1>2, <2>1, Effects DEF Objects, Tables
    <2>4. After(S, Head(todo)) \subseteq S
      BY <1>2, <2>3 DEF Objects, Tables
    <2> QED
      BY <2>1, <2>2, <2>3, <2>4 DEF Removing
  <1>3. CASE todo = Remove2 /\ S = Tables \cup {"user_role_enum", "UQ_email"}
    <2>1. Head(todo) = Drop("refresh_token") /\ Tail(todo) = Remove3
      BY <1>3 DEF Remove2, Remove3
    <2>2. Possible(S, Head(todo)) /\ Head(todo) # Create("UQ_email")
      BY <1>3, <2>1, Preconditions, Different DEF RestsOn, Objects, Tables
    <2>3. After(S, Head(todo)) = {"user_role_enum", "video", "user", "UQ_email"}
      BY <1>3, <2>1, Effects DEF Objects, Tables
    <2>4. After(S, Head(todo)) \subseteq S
      BY <1>3, <2>3 DEF Objects, Tables
    <2> QED
      BY <2>1, <2>2, <2>3, <2>4 DEF Removing
  <1>4. CASE todo = Remove3 /\ S = {"user_role_enum", "video", "user", "UQ_email"}
    <2>1. Head(todo) = Drop("user") /\ Tail(todo) = Remove4
      BY <1>4 DEF Remove3, Remove4
    <2>2. Possible(S, Head(todo)) /\ Head(todo) # Create("UQ_email")
      BY <1>4, <2>1, Preconditions, Different DEF RestsOn, Objects, Tables
    <2>3. After(S, Head(todo)) = {"user_role_enum", "video"}
      BY <1>4, <2>1, Effects DEF Objects, Tables
    <2>4. After(S, Head(todo)) \subseteq S
      BY <1>4, <2>3 DEF Objects, Tables
    <2> QED
      BY <2>1, <2>2, <2>3, <2>4 DEF Removing
  <1>5. CASE todo = Remove4 /\ S = {"user_role_enum", "video"}
    <2>1. Head(todo) = Drop("video") /\ Tail(todo) = <<>>
      BY <1>5 DEF Remove4
    <2>2. Possible(S, Head(todo)) /\ Head(todo) # Create("UQ_email")
      BY <1>5, <2>1, Preconditions, Different DEF RestsOn, Objects, Tables
    <2>3. After(S, Head(todo)) = {"user_role_enum"}
      BY <1>5, <2>1, Effects DEF Objects, Tables
    <2>4. After(S, Head(todo)) \subseteq S
      BY <1>5, <2>3 DEF Objects, Tables
    <2> QED
      BY <2>1, <2>2, <2>3, <2>4 DEF Removing
  <1> QED
    BY <1>1, <1>2, <1>3, <1>4, <1>5 DEF Removing

LEMMA OpeningStep ==
    ASSUME NEW S, NEW todo, Opening(todo, S), todo # <<>>
    PROVE  /\ Possible(S, Head(todo)) /\ Head(todo) # Create("UQ_email")
           /\ Opening(Tail(todo), After(S, Head(todo)))
  <1>1. todo = DropsUnique /\ S = Objects
    BY DEF Opening
  <1>2. Head(todo) = Drop("UQ_email") /\ Tail(todo) = <<>>
    BY <1>1 DEF DropsUnique
  <1>3. Possible(S, Head(todo)) /\ Head(todo) # Create("UQ_email")
    BY <1>1, <1>2, Preconditions, Different DEF RestsOn, Objects, Tables
  <1>4. After(S, Head(todo)) = Objects \ {"UQ_email"}
    BY <1>1, <1>2, Effects
  <1> QED
    BY <1>2, <1>3, <1>4 DEF Opening

(* Only the statement that puts UNIQUE(email) back can be refused.         *)
LEMMA ClosingStep ==
    ASSUME NEW S, NEW todo, Closing(todo, S), todo # <<>>
    PROVE  /\ Head(todo) = Create("UQ_email")
           /\ Possible(S, Head(todo)) <=> Unique(rows)
           /\ Closing(Tail(todo), After(S, Head(todo)))
  <1>1. todo = AddsUnique /\ S = Objects \ {"UQ_email"}
    BY DEF Closing
  <1>2. Head(todo) = Create("UQ_email") /\ Tail(todo) = <<>>
    BY <1>1 DEF AddsUnique
  <1>3. Possible(S, Head(todo)) <=> Unique(rows)
    BY <1>1, <1>2, Preconditions DEF RestsOn, Objects, Tables
  <1>4. After(S, Head(todo)) = Objects
    BY <1>1, <1>2, Effects DEF Objects, Tables
  <1> QED
    BY <1>2, <1>3, <1>4 DEF Closing

LEMMA StageStep ==
    ASSUME NEW S, NEW todo, NEW up \in BOOLEAN, NEW at, Stage(up, at, todo, S), todo # <<>>
    PROVE  /\ Stage(up, at, Tail(todo), After(S, Head(todo)))
           /\ Possible(S, Head(todo)) \/ (Head(todo) = Create("UQ_email") /\ ~Unique(rows))
           /\ Head(todo) = Create("UQ_email") /\ Possible(S, Head(todo)) => Unique(rows)
           /\ "UQ_email" \in After(S, Head(todo)) \ S => Head(todo) = Create("UQ_email") \/ (at = 1 /\ up)
  <1>1. CASE Installing(todo, S) /\ at = 1 /\ up
    BY <1>1, InstallStep DEF Stage
  <1>2. CASE Removing(todo, S) /\ at = 1 /\ ~up
    BY <1>2, RemoveStep DEF Stage
  <1>3. CASE Opening(todo, S) /\ ((at = 2 /\ up) \/ (at = 3 /\ ~up))
    BY <1>3, OpeningStep DEF Stage, Opening, Objects
  <1>4. CASE Closing(todo, S) /\ ((at = 2 /\ ~up) \/ (at = 3 /\ up))
    BY <1>4, ClosingStep DEF Stage
  <1> QED
    BY <1>1, <1>2, <1>3, <1>4 DEF Stage

(* What a migration leaves when nothing is left to do.                     *)
LEMMA StageEnds ==
    ASSUME NEW S, NEW up \in BOOLEAN, NEW at, Stage(up, at, <<>>, S)
    PROVE  /\ at = 1 /\ ~up => S = {"user_role_enum"}
           /\ (at = 2 /\ up) \/ (at = 3 /\ ~up) => S = Objects \ {"UQ_email"}
           /\ (at = 1 /\ up) \/ (at = 2 /\ ~up) \/ (at = 3 /\ up) => S = Objects
  <1>1. <<>> \notin {InitUp, Install1, Install2, Install3, Install4, Install5, Install6,
                    InitDown, Remove1, Remove2, Remove3, Remove4, DropsUnique, AddsUnique}
    BY DEF InitUp, Install1, Install2, Install3, Install4, Install5, Install6,
           InitDown, Remove1, Remove2, Remove3, Remove4, DropsUnique, AddsUnique
  <1> QED
    BY <1>1 DEF Stage, Installing, Removing, Opening, Closing

LEMMA StageObjects ==
    ASSUME NEW S, NEW todo, NEW up \in BOOLEAN, NEW at, Stage(up, at, todo, S)
    PROVE  S \subseteq Objects
  BY DEF Stage, Installing, Removing, Opening, Closing, Objects, Tables

-----------------------------------------------------------------------------
(* The inductive invariant.                                                *)
Fits(version, S) ==
    \/ version = 0 /\ S \subseteq {"user_role_enum"}
    \/ version = 2 /\ S = Objects \ {"UQ_email"}
    \/ version \in {1, 3} /\ S = Objects

(* An open transaction stands somewhere in a migration that follows the    *)
(* log.                                                                    *)
Running ==
    /\ txn.up \in BOOLEAN /\ txn.at \in 1 .. 3 /\ txn.locked \in BOOLEAN
    /\ Stage(txn.up, txn.at, txn.todo, txn.schema)
    /\ IF txn.up THEN log < txn.at ELSE txn.at = log
    /\ txn = [open |-> TRUE, up |-> txn.up, at |-> txn.at, todo |-> txn.todo,
              schema |-> txn.schema, locked |-> txn.locked]

(* Where the constraint stands or is about to, addresses differ, and a     *)
(* constraint that only the transaction sees has its table locked.         *)
KeptApart ==
    /\ log = 0 => rows = [e \in Emails |-> 0]
    /\ "UQ_email" \in schema => Unique(rows)
    /\ txn.open /\ "UQ_email" \in txn.schema =>
          Unique(rows) /\ ("UQ_email" \in schema \/ txn.locked \/ log = 0)

IInv ==
    /\ log \in 0 .. 3 /\ container \in {"migrating", "serving"}
    /\ rows \in [Emails -> 0 .. MaxRows]
    /\ Fits(log, schema)
    /\ txn = NoTxn \/ Running
    /\ KeptApart

LEMMA Init_IInv == Init => IInv
  <1> SUFFICES ASSUME Init PROVE IInv
    OBVIOUS
  <1>1. rows \in [Emails -> 0 .. MaxRows]
    BY RowsAssumption DEF Init
  <1>2. KeptApart
    BY DEF Init, KeptApart, NoTxn
  <1> QED
    BY <1>1, <1>2 DEF Init, IInv, Fits

LEMMA RunBegins_IInv == IInv /\ RunBegins => IInv'
  <1> SUFFICES ASSUME IInv, RunBegins PROVE IInv'
    OBVIOUS
  <1> DEFINE at == log + 1
  <1>1. /\ txn' = [open |-> TRUE, up |-> TRUE, at |-> at, todo |-> Up[at],
                   schema |-> schema, locked |-> FALSE]
        /\ UNCHANGED <<schema, log, rows, container>> /\ log \in 0 .. 2
    BY Plans DEF RunBegins, Begin, IInv
  <1>2. Stage(TRUE, at, Up[at], schema)
    BY <1>1, Plans DEF IInv, Fits, Stage, Installing, Opening, Closing
  <1>3. at \in 1 .. 3 /\ log < at
    BY <1>1
  <1> HIDE DEF at
  <1>4. Running'
    BY <1>1, <1>2, <1>3 DEF Running
  <1>5. KeptApart'
    BY <1>1 DEF IInv, KeptApart
  <1> QED
    BY <1>1, <1>4, <1>5 DEF IInv

LEMMA RevertBegins_IInv == IInv /\ RevertBegins => IInv'
  <1> SUFFICES ASSUME IInv, RevertBegins PROVE IInv'
    OBVIOUS
  <1>1. /\ txn' = [open |-> TRUE, up |-> FALSE, at |-> log, todo |-> Down[log],
                   schema |-> schema, locked |-> FALSE]
        /\ UNCHANGED <<schema, log, rows, container>> /\ log \in 1 .. 3
    BY DEF RevertBegins, Begin, IInv
  <1>2. Stage(FALSE, log, Down[log], schema)
    BY <1>1, Plans DEF IInv, Fits, Stage, Removing, Opening, Closing
  <1>3. Running'
    BY <1>1, <1>2 DEF Running
  <1>4. KeptApart'
    BY <1>1 DEF IInv, KeptApart
  <1> QED
    BY <1>1, <1>3, <1>4 DEF IInv

LEMMA Statement_IInv == IInv /\ Statement => IInv'
  <1> SUFFICES ASSUME IInv, Statement PROVE IInv'
    OBVIOUS
  <1> DEFINE stmt == Head(txn.todo)
  <1>1. /\ Running /\ txn.todo # <<>> /\ Possible(txn.schema, stmt)
        /\ UNCHANGED <<schema, log, rows, container>>
    BY DEF Statement, IInv, NoTxn
  <1>2. txn' = [open |-> TRUE, up |-> txn.up, at |-> txn.at, todo |-> Tail(txn.todo),
                schema |-> After(txn.schema, stmt),
                locked |-> txn.locked \/ stmt.object \in {"user", "UQ_email", "FK_video", "FK_refresh_token"}]
    BY <1>1 DEF Statement, Done, Running
  <1>3. /\ Stage(txn.up, txn.at, Tail(txn.todo), After(txn.schema, stmt))
        /\ stmt = Create("UQ_email") => Unique(rows)
        /\ "UQ_email" \in After(txn.schema, stmt) \ txn.schema =>
              stmt = Create("UQ_email") \/ (txn.at = 1 /\ txn.up)
    BY <1>1, StageStep DEF Running
  <1>4. Running'
    BY <1>1, <1>2, <1>3 DEF Running
  <1>5. "UQ_email" \in txn'.schema =>
           Unique(rows) /\ ("UQ_email" \in schema \/ txn'.locked \/ log = 0)
    <2> SUFFICES ASSUME "UQ_email" \in After(txn.schema, stmt)
                 PROVE  Unique(rows) /\ ("UQ_email" \in schema \/ txn'.locked \/ log = 0)
      BY <1>2
    <2>1. CASE "UQ_email" \in txn.schema
      BY <2>1, <1>1, <1>2 DEF IInv, KeptApart, Running
    <2>2. CASE stmt = Create("UQ_email")
      <3>1. stmt.object = "UQ_email"
        BY <2>2 DEF Create
      <3> HIDE DEF stmt
      <3> QED
        BY <2>2, <3>1, <1>2, <1>3
    <2>3. CASE txn.at = 1 /\ txn.up
      BY <2>3, <1>1 DEF IInv, KeptApart, Running, Unique
    <2> QED
      BY <2>1, <2>2, <2>3, <1>3
  <1>6. KeptApart'
    BY <1>1, <1>2, <1>5 DEF IInv, KeptApart, Unique
  <1> QED
    BY <1>1, <1>4, <1>6 DEF IInv

LEMMA NextMigration_IInv == IInv /\ NextMigration => IInv'
  <1> SUFFICES ASSUME IInv, NextMigration PROVE IInv'
    OBVIOUS
  <1> DEFINE at == txn.at + 1
  <1>1. /\ Running /\ txn.todo = <<>> /\ txn.up
        /\ UNCHANGED <<schema, log, rows, container>>
    BY DEF NextMigration, IInv, NoTxn
  <1>2. txn.at \in 1 .. 2 /\ log < at
    BY <1>1, Plans DEF NextMigration, Running, IInv
  <1>3. txn' = [open |-> TRUE, up |-> txn.up, at |-> at, todo |-> Up[at],
                schema |-> txn.schema, locked |-> txn.locked]
    BY <1>1 DEF NextMigration, Running
  <1>4. Stage(txn.up, at, Up[at], txn.schema)
    <2>1. Stage(txn.up, txn.at, <<>>, txn.schema)
      BY <1>1 DEF Running
    <2>2. CASE txn.at = 1
      <3>1. txn.schema = Objects
        BY <1>1, <2>1, <2>2, StageEnds DEF Running
      <3>2. at = 2 /\ Up[at] = DropsUnique
        BY <2>2, Plans
      <3> QED
        BY <1>1, <3>1, <3>2 DEF Stage, Opening
    <2>3. CASE txn.at = 2
      <3>1. txn.schema = Objects \ {"UQ_email"}
        BY <1>1, <2>1, <2>3, StageEnds DEF Running
      <3>2. at = 3 /\ Up[at] = AddsUnique
        BY <2>3, Plans
      <3> QED
        BY <1>1, <3>1, <3>2 DEF Stage, Closing
    <2> QED
      BY <1>2, <2>2, <2>3
  <1>5. at \in 1 .. 3
    BY <1>2
  <1> HIDE DEF at
  <1>6. Running'
    BY <1>1, <1>2, <1>3, <1>4, <1>5 DEF Running
  <1>7. KeptApart'
    BY <1>1, <1>3 DEF IInv, KeptApart, Running, Unique
  <1> QED
    BY <1>1, <1>6, <1>7 DEF IInv

LEMMA Commit_IInv == IInv /\ Commit => IInv'
  <1> SUFFICES ASSUME IInv, Commit PROVE IInv'
    OBVIOUS
  <1> DEFINE version == IF txn.up THEN txn.at ELSE txn.at - 1
  <1>1. /\ Running /\ txn.todo = <<>> /\ (txn.up => txn.at = 3)
        /\ schema' = txn.schema /\ log' = version
        /\ rows' = IF "user" \in txn.schema THEN rows ELSE [e \in Emails |-> 0]
        /\ txn' = NoTxn /\ container' = "serving"
    BY Plans DEF Commit, IInv, NoTxn
  <1>2. Stage(txn.up, txn.at, <<>>, txn.schema)
    BY <1>1 DEF Running
  <1>3. version \in 0 .. 3 /\ Fits(version, txn.schema)
    BY <1>1, <1>2, StageEnds DEF Fits, Running
  <1>4. "user" \in txn.schema <=> version # 0
    BY <1>3 DEF Fits, Objects, Tables
  <1>5. rows' \in [Emails -> 0 .. MaxRows]
    BY <1>1, RowsAssumption DEF IInv
  <1>6. version = 0 => rows' = [e \in Emails |-> 0]
    BY <1>1, <1>4
  <1>7. "UQ_email" \in txn.schema => Unique(rows')
    BY <1>1 DEF IInv, KeptApart, Unique, Running
  <1> HIDE DEF version
  <1>8. KeptApart'
    BY <1>1, <1>6, <1>7 DEF KeptApart, NoTxn, Unique
  <1> QED
    BY <1>1, <1>3, <1>5, <1>8 DEF IInv

LEMMA Rollback_IInv == IInv /\ Rollback => IInv'
  BY DEF Rollback, AfterFailure, IInv, KeptApart, NoTxn, Unique

LEMMA Insert_IInv == ASSUME IInv, NEW e \in Emails, Insert(e) PROVE IInv'
  <1>1. rows' \in [Emails -> 0 .. MaxRows]
    BY RowsAssumption DEF Insert, IInv
  <1>2. log # 0
    BY DEF Insert, IInv, Fits
  <1>3. "UQ_email" \in schema => Unique(rows)'
    BY DEF Insert, IInv, KeptApart, Unique
  <1>4. txn.open /\ "UQ_email" \in txn.schema => "UQ_email" \in schema
    BY <1>2 DEF Insert, IInv, KeptApart
  <1>5. KeptApart'
    BY <1>2, <1>3, <1>4 DEF Insert, KeptApart, Unique
  <1>6. Running => Running'
    BY DEF Insert, Running
  <1> QED
    BY <1>1, <1>5, <1>6 DEF Insert, IInv

LEMMA Next_IInv == IInv /\ [Next]_vars => IInv'
  <1> SUFFICES ASSUME IInv, [Next]_vars PROVE IInv'
    OBVIOUS
  <1>1. CASE RunFindsNothing
    BY <1>1 DEF RunFindsNothing, IInv, KeptApart, Running, Unique
  <1>2. CASE Restart
    BY <1>2 DEF Restart, IInv, KeptApart, NoTxn, Unique
  <1>3. CASE UNCHANGED vars
    BY <1>3 DEF vars, IInv, KeptApart, Running, Unique
  <1> QED
    BY <1>1, <1>2, <1>3, RunBegins_IInv, RevertBegins_IInv, Statement_IInv, NextMigration_IInv,
       Commit_IInv, Rollback_IInv, Insert_IInv
    DEF Next, Command, Refused, ConnectionLost

(* The inductive invariant, from which the theorems below follow.          *)
THEOREM Inductive == Spec => []IInv
  BY Init_IInv, Next_IInv, PTL DEF Spec

-----------------------------------------------------------------------------
(* The types of the schema, the log, the rows and the transaction.         *)
THEOREM SchemaTypes == Spec => []TypeOK
  <1>1. IInv => TypeOK
    <2> SUFFICES ASSUME IInv PROVE TypeOK
      OBVIOUS
    <2>1. schema \subseteq Objects
      BY DEF IInv, Fits, Objects, Tables
    <2>2. txn.open => txn.schema \subseteq Objects /\ txn.at \in 1 .. Len(Up)
      BY StageObjects, Plans DEF IInv, NoTxn, Running
    <2> QED
      BY <2>1, <2>2, Plans DEF TypeOK, IInv
  <1> QED
    BY <1>1, Inductive, PTL

(* Whatever fails, the committed schema is the one of the migrations that  *)
(* the log records.                                                        *)
THEOREM LogTellsTheSchema == Spec => []SchemaIsTheLogs
  <1>1. IInv => SchemaIsTheLogs
    BY DEF IInv, Fits, SchemaIsTheLogs
  <1> QED
    BY <1>1, Inductive, PTL

(* A migration is refused only where it puts UNIQUE(email) back over rows  *)
(* that share an address.                                                  *)
THEOREM MigrationsApply == Spec => []OnlyDuplicatesRefuse
  <1>1. IInv => OnlyDuplicatesRefuse
    <2> SUFFICES ASSUME IInv, txn.open, txn.todo # <<>>, ~Possible(txn.schema, Head(txn.todo))
                 PROVE  Head(txn.todo) = Create("UQ_email") /\ ~Unique(rows)
      BY DEF OnlyDuplicatesRefuse
    <2>1. Stage(txn.up, txn.at, txn.todo, txn.schema) /\ txn.up \in BOOLEAN
      BY DEF IInv, NoTxn, Running
    <2> QED
      BY <2>1, StageStep
  <1> QED
    BY <1>1, Inductive, PTL

(* A fully migrated database keeps addresses apart, although rows may have *)
(* come in while the constraint was away.                                  *)
THEOREM MigratedMeansUnique == Spec => []AddressesAreUnique
  <1>1. IInv => AddressesAreUnique
    BY Plans DEF IInv, Fits, KeptApart, AddressesAreUnique, Objects
  <1> QED
    BY <1>1, Inductive, PTL

(* A commit is an upgrade or a downgrade of the whole database, and every  *)
(* other step but an insertion is hidden from who uses it.                 *)
LEMMA CommitIsOneStep ==
    ASSUME IInv, Commit
    PROVE  Promise!Upgrade \/ Promise!Downgrade
  <1>1. /\ Running /\ txn.todo = <<>> /\ (txn.up => txn.at = 3)
        /\ schema' = txn.schema /\ log' = IF txn.up THEN txn.at ELSE txn.at - 1
        /\ rows' = IF "user" \in txn.schema THEN rows ELSE [e \in Emails |-> 0]
    BY Plans DEF Commit, IInv, NoTxn
  <1>2. Stage(txn.up, txn.at, <<>>, txn.schema)
    BY <1>1 DEF Running
  <1>3. "UQ_email" \in txn.schema => \A e \in Emails : rows[e] <= 1
    BY DEF Commit, IInv, KeptApart, Unique
  <1>4. CASE txn.up
    <2>1. txn.schema = Objects /\ log' = 3 /\ log < 3
      BY <1>1, <1>2, <1>4, StageEnds DEF Running
    <2>2. "UQ_email" \in schema' /\ rows' = rows /\ \A e \in Emails : rows[e] <= 1
      BY <1>1, <1>3, <2>1 DEF Objects, Tables
    <2> QED
      BY <2>1, <2>2 DEF Promise!Upgrade, Promise!Latest, Promise!Single
  <1>5. CASE ~txn.up
    <2>1. txn.at = log /\ log' = log - 1 /\ log \in 1 .. 3
      BY <1>1, <1>5 DEF Running
    <2>2. /\ "UQ_email" \in schema' <=> log' \in {1, 3}
          /\ "user" \in schema' <=> log' # 0
      BY <1>1, <1>2, <1>5, <2>1, StageEnds DEF Running, Objects, Tables
    <2> QED
      BY <1>1, <1>3, <2>1, <2>2
      DEF Promise!Downgrade, Promise!Guarded, Promise!Single, Promise!Nobody
  <1> QED
    BY <1>4, <1>5

(* The database implements Migrations.                                     *)
THEOREM Refinement == Spec => ImplementsMigrations
  <1>1. Init => Promise!Init
    BY DEF Init, Promise!Init, Promise!Nobody
  <1>2. IInv /\ [Next]_vars => [Promise!Next]_(Promise!vars)
    <2> SUFFICES ASSUME IInv, [Next]_vars
                 PROVE  Promise!Next \/ UNCHANGED <<log, schema, rows>>
      BY DEF Promise!vars
    <2>1. CASE Commit
      BY <2>1, CommitIsOneStep DEF Promise!Next
    <2>2. ASSUME NEW e \in Emails, Insert(e) PROVE Promise!Insert(e)
      <3>1. log > 0
        BY <2>2 DEF Insert, IInv, Fits
      <3> QED
        BY <2>2, <3>1 DEF Insert, Promise!Insert
    <2>3. CASE (Command /\ ~Commit) \/ RevertBegins \/ ConnectionLost \/ Restart
      BY <2>3 DEF Command, RunBegins, RunFindsNothing, Statement, NextMigration, Refused,
                  RevertBegins, ConnectionLost, Restart, Rollback
    <2>4. CASE UNCHANGED vars
      BY <2>4 DEF vars
    <2> QED
      BY <2>1, <2>2, <2>3, <2>4 DEF Next, Command, Promise!Next
  <1> QED
    BY <1>1, <1>2, Inductive, PTL DEF Spec, ImplementsMigrations, Promise!Spec
=============================================================================
