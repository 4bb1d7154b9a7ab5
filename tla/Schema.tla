------------------------------ MODULE Schema ------------------------------
(***************************************************************************)
(* The three migrations, `typeorm migration:run` at every start of the     *)
(* container and `migration:revert` by hand, while rows come into table    *)
(* "user" from elsewhere.  A schema is the set of the names of its objects.*)
(***************************************************************************)
EXTENDS Integers, Sequences

CONSTANTS Emails, MaxRows   \* bound on the rows with one address

ASSUME RowsAssumption == MaxRows \in Nat

VARIABLES schema,     \* committed objects
          log,        \* how many migrations table `migrations` records
          rows,       \* how many rows of "user" have the address
          txn,        \* the open transaction of the migration command, or NoTxn
          container   \* "migrating" or "serving", the two commands of its CMD

vars == <<schema, log, rows, txn, container>>

-----------------------------------------------------------------------------
Create(object)   == [do |-> "create", object |-> object]
Drop(object)     == [do |-> "drop", object |-> object]
DropIfAny(object) == [do |-> "drop_if_exists", object |-> object]

InitUpOnce == <<Create("user_role_enum"), Create("video"), Create("user"),
                Create("refresh_token"), Create("FK_video"), Create("FK_refresh_token")>>
InitUp   == <<DropIfAny("user_role_enum"), Create("user_role_enum"), Create("video"), Create("user"),
              Create("refresh_token"), Create("FK_video"), Create("FK_refresh_token")>>
InitDown == <<Drop("FK_refresh_token"), Drop("FK_video"),
              Drop("refresh_token"), Drop("user"), Drop("video")>>

DropsUnique == <<Drop("UQ_email")>>
AddsIndex   == <<Create("IDX_email")>>
AddsUnique  == <<Create("UQ_email")>>

Up   == <<InitUp, DropsUnique, AddsUnique>>
Down == <<InitDown, AddsUnique, DropsUnique>>

(* "user" is created with its constraint, and takes it along.              *)
After(S, stmt) ==
    LET objects == IF stmt.object = "user" THEN {"user", "UQ_email"} ELSE {stmt.object}
    IN  IF stmt.do = "create" THEN S \cup objects ELSE S \ objects

Tables  == {"video", "user", "refresh_token"}
Objects == Tables \cup {"user_role_enum", "FK_video", "FK_refresh_token", "UQ_email"}

(* object cannot stand without other.                                      *)
RestsOn(object, other) ==
    \/ object = "user" /\ other = "user_role_enum"
    \/ object = "UQ_email" /\ other = "user"
    \/ object = "FK_video" /\ other \in {"video", "user"}
    \/ object = "FK_refresh_token" /\ other \in {"refresh_token", "user"}

Unique(table) == \A e \in Emails : table[e] <= 1

Possible(S, stmt) ==
    \/ /\ stmt.do = "create" /\ stmt.object \notin S
       /\ \A other \in Objects : RestsOn(stmt.object, other) => other \in S
       /\ stmt.object = "UQ_email" => Unique(rows)
    \/ /\ stmt.do = "drop" /\ stmt.object \in S
       /\ \A other \in S \ {"UQ_email"} : ~RestsOn(other, stmt.object)
    \/ /\ stmt.do = "drop_if_exists"
       /\ \A other \in S : ~RestsOn(other, stmt.object)

-----------------------------------------------------------------------------
NoTxn == [open |-> FALSE]

Init ==
    /\ schema = {} /\ log = 0 /\ rows = [e \in Emails |-> 0]
    /\ txn = NoTxn /\ container = "migrating"

(* todo: the statements left of migration `at`; locked: it has touched the *)
(* table "user".                                                           *)
Begin(up, at, todo) ==
    txn' = [open |-> TRUE, up |-> up, at |-> at, todo |-> todo, schema |-> schema, locked |-> FALSE]

RunBegins ==
    /\ container = "migrating" /\ ~txn.open /\ log < Len(Up)
    /\ Begin(TRUE, log + 1, Up[log + 1])
    /\ UNCHANGED <<schema, log, rows, container>>

RunFindsNothing ==
    /\ container = "migrating" /\ ~txn.open /\ log = Len(Up)
    /\ container' = "serving"
    /\ UNCHANGED <<schema, log, rows, txn>>

RevertBegins ==
    /\ container = "serving" /\ ~txn.open /\ log > 0
    /\ Begin(FALSE, log, Down[log])
    /\ UNCHANGED <<schema, log, rows, container>>

Done(stmt) ==
    [txn EXCEPT !.todo = Tail(@), !.schema = After(@, stmt),
                !.locked = @ \/ stmt.object \in {"user", "UQ_email", "FK_video", "FK_refresh_token"}]

StatementCommits ==
    /\ txn.open /\ txn.todo # <<>> /\ Possible(txn.schema, Head(txn.todo))
    /\ txn' = Done(Head(txn.todo)) /\ schema' = txn'.schema
    /\ UNCHANGED <<log, rows, container>>

Statement ==
    /\ txn.open /\ txn.todo # <<>> /\ Possible(txn.schema, Head(txn.todo))
    /\ txn' = Done(Head(txn.todo))
    /\ UNCHANGED <<schema, log, rows, container>>

NextMigrationCommits ==
    /\ txn.open /\ txn.todo = <<>> /\ txn.up /\ txn.at < Len(Up)
    /\ txn' = [txn EXCEPT !.at = @ + 1, !.todo = Up[txn.at + 1]]
    /\ schema' = txn.schema /\ log' = txn.at
    /\ UNCHANGED <<rows, container>>

(* All pending migrations share one transaction.                           *)
NextMigration ==
    /\ txn.open /\ txn.todo = <<>> /\ txn.up /\ txn.at < Len(Up)
    /\ txn' = [txn EXCEPT !.at = @ + 1, !.todo = Up[txn.at + 1]]
    /\ UNCHANGED <<schema, log, rows, container>>

Commit ==
    /\ txn.open /\ txn.todo = <<>> /\ (txn.up => txn.at = Len(Up))
    /\ schema' = txn.schema
    /\ log' = IF txn.up THEN txn.at ELSE txn.at - 1
    /\ rows' = IF "user" \in txn.schema THEN rows ELSE [e \in Emails |-> 0]
    /\ txn' = NoTxn /\ container' = "serving"

(* The shell starts the server when migration:run has ended, whatever      *)
(* became of it.                                                           *)
NothingAfterFailure == "stopped"
AfterFailure == "serving"

Rollback == txn' = NoTxn /\ container' = AfterFailure /\ UNCHANGED <<schema, log, rows>>

Refused == txn.open /\ txn.todo # <<>> /\ ~Possible(txn.schema, Head(txn.todo)) /\ Rollback

ConnectionLost == (txn.open \/ container = "migrating") /\ Rollback

(* docker run --restart always.  A revert by hand is not under way then.   *)
Restart ==
    /\ ~(container = "serving" /\ txn.open)
    /\ txn' = NoTxn /\ container' = "migrating"
    /\ UNCHANGED <<schema, log, rows>>

(* psql, or a release of the server that knew the table.                   *)
Insert(e) ==
    /\ "user" \in schema /\ ~(txn.open /\ txn.locked)
    /\ rows[e] < MaxRows /\ ("UQ_email" \in schema => rows[e] = 0)
    /\ rows' = [rows EXCEPT ![e] = @ + 1]
    /\ UNCHANGED <<schema, log, txn, container>>

Command == RunBegins \/ RunFindsNothing \/ Statement \/ NextMigration \/ Commit \/ Refused

Next ==
    \/ Command \/ RevertBegins \/ ConnectionLost \/ Restart
    \/ \E e \in Emails : Insert(e)

Spec == Init /\ [][Next]_vars /\ WF_vars(Command)

-----------------------------------------------------------------------------
TypeOK ==
    /\ schema \subseteq Objects /\ log \in 0 .. Len(Up)
    /\ rows \in [Emails -> 0 .. MaxRows]
    /\ container \in {"migrating", "serving"}
    /\ txn.open => txn.schema \subseteq Objects /\ txn.at \in 1 .. Len(Up)

(* Whatever fails in a migration, the committed schema is the one of the   *)
(* migrations that the log records, and nothing in between; only the type  *)
(* may outlive a revert (ormconfig.ts:58-61, migrations).                  *)
SchemaIsTheLogs ==
    /\ log = 0 => schema \subseteq {"user_role_enum"}
    /\ log = 2 => schema = Objects \ {"UQ_email"}
    /\ log \in {1, 3} => schema = Objects

(* A migration, in either direction and from any point that reverts can    *)
(* reach, is refused only where it puts UNIQUE(email) back over rows that  *)
(* share an address (1684675369290-UpdateUserTable.ts:11,                  *)
(* 1684675405180-UpdateUserTable.ts:7).                                    *)
OnlyDuplicatesRefuse ==
    txn.open /\ txn.todo # <<>> /\ ~Possible(txn.schema, Head(txn.todo)) =>
        Head(txn.todo) = Create("UQ_email") /\ ~Unique(rows)

(* What sign-up relies on: a fully migrated database keeps addresses       *)
(* apart, although rows may come in while the constraint is away           *)
(* (auth.service.ts:128, 1684675369290-UpdateUserTable.ts:7).              *)
AddressesAreUnique == log = Len(Up) => Unique(rows)

(* Seen from outside its transactions the database implements Migrations   *)
(* (1684675308359-Init.ts:9, dockerfile:31).                               *)
Promise == INSTANCE Migrations WITH version <- log, guarded <- "UQ_email" \in schema
ImplementsMigrations == Promise!Spec

(* Unless the container is restarted again and again, its server runs,     *)
(* also over migrations that cannot be applied (dockerfile:31).            *)
ServerStarts == []<>(container = "serving") \/ []<><<Restart>>_vars

(* The tables of the entities are those that the migrations leave          *)
(* (app.module.ts:51, user.entity.ts:54).                                  *)
EntityTables == {"users", "refresh_token", "video"}
EntityTablesExist == log = Len(Up) /\ container = "serving" => EntityTables \subseteq schema
=============================================================================
