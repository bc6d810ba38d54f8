------------------------------- MODULE HaSchema --------------------------------
(* The tables of the HA layer: the migration that makes and drops them        *)
(* (migrations/versions/001_initial_ha_schema.py, migrations/env.py), the      *)
(* contract and its validation (opsswarm/ha_schema.py), and what the           *)
(* statements of opsswarm/ha_db.py need.  Somebody may alter the tables by     *)
(* hand between migrations.                                                   *)
EXTENDS Naturals, Sequences, FiniteSets, FiniteSetsExt, SequencesExt, TLC

CONSTANT MaxDrifts   \* bound on the changes by hand

ASSUME SchemaConstants == MaxDrifts \in Nat

VARIABLES
  db,          \* the tables: a function from names to tables
  revision,    \* alembic_version: "none" or "001"
  migration,   \* [running, left, draft]: a migration is one transaction
  refused,     \* ghost: PostgreSQL has refused a statement of a migration
  drifts       \* ghost: changes made by hand so far
schemaVars == <<db, revision, migration, refused, drifts>>

(* ----------------------------- the contract ------------------------------- *)

\* A type shows in the rendering of a column as the tokens that are part of it.
Tokens(type) ==
  CASE type = "text" -> {"TEXT"} [] type = "integer" -> {"INTEGER"}
    [] type = "bigint" -> {"BIGINT"} [] type = "jsonb" -> {"JSONB"}
    [] type \in {"timestamptz", "timestamp"} -> {"TIMESTAMP"} [] OTHER -> {}

Expected(token) == [token |-> token, dims |-> 0, nullable |-> FALSE]
Optional(column) == [column EXCEPT !.nullable = TRUE]
Text == Expected("TEXT")
Int32 == Expected("INTEGER")
Int64 == Expected("BIGINT")
Json == Expected("JSONB")
Time == Expected("TIMESTAMP")

ToRun == {[columns |-> <<"run_id">>, table |-> "runs", referred |-> <<"run_id">>,
           ondelete |-> "CASCADE"]}
TableSpec(columns, key, fks, uniques, checks, indexes) ==
  [columns |-> columns, key |-> key, fks |-> fks, uniques |-> uniques, checks |-> checks,
   indexes |-> indexes]

Contract == [
  runs |-> TableSpec(
    [run_id |-> Text, issue_number |-> Int32, state |-> Text, revision |-> Int32,
     run_data |-> Json, idempotency_keys |-> [Text EXCEPT !.dims = 1],
     command_outcomes |-> Json, created_at |-> Time, updated_at |-> Time],
    <<"run_id">>, {}, {}, {}, {"idx_runs_issue"}),
  run_leases |-> TableSpec(
    [run_id |-> Text, owner_id |-> Text, epoch |-> Int64, expires_at |-> Time],
    <<"run_id">>, ToRun, {}, {"run_leases_epoch_positive"}, {}),
  lease_takeover_authorisations |-> TableSpec(
    [run_id |-> Text, observed_epoch |-> Int64, approved_by |-> Text, reason |-> Text,
     authorised_at |-> Time, consumed_epoch |-> Optional(Int64)],
    <<"run_id", "observed_epoch">>, ToRun, {}, {}, {}),
  external_side_effect_intents |-> TableSpec(
    [intent_key |-> Text, run_id |-> Text, operation |-> Text, target_ref |-> Text,
     request_digest |-> Text, state |-> Text, epoch |-> Int64,
     outcome_detail |-> Optional(Json), created_at |-> Time, resolved_at |-> Optional(Time)],
    <<"intent_key">>, ToRun, {}, {}, {"idx_side_effect_intents_run"}),
  evidence |-> TableSpec(
    [id |-> Text, run_id |-> Text, kind |-> Text, payload |-> Json, signature |-> Text,
     event_timestamp |-> Time, idempotency_key |-> Optional(Text)],
    <<"id">>, ToRun, {<<"run_id", "id">>}, {}, {"idx_evidence_run", "idx_evidence_sig"}),
  rate_limit_buckets |-> TableSpec(
    [key |-> Text, window_start |-> Time, hits |-> Int32, window_seconds |-> Int32],
    <<"key", "window_start">>, {}, {}, {}, {}),
  checkpoints |-> TableSpec(
    [run_id |-> Text, checkpoint_type |-> Text, payload |-> Json, sequence |-> Int32,
     created_at |-> Time],
    <<"run_id", "sequence">>, ToRun, {}, {}, {}),
  seen_delivery_keys |-> TableSpec(
    [delivery_id |-> Text, run_id |-> Text, seen_at |-> Time],
    <<"delivery_id">>, {}, {}, {}, {})]

(* ------------------------------- validation ------------------------------- *)

TypeMatches(spec, column) == spec.dims = column.dims /\ spec.token \in Tokens(column.type)
TimeDependent(check) == check.onExpiry /\ check.readsClock

\* The columns of the key in any order; a form named ...Bug is what a check must notice.
KeyDeviatesBug(table, spec) == Range(table.key) \cap Range(spec.key) = {}
KeyDeviates(table, spec) == table.key # spec.key

ColumnDeviations(table, spec) ==
  {<<"missing_column", c>> : c \in DOMAIN spec.columns \ DOMAIN table.columns}
  \cup {<<"column_type", c>> : c \in {c \in DOMAIN spec.columns \cap DOMAIN table.columns :
                                  ~TypeMatches(spec.columns[c], table.columns[c])}}
  \cup {<<"column_nullability", c>> : c \in {c \in DOMAIN spec.columns \cap DOMAIN table.columns :
                                  spec.columns[c].nullable # table.columns[c].nullable}}
ReferenceDeviations(table, spec) ==
  {<<IF \E g \in table.fks : [g EXCEPT !.ondelete = f.ondelete] = f
     THEN "foreign_key_delete_action" ELSE "missing_foreign_key", f.table>> :
       f \in spec.fks \ table.fks}

Deviations(table, spec) ==
  ColumnDeviations(table, spec)
  \cup (IF KeyDeviates(table, spec) THEN {<<"primary_key", spec.key>>} ELSE {})
  \cup ReferenceDeviations(table, spec)
  \cup {<<"missing_unique_constraint", u>> : u \in spec.uniques \ table.uniques}
  \cup {<<"missing_check_constraint", k>> : k \in spec.checks \ DOMAIN table.checks}
  \cup {<<"time_dependent_check", k>> : k \in {k \in DOMAIN table.checks :
                                                 TimeDependent(table.checks[k])}}
  \cup {<<"missing_index", i>> : i \in spec.indexes \ DOMAIN table.indexes}

\* validate_ha_schema: all that a live database lacks, table by table.
Report(live) ==
  UNION {IF t \in DOMAIN live THEN Deviations(live[t], Contract[t]) ELSE {<<"missing_table", t>>} :
           t \in DOMAIN Contract}

(* ------------------------------ the migration ----------------------------- *)

Columns(type, names) == [c \in names |-> [type |-> type, dims |-> 0]]
Table(columns, optional, defaulted, key, fks, uniques, checks) ==
  [columns |-> [c \in DOMAIN columns |->
                  columns[c] @@ [nullable |-> c \in optional, default |-> c \in defaulted]],
   key |-> key, fks |-> fks, uniques |-> uniques, checks |-> checks, indexes |-> <<>>]

Create(table, definition) == [op |-> "create", table |-> table, definition |-> definition]
Index(index, table, columns) ==
  [op |-> "index", table |-> table, index |-> index, columns |-> columns]
DropIndex(index, table) == [op |-> "drop index", table |-> table, index |-> index]
Drop(table) == [op |-> "drop", table |-> table]
NoChecks == <<>>

Upgrade == <<
  Create("runs", Table(
    Columns("text", {"run_id", "state"}) @@ Columns("integer", {"issue_number", "revision"})
      @@ Columns("jsonb", {"run_data", "command_outcomes"})
      @@ Columns("timestamptz", {"created_at", "updated_at"})
      @@ "idempotency_keys" :> [type |-> "text", dims |-> 1],
    {}, {"revision", "idempotency_keys", "command_outcomes", "created_at", "updated_at"},
    <<"run_id">>, {}, {}, NoChecks)),
  Index("idx_runs_issue", "runs", {"issue_number"}),
  Create("run_leases", Table(
    Columns("text", {"run_id", "owner_id"}) @@ Columns("bigint", {"epoch"})
      @@ Columns("timestamptz", {"expires_at"}),
    {}, {"epoch"}, <<"run_id">>, ToRun, {},
    "run_leases_epoch_positive" :> [onExpiry |-> FALSE, readsClock |-> FALSE])),
  Create("lease_takeover_authorisations", Table(
    Columns("text", {"run_id", "approved_by", "reason"})
      @@ Columns("bigint", {"observed_epoch", "consumed_epoch"})
      @@ Columns("timestamptz", {"authorised_at"}),
    {"consumed_epoch"}, {"authorised_at"}, <<"run_id", "observed_epoch">>, ToRun, {}, NoChecks)),
  Create("external_side_effect_intents", Table(
    Columns("text", {"intent_key", "run_id", "operation", "target_ref", "request_digest",
                     "state"})
      @@ Columns("bigint", {"epoch"}) @@ Columns("jsonb", {"outcome_detail"})
      @@ Columns("timestamptz", {"created_at", "resolved_at"}),
    {"outcome_detail", "resolved_at"}, {"created_at"}, <<"intent_key">>, ToRun, {}, NoChecks)),
  Index("idx_side_effect_intents_run", "external_side_effect_intents", {"run_id", "state"}),
  Create("evidence", Table(
    Columns("text", {"id", "run_id", "kind", "signature", "idempotency_key"})
      @@ Columns("jsonb", {"payload"}) @@ Columns("timestamptz", {"event_timestamp"}),
    {"idempotency_key"}, {"event_timestamp"}, <<"id">>, ToRun, {<<"run_id", "id">>}, NoChecks)),
  Index("idx_evidence_run", "evidence", {"run_id"}),
  Index("idx_evidence_sig", "evidence", {"run_id", "signature"}),
  Create("rate_limit_buckets", Table(
    Columns("text", {"key"}) @@ Columns("integer", {"hits", "window_seconds"})
      @@ Columns("timestamptz", {"window_start"}),
    {}, {"hits", "window_seconds"}, <<"key", "window_start">>, {}, {}, NoChecks)),
  Create("checkpoints", Table(
    Columns("text", {"run_id", "checkpoint_type"}) @@ Columns("jsonb", {"payload"})
      @@ Columns("integer", {"sequence"}) @@ Columns("timestamptz", {"created_at"}),
    {}, {"sequence", "created_at"}, <<"run_id", "sequence">>, ToRun, {}, NoChecks)),
  Create("seen_delivery_keys", Table(
    Columns("text", {"delivery_id", "run_id"}) @@ Columns("timestamptz", {"seen_at"}),
    {}, {"seen_at"}, <<"delivery_id">>, {}, {}, NoChecks)) >>

\* Sorted by name, what others refer to goes too early.
DowngradeBug == <<
  Drop("seen_delivery_keys"), Drop("runs"), Drop("run_leases"), Drop("rate_limit_buckets"),
  Drop("lease_takeover_authorisations"), Drop("external_side_effect_intents"),
  Drop("evidence"), Drop("checkpoints") >>
Downgrade == <<
  Drop("seen_delivery_keys"), Drop("checkpoints"), Drop("rate_limit_buckets"),
  DropIndex("idx_evidence_sig", "evidence"), DropIndex("idx_evidence_run", "evidence"),
  Drop("evidence"),
  DropIndex("idx_side_effect_intents_run", "external_side_effect_intents"),
  Drop("external_side_effect_intents"), Drop("lease_takeover_authorisations"),
  Drop("run_leases"), DropIndex("idx_runs_issue", "runs"), Drop("runs") >>

(* ------------------------------- PostgreSQL ------------------------------- *)

HasIndex(live, index) == \E t \in DOMAIN live : index \in DOMAIN live[t].indexes
Referred(live, table) ==
  \E t \in DOMAIN live \ {table} : \E f \in live[t].fks : f.table = table

\* A foreign key needs a unique key to refer to; a table that is referred to stays.
Possible(live, s) ==
  CASE s.op = "create" ->
         /\ s.table \notin DOMAIN live
         /\ \A f \in s.definition.fks : f.table \in DOMAIN live /\ live[f.table].key = f.referred
    [] s.op = "index" ->
         /\ s.table \in DOMAIN live /\ s.columns \subseteq DOMAIN live[s.table].columns
         /\ ~HasIndex(live, s.index)
    [] s.op = "drop index" -> HasIndex(live, s.index)
    [] s.op = "drop" -> s.table \in DOMAIN live /\ ~Referred(live, s.table)

WithoutKeys(f, keys) == [x \in DOMAIN f \ keys |-> f[x]]

Effect(live, s) ==
  CASE s.op = "create" -> live @@ s.table :> s.definition
    [] s.op = "index" -> [live EXCEPT ![s.table].indexes = @ @@ s.index :> s.columns]
    [] s.op = "drop index" -> [t \in DOMAIN live |->
                                 [live[t] EXCEPT !.indexes = WithoutKeys(@, {s.index})]]
    [] s.op = "drop" -> WithoutKeys(live, {s.table})

NoMigration == [running |-> "none", left |-> <<>>, draft |-> <<>>]

SchemaInit ==
  /\ db = <<>> /\ revision = "none" /\ migration = NoMigration
  /\ refused = FALSE /\ drifts = 0

\* run_migrations_online: alembic compares revisions, then opens one transaction.
BeginMigration ==
  /\ migration = NoMigration
  /\ migration' = IF revision = "none"
                  THEN [running |-> "upgrade", left |-> Upgrade, draft |-> db]
                  ELSE [running |-> "downgrade", left |-> Downgrade, draft |-> db]
  /\ UNCHANGED <<db, revision, refused, drifts>>

Statement ==
  /\ migration.left # <<>> /\ Possible(migration.draft, Head(migration.left))
  /\ migration' = [migration EXCEPT !.left = Tail(@),
                                   !.draft = Effect(@, Head(migration.left))]
  /\ UNCHANGED <<db, revision, refused, drifts>>

\* A statement that is refused, like a lost connection, rolls everything back.
Refuse ==
  /\ migration.left # <<>> /\ ~Possible(migration.draft, Head(migration.left))
  /\ migration' = NoMigration /\ refused' = TRUE
  /\ UNCHANGED <<db, revision, drifts>>
LoseConnection ==
  /\ migration # NoMigration /\ migration' = NoMigration
  /\ UNCHANGED <<db, revision, refused, drifts>>

CommitMigration ==
  /\ migration # NoMigration /\ migration.left = <<>>
  /\ db' = migration.draft /\ migration' = NoMigration
  /\ revision' = IF migration.running = "upgrade" THEN "001" ELSE "none"
  /\ UNCHANGED <<refused, drifts>>

(* ---------------------------- changes by hand ----------------------------- *)

InUse(t, c) ==
  \/ c \in Range(t.key) \/ \E u \in t.uniques : c \in Range(u)
  \/ \E f \in t.fks : c \in Range(f.columns)
  \/ \E i \in DOMAIN t.indexes : c \in t.indexes[i]

Recolumned(t, c) ==
  {[t EXCEPT !.columns[c].type = type] : type \in {"varchar", "timestamp", "integer"}}
  \cup {[t EXCEPT !.columns[c].dims = IF @ = 0 THEN 1 ELSE 0],
        [t EXCEPT !.columns[c].default = ~@]}
  \cup (IF c \in Range(t.key) THEN {} ELSE {[t EXCEPT !.columns[c].nullable = ~@]})
  \cup (IF InUse(t, c) THEN {} ELSE {[t EXCEPT !.columns = WithoutKeys(@, {c})]})

Reconstrained(t) ==
  {[t EXCEPT !.columns = @ @@ "added" :> [type |-> "text", dims |-> 0, nullable |-> n,
                                          default |-> FALSE]] : n \in BOOLEAN}
  \cup {[t EXCEPT !.key = k] : k \in {<<>>, Reverse(t.key)} \cup {<<x>> : x \in Range(t.key)}}
  \cup {[t EXCEPT !.fks = {}]} \cup {[t EXCEPT !.uniques = {}]}
  \cup {[t EXCEPT !.fks = {[f EXCEPT !.ondelete = "NO ACTION"] : f \in t.fks}]}
  \cup {[t EXCEPT !.checks = WithoutKeys(@, {k})] : k \in DOMAIN t.checks}
  \cup {[t EXCEPT !.checks = @ @@ "live" :> [onExpiry |-> e, readsClock |-> TRUE]] :
           e \in {"expires_at" \in DOMAIN t.columns}}
  \cup {[t EXCEPT !.indexes = WithoutKeys(@, {i})] : i \in DOMAIN t.indexes}

\* One ALTER TABLE; other sessions wait while a migration runs.
Alter ==
  /\ migration = NoMigration /\ drifts < MaxDrifts /\ drifts' = drifts + 1
  /\ \E t \in DOMAIN db :
       \E altered \in Reconstrained(db[t])
                      \cup UNION {Recolumned(db[t], c) : c \in DOMAIN db[t].columns} :
         altered # db[t] /\ db' = [db EXCEPT ![t] = altered]
  /\ UNCHANGED <<revision, migration, refused>>

DropByHand ==
  /\ migration = NoMigration /\ drifts < MaxDrifts /\ drifts' = drifts + 1
  /\ \E t \in DOMAIN db : Possible(db, Drop(t)) /\ db' = Effect(db, Drop(t))
  /\ UNCHANGED <<revision, migration, refused>>

SchemaNext ==
  \/ BeginMigration \/ Statement \/ Refuse \/ LoseConnection \/ CommitMigration
  \/ Alter \/ DropByHand

SchemaSpec == SchemaInit /\ [][SchemaNext]_schemaVars

(* ------------------------------- properties ------------------------------- *)

\* No order of tables, indexes and foreign keys in the migration makes a statement
\* fail, wherever a migration was cut off before: on tables nobody has altered by
\* hand, an upgrade ends in what the contract asks for and a downgrade in nothing.
MigrationMeetsContract ==
  drifts = 0 =>
    /\ ~refused
    /\ revision = "001" => Report(db) = {}
    /\ revision = "none" => db = <<>>

\* What the statements of acquire_run_lease and check_rate_limit_pg write, and the
\* columns of their ON CONFLICT.
Upserts == {
  [table |-> "run_leases", conflict |-> {"run_id"},
   written |-> {"run_id", "owner_id", "expires_at"}],
  [table |-> "rate_limit_buckets", conflict |-> {"key", "window_start"},
   written |-> {"key", "window_start", "hits", "window_seconds"}]}

Arbitrated(t, u) ==
  Range(t.key) = u.conflict \/ \E k \in t.uniques : Range(k) = u.conflict
Holds(t, u) ==
  /\ u.written \subseteq DOMAIN t.columns
  /\ \A c \in u.written : t.columns[c].dims = 0 /\ ~t.columns[c].nullable
  /\ \A k \in DOMAIN t.checks : ~TimeDependent(t.checks[k])

\* On tables that pass validation, however they were altered, every upsert finds the
\* unique key it names, the columns it writes, and no check that expires.  Of these
\* changes, only a column that is NOT NULL and has no default passes and still makes an
\* upsert fail.
ValidServes ==
  Report(db) = {} =>
    \A u \in Upserts : u.table \in DOMAIN db
                      /\ Arbitrated(db[u.table], u) /\ Holds(db[u.table], u)

===============================================================================
