--------------------------- MODULE SchemaStartup ---------------------------
(***************************************************************************)
(* How FundingBot.__init__ brings a database up to date: _create_schema,   *)
(* _apply_migrations, _ensure_tasks_schema and ensure_slo_schema.  Every   *)
(* process that opens the database runs them (web workers, queue workers,  *)
(* the CLI), several at a time after a deployment, and a failed one is     *)
(* started again by its supervisor.                                        *)
(*                                                                         *)
(* SQLite commits each DDL statement by itself, so each is a step; the     *)
(* INSERT into schema_migrations and its commit are one.  A schema is a    *)
(* set of names: tables, columns (table.column) and indexes.  A few stand  *)
(* for the many, at least one for each way the code has to add one.        *)
(*                                                                         *)
(* The class defines _apply_migrations and _ensure_tasks_schema more than  *)
(* once; the last definition is the one that runs, and the one modelled.   *)
(***************************************************************************)
EXTENDS Integers, Sequences, Functions

CONSTANTS Processes,
          Databases,   \* databases met at first: [schema, recorded]
          MaxCrashes   \* bound: processes killed

VARIABLES
  schema,    \* the names the database holds
  recorded,  \* the rows of schema_migrations
  proc,      \* proc[p]: how far p is
  crashes

vars == <<schema, recorded, proc, crashes>>

-----------------------------------------------------------------------------
(* Statements.  needs: names without which it raises OperationalError.     *)

Table(t, columns) == [do |-> "table", adds |-> {t} \cup columns, needs |-> {},
                      of |-> t]
Index(i, needs) == [do |-> "index", adds |-> {i}, needs |-> needs, of |-> i]
Column(c) == [do |-> "column", adds |-> {c}, needs |-> {}, of |-> c]

\* CREATE ... IF NOT EXISTS leaves what there is alone, whatever its columns.
Executed(s, statement) ==
  IF statement.of \in s THEN s ELSE s \cup statement.adds

\* Mutant: no error of a migration's statement ends the start.
RaisesNever(s, statement) == FALSE

Raises(s, statement) == statement.of \notin s /\ ~(statement.needs \subseteq s)

\* The script of _create_schema, a table for those of donors and grants, of
\* mail and connectors, of queue runs and of tasks.  Its own indexes are left
\* out: none is on a column that a later release added to its table, so that
\* each succeeds once its table is there.
DonorTable == Table("donors", {})
MailTable == Table("communications", {})
RunTable == Table("task_runs", {})
TaskTable == Table("tasks", {"tasks.assignee", "tasks.assigned_to"})

CreateScript == <<DonorTable, MailTable, RunTable, TaskTable>>

\* The columns it then adds to the tables of an older release.
SchemaColumns == <<"donors.segment", "tasks.attributed_connector">>

Migrations == <<"001_create_tasks_table", "002_add_query_indexes",
                "002_analytics_attribution">>

Statements(m) ==
  CASE m = Migrations[1] ->
         << Table("tasks", {"tasks.assignee"}),
            Index("idx_tasks_assignee", {"tasks.assignee"}) >>
    [] m = Migrations[2] -> << Index("idx_donors_email", {"donors"}) >>
    [] m = Migrations[3] ->
         << Column("tasks.attributed_connector"),
            Column("communications.attributed_connector"),
            Table("funnel_events", {}) >>

\* The columns _ensure_tasks_schema adds, and the indexes _ensure_query_indexes
\* creates when the table has their columns.
TaskColumns == <<"tasks.assigned_to", "tasks.assignee_email">>
QueryIndexes == << Index("idx_tasks_assigned_to_status", {"tasks.assigned_to"}) >>
SloTable == Table("slo_events", {})

Adds(statements) == UNION {statements[i].adds : i \in DOMAIN statements}
MigrationAdds(m) == Adds(Statements(m))

AllMigrationsAdd == UNION {MigrationAdds(m) : m \in Range(Migrations)}

Complete ==
  Adds(CreateScript) \cup Range(SchemaColumns) \cup Range(TaskColumns)
    \cup AllMigrationsAdd \cup Adds(QueryIndexes) \cup SloTable.adds

\* A database is one that some release left: its index has its column, and a
\* migration it records was carried out.
ASSUME DatabasesAssumption ==
  \A d \in Databases :
    /\ "idx_tasks_assignee" \in d.schema => "tasks.assignee" \in d.schema
    /\ \A m \in d.recorded \cap Range(Migrations) : MigrationAdds(m) \subseteq d.schema

\* A tasks table from before the column assignee.
Legacy == "tasks" \in schema /\ "tasks.assignee" \notin schema

-----------------------------------------------------------------------------
Phases == {"down", "create", "check", "alter", "read", "migrate", "record",
           "shape", "rename", "checkTasks", "alterTasks", "indexes", "slo", "ready"}

\* at: the statement or column reached; next: the migration reached; applied:
\* the rows of schema_migrations p has read.
Starts == [phase : Phases, at : Nat \ {0}, next : 1..(Len(Migrations) + 1),
           applied : SUBSET recorded]

TypeOK == proc \in [Processes -> Starts] /\ crashes \in Nat

NotStarted == [phase |-> "down", at |-> 1, next |-> 1, applied |-> {}]

Init ==
  /\ \E d \in Databases : schema = d.schema /\ recorded = d.recorded
  /\ proc = [p \in Processes |-> NotStarted]
  /\ crashes = 0

At(p, phase) == proc[p].phase = phase

Move(p, phase, at) ==
  proc' = [proc EXCEPT ![p].phase = phase, ![p].at = at]

Goto(p, phase) == Move(p, phase, 1)

\* The step after the one numbered at of a list of n.
Advance(p, n, again, after) ==
  IF proc[p].at < n THEN Move(p, again, proc[p].at + 1) ELSE Move(p, after, 1)

\* The exception ends the process.
Fails(p) ==
  /\ proc' = [proc EXCEPT ![p] = NotStarted]
  /\ UNCHANGED <<schema, recorded, crashes>>

Start(p) ==
  /\ At(p, "down")
  /\ Goto(p, "create")
  /\ UNCHANGED <<schema, recorded, crashes>>

Create(p) ==
  /\ At(p, "create")
  /\ schema' = Executed(schema, CreateScript[proc[p].at])
  /\ Advance(p, Len(CreateScript), "create", "check")
  /\ UNCHANGED <<recorded, crashes>>

\* _ensure_column asks for the column first, ...
Check(p, check, alter, columns, after) ==
  /\ At(p, check)
  /\ IF columns[proc[p].at] \in schema
       THEN Advance(p, Len(columns), check, after)
       ELSE proc' = [proc EXCEPT ![p].phase = alter]
  /\ UNCHANGED <<schema, recorded, crashes>>

\* ... and forgives an ALTER that fails because it has been added since.
Alter(p, check, alter, columns, after) ==
  /\ At(p, alter)
  /\ schema' = schema \cup {columns[proc[p].at]}
  /\ Advance(p, Len(columns), check, after)
  /\ UNCHANGED <<recorded, crashes>>

EnsureColumns(p) ==
  \/ Check(p, "check", "alter", SchemaColumns, "read")
  \/ Alter(p, "check", "alter", SchemaColumns, "read")

-----------------------------------------------------------------------------
(* _apply_migrations *)

\* At the first statement of the migration next.
Migrating(p, next, applied) ==
  proc' = [proc EXCEPT ![p] = [phase |-> "migrate", at |-> 1, next |-> next,
                               applied |-> applied]]

\* Mutant: the rows of other processes are not seen.
ReadNothing(p) ==
  /\ At(p, "read")
  /\ Migrating(p, 1, {})
  /\ UNCHANGED <<schema, recorded, crashes>>

ReadApplied(p) ==
  /\ At(p, "read")
  /\ Migrating(p, 1, recorded)
  /\ UNCHANGED <<schema, recorded, crashes>>

Current(p) == Migrations[proc[p].next]
Pending(p) == proc[p].next <= Len(Migrations)

\* The next migration, or the end of the loop.
Skip(p) ==
  /\ At(p, "migrate")
  /\ IF Pending(p) THEN /\ Current(p) \in proc[p].applied
                        /\ proc' = [proc EXCEPT ![p].next = @ + 1]
     ELSE Goto(p, "shape")
  /\ UNCHANGED <<schema, recorded, crashes>>

\* Mutant: a migration is recorded before its statements run.
RecordedEarly(p) == "record"

\* What follows a migration's statement number proc[p].at.
AfterStatement(p) ==
  IF proc[p].at < Len(Statements(Current(p))) THEN "migrate" ELSE "record"

Migrate(p) ==
  LET statement == Statements(Current(p))[proc[p].at] IN
  /\ At(p, "migrate") /\ Pending(p) /\ Current(p) \notin proc[p].applied
  /\ ~Raises(schema, statement)
  /\ schema' = Executed(schema, statement)
  /\ Move(p, AfterStatement(p), proc[p].at + 1)
  /\ UNCHANGED <<recorded, crashes>>

\* An error that is not a duplicate column.
StatementRaises(p) ==
  /\ At(p, "migrate") /\ Pending(p) /\ Current(p) \notin proc[p].applied
  /\ Raises(schema, Statements(Current(p))[proc[p].at])

MigrationFails(p) == StatementRaises(p) /\ Fails(p)

\* The name is the primary key: another process may have inserted it since.
Record(p) ==
  /\ At(p, "record") /\ Current(p) \notin recorded
  /\ recorded' = recorded \cup {Current(p)}
  /\ Migrating(p, proc[p].next + 1, proc[p].applied)
  /\ UNCHANGED <<schema, crashes>>

RecordFails(p) ==
  At(p, "record") /\ Current(p) \in recorded /\ Fails(p)

-----------------------------------------------------------------------------
\* _ensure_tasks_schema renames and copies a tasks table with assigned_to and
\* without assignee.  No start gets to do that (NoRename): the statements of
\* the phase "rename" are left out.
Shape(p) ==
  /\ At(p, "shape")
  /\ Goto(p, IF Legacy /\ "tasks.assigned_to" \in schema THEN "rename"
             ELSE "checkTasks")
  /\ UNCHANGED <<schema, recorded, crashes>>

EnsureTaskColumns(p) ==
  \/ Check(p, "checkTasks", "alterTasks", TaskColumns, "indexes")
  \/ Alter(p, "checkTasks", "alterTasks", TaskColumns, "indexes")

EnsureIndexes(p) ==
  LET statement == QueryIndexes[proc[p].at] IN
  /\ At(p, "indexes")
  /\ schema' = IF Raises(schema, statement) THEN schema ELSE Executed(schema, statement)
  /\ Advance(p, Len(QueryIndexes), "indexes", "slo")
  /\ UNCHANGED <<recorded, crashes>>

EnsureSlo(p) ==
  /\ At(p, "slo")
  /\ schema' = Executed(schema, SloTable)
  /\ Goto(p, "ready")
  /\ UNCHANGED <<recorded, crashes>>

\* Killed, or given up on a database that stays locked.
Crash(p) ==
  /\ ~At(p, "down") /\ crashes < MaxCrashes
  /\ crashes' = crashes + 1
  /\ proc' = [proc EXCEPT ![p] = NotStarted]
  /\ UNCHANGED <<schema, recorded>>

Step(p) ==
  \/ Start(p) \/ Create(p) \/ EnsureColumns(p)
  \/ ReadApplied(p) \/ Skip(p) \/ Migrate(p) \/ MigrationFails(p)
  \/ Record(p) \/ RecordFails(p)
  \/ Shape(p) \/ EnsureTaskColumns(p) \/ EnsureIndexes(p) \/ EnsureSlo(p)

Next == \E p \in Processes : Step(p) \/ Crash(p)

Spec == Init /\ [][Next]_vars

\* A supervisor starts a process again, and the system runs it.
FairSpec == Spec /\ \A p \in Processes : WF_vars(Step(p))
-----------------------------------------------------------------------------
(* Properties *)

\* A process that has come up finds every table, column and index its code
\* uses and every migration recorded, whatever release the database is of,
\* whichever processes came up at the same time, and wherever one was killed.
ReadyMeansComplete ==
  \A p \in Processes :
    At(p, "ready") => Complete \subseteq schema /\ Range(Migrations) \subseteq recorded

\* A migration that is recorded has been carried out to the end: the process
\* that skips it does without nothing.
RecordedMeansDone ==
  \A m \in recorded \cap Range(Migrations) : MigrationAdds(m) \subseteq schema

\* No start gets to rename a tasks table of the old shape: the copy would take
\* the comments along with the dropped table, whose name their foreign key has
\* followed.  The first migration stops the start before.
NoRename ==
  \A p \in Processes : ~At(p, "rename")

\* Restarted as often as it fails, every process comes up on a database that
\* is not of the old shape: losing a race for a migration costs one start.
EventuallyReady == []Legacy \/ \A p \in Processes : []<>At(p, "ready")

=============================================================================
