-------------------------- MODULE MCSchemaStartup --------------------------
\* A new database, one that was of the release before the analytics, and one
\* with the tasks table of the old shape.
EXTENDS SchemaStartup

NewDatabase == [schema |-> {}, recorded |-> {}]
OlderRelease ==
  [schema |-> {"donors", "communications", "task_runs", "tasks", "tasks.assignee",
               "tasks.assignee_email", "idx_tasks_assignee"},
   recorded |-> {Migrations[1]}]
OldShape == [schema |-> {"donors", "communications", "task_runs", "tasks", "tasks.assigned_to"},
             recorded |-> {}]

AllDatabases == {NewDatabase, OlderRelease, OldShape}
=============================================================================
