---------------------------- MODULE SchemaProofs ----------------------------
(***************************************************************************)
(* Proofs about SchemaStartup, for any number of processes and any sound   *)
(* databases: what is recorded has been done, a process that is ready      *)
(* finds everything, and no start renames the tasks table.                 *)
(*                                                                         *)
(* None of the three is inductive.  The invariant says of each process     *)
(* what its phase shows it has seen in the database (Progress); as nothing *)
(* is ever dropped, no other process can take that away from it.           *)
(***************************************************************************)
EXTENDS SchemaStartup, TLAPS

AfterCreate == Phases \ {"down", "create"}
AfterColumns == AfterCreate \ {"check", "alter"}
AfterMigrations == {"shape", "checkTasks", "alterTasks", "indexes", "slo", "ready"}
AfterTaskColumns == {"indexes", "slo", "ready"}
AfterIndexes == {"slo", "ready"}

\* The first n statements, or columns, of a list have had their effect on the
\* names h.
Ran(statements, n, h) == \A i \in 1..n : statements[i].of \in h
Has(columns, n, h) == \A i \in 1..n : columns[i] \in h

ScriptProgress(q, h) ==
  /\ q.phase = "create" => q.at <= 4 /\ Ran(CreateScript, q.at - 1, h)
  /\ q.phase \in AfterCreate => Ran(CreateScript, 4, h)
  /\ q.phase \in {"check", "alter"} => q.at <= 2 /\ Has(SchemaColumns, q.at - 1, h)
  /\ q.phase \in AfterColumns => Has(SchemaColumns, 2, h)

\* at is the statement reached of a migration that is not skipped; r holds
\* the migrations recorded.
MigrationProgress(q, h, r) ==
  /\ q.phase \in {"migrate", "record"} =>
       \A i \in 1..(q.next - 1) : Migrations[i] \in r
  /\ q.phase = "migrate" /\ q.next <= 3 =>
       LET m == Migrations[q.next] IN
       /\ m \in q.applied => q.at = 1
       /\ q.at <= Len(Statements(m)) /\ Ran(Statements(m), q.at - 1, h)
  /\ q.phase = "record" =>
       LET m == Migrations[q.next] IN
       q.next <= 3 /\ Ran(Statements(m), Len(Statements(m)), h)
  /\ q.phase \in AfterMigrations => \A i \in 1..3 : Migrations[i] \in r

ShapeProgress(q, h) ==
  /\ q.phase # "rename"
  /\ q.phase \in {"checkTasks", "alterTasks"} => q.at <= 2 /\ Has(TaskColumns, q.at - 1, h)
  /\ q.phase \in AfterTaskColumns => Has(TaskColumns, 2, h)
  /\ q.phase = "indexes" => q.at = 1
  /\ q.phase \in AfterIndexes => Ran(QueryIndexes, 1, h)
  /\ q.phase = "ready" => SloTable.of \in h

Progress(q, h, r) ==
  ScriptProgress(q, h) /\ MigrationProgress(q, h, r) /\ ShapeProgress(q, h)

HasColumn(h) == "idx_tasks_assignee" \in h => "tasks.assignee" \in h
Done(h, r) == \A i \in 1..3 : Migrations[i] \in r => MigrationAdds(Migrations[i]) \subseteq h

IInv ==
  /\ TypeOK
  /\ HasColumn(schema)
  /\ Done(schema, recorded)
  /\ \A p \in Processes : Progress(proc[p], schema, recorded)

-----------------------------------------------------------------------------
(* The lists of statements                                                   *)

LEMMA Lists ==
  /\ Len(CreateScript) = 4 /\ Len(SchemaColumns) = 2
  /\ Len(Migrations) = 3 /\ DOMAIN Migrations = 1..3
  /\ Len(TaskColumns) = 2 /\ Len(QueryIndexes) = 1
  BY DEF CreateScript, Migrations, SchemaColumns, TaskColumns, QueryIndexes

LEMMA MigrationStatements ==
  /\ Statements(Migrations[1]) =
       << Table("tasks", {"tasks.assignee"}),
          Index("idx_tasks_assignee", {"tasks.assignee"}) >>
  /\ Statements(Migrations[2]) = << Index("idx_donors_email", {"donors"}) >>
  /\ Statements(Migrations[3]) =
       << Column("tasks.attributed_connector"),
          Column("communications.attributed_connector"),
          Table("funnel_events", {}) >>
  BY DEF Statements, Migrations

\* A statement adds what it is about; the index only where its column is.
Sound(statement) ==
  /\ statement.of \in statement.adds
  /\ "idx_tasks_assignee" \in statement.adds => "tasks.assignee" \in statement.needs

LEMMA SoundStatements ==
  /\ \A i \in 1..4 : Sound(CreateScript[i]) /\ CreateScript[i].needs = {}
  /\ \A i \in 1..3 :
       LET s == Statements(Migrations[i]) IN
       Len(s) \in Nat \ {0} /\ \A k \in 1..Len(s) : Sound(s[k])
  /\ Sound(QueryIndexes[1]) /\ QueryIndexes[1].needs = {"tasks.assigned_to"}
  /\ Sound(SloTable) /\ SloTable.needs = {}
<1>1. /\ Sound(DonorTable) /\ Sound(MailTable) /\ Sound(RunTable) /\ Sound(TaskTable)
      /\ DonorTable.needs = {} /\ MailTable.needs = {} /\ RunTable.needs = {}
      /\ TaskTable.needs = {}
  BY DEF Sound, DonorTable, MailTable, RunTable, TaskTable, Table
<1>2. \A i \in 1..4 : Sound(CreateScript[i]) /\ CreateScript[i].needs = {}
  BY <1>1 DEF CreateScript
<1>3. /\ Sound(Table("tasks", {"tasks.assignee"}))
      /\ Sound(Index("idx_tasks_assignee", {"tasks.assignee"}))
      /\ Sound(Index("idx_donors_email", {"donors"}))
      /\ Sound(Column("tasks.attributed_connector"))
      /\ Sound(Column("communications.attributed_connector"))
      /\ Sound(Table("funnel_events", {}))
  BY DEF Sound, Table, Index, Column
<1>4. ASSUME NEW i \in 1..3
      PROVE  LET s == Statements(Migrations[i]) IN
             Len(s) \in Nat \ {0} /\ \A k \in 1..Len(s) : Sound(s[k])
  <2>1. CASE i = 1
    BY <1>3, <2>1, MigrationStatements
  <2>2. CASE i = 2
    BY <1>3, <2>2, MigrationStatements
  <2>3. CASE i = 3
    BY <1>3, <2>3, MigrationStatements
  <2> QED
    BY <2>1, <2>2, <2>3
<1>5. /\ Sound(QueryIndexes[1]) /\ QueryIndexes[1].needs = {"tasks.assigned_to"}
      /\ Sound(SloTable) /\ SloTable.needs = {}
  BY DEF Sound, QueryIndexes, SloTable, Table, Index
<1> QED
  BY <1>2, <1>4, <1>5

LEMMA ExecutedFacts ==
  ASSUME NEW s, NEW statement, Sound(statement), ~Raises(s, statement),
         HasColumn(s)
  PROVE  LET t == Executed(s, statement) IN
         s \subseteq t /\ statement.of \in t /\ HasColumn(t)
  BY DEF Executed, Raises, Sound, HasColumn

LEMMA DoneMigration ==
  ASSUME NEW i \in 1..3, NEW h, HasColumn(h),
         Ran(Statements(Migrations[i]), Len(Statements(Migrations[i])), h)
  PROVE  MigrationAdds(Migrations[i]) \subseteq h
<1> DEFINE s == Statements(Migrations[i])
<1>1. SUFFICES ASSUME NEW k \in DOMAIN s
               PROVE  s[k].adds \subseteq h
  BY DEF MigrationAdds, Adds
<1>2. CASE i = 1
  <2>1. s = << Table("tasks", {"tasks.assignee"}),
               Index("idx_tasks_assignee", {"tasks.assignee"}) >>
    BY <1>2, MigrationStatements
  <2>2. s[1].of \in h /\ s[2].of \in h
    BY <2>1 DEF Ran
  <2>3. "tasks" \in h /\ "tasks.assignee" \in h /\ "idx_tasks_assignee" \in h
    BY <2>1, <2>2 DEF HasColumn, Table, Index
  <2>4. s[1].adds \subseteq h /\ s[2].adds \subseteq h
    BY <2>1, <2>3 DEF Table, Index
  <2> QED
    BY <1>1, <2>1, <2>4
<1>3. CASE i = 2
  <2>1. s = << Index("idx_donors_email", {"donors"}) >>
    BY <1>3, MigrationStatements
  <2>2. s[1].of \in h
    BY <2>1 DEF Ran
  <2>3. s[1].adds \subseteq h
    BY <2>1, <2>2 DEF Index
  <2> QED
    BY <1>1, <2>1, <2>3
<1>4. CASE i = 3
  <2>1. s = << Column("tasks.attributed_connector"),
               Column("communications.attributed_connector"),
               Table("funnel_events", {}) >>
    BY <1>4, MigrationStatements
  <2>2. s[1].of \in h /\ s[2].of \in h /\ s[3].of \in h
    BY <2>1 DEF Ran
  <2>3. s[1].adds \subseteq h /\ s[2].adds \subseteq h /\ s[3].adds \subseteq h
    BY <2>1, <2>2 DEF Table, Column
  <2> QED
    BY <1>1, <2>1, <2>3
<1> QED
  BY <1>2, <1>3, <1>4

-----------------------------------------------------------------------------
(* Steps.  What one process has seen, the steps of the others leave true:    *)
(* only the process that moves has to be looked at.                          *)

LEMMA Kept ==
  ASSUME NEW q, NEW h, NEW r, NEW h2, NEW r2, Progress(q, h, r),
         h \subseteq h2, r \subseteq r2
  PROVE  Progress(q, h2, r2)
<1>1. \A s, n : Ran(s, n, h) => Ran(s, n, h2)
  BY DEF Ran
<1>2. \A c, n : Has(c, n, h) => Has(c, n, h2)
  BY DEF Has
<1>3. ScriptProgress(q, h2)
  BY <1>1, <1>2 DEF Progress, ScriptProgress
<1>4. MigrationProgress(q, h2, r2)
  BY <1>1 DEF Progress, MigrationProgress
<1>5. ShapeProgress(q, h2)
  BY <1>1, <1>2 DEF Progress, ShapeProgress
<1> QED
  BY <1>3, <1>4, <1>5 DEF Progress

\* The step of a process that then is q.
Moves(p, q) ==
  /\ proc' = [proc EXCEPT ![p] = q]
  /\ q \in [phase : Phases, at : Nat \ {0}, next : 1..4, applied : SUBSET recorded']
  /\ crashes' \in Nat
  /\ schema \subseteq schema' /\ HasColumn(schema')
  /\ recorded \subseteq recorded'
  /\ Progress(q, schema', recorded')

LEMMA OneMoves ==
  ASSUME IInv, NEW p \in Processes, NEW q, Moves(p, q), Done(schema', recorded')
  PROVE  IInv'
<1>1. TypeOK'
  BY Lists DEF IInv, TypeOK, Starts, Moves
<1>2. ASSUME NEW p2 \in Processes
      PROVE  Progress(proc'[p2], schema', recorded')
  <2>1. CASE p2 = p
    BY <2>1 DEF Moves, IInv, TypeOK
  <2>2. CASE p2 # p
    <3>1. proc'[p2] = proc[p2] /\ Progress(proc[p2], schema, recorded)
      BY <2>2 DEF Moves, IInv, TypeOK
    <3> QED
      BY <3>1, Kept DEF Moves
  <2> QED
    BY <2>1, <2>2
<1> QED
  BY <1>1, <1>2 DEF IInv, Moves

\* A step that records nothing.
LEMMA OneMovesOn ==
  ASSUME IInv, NEW p \in Processes, NEW q, Moves(p, q), recorded' = recorded
  PROVE  IInv'
  BY OneMoves DEF IInv, Done, Moves

\* Where a process is.
LEMMA Where ==
  ASSUME IInv, NEW p \in Processes
  PROVE  /\ proc[p].phase \in Phases /\ proc[p].at \in Nat \ {0}
         /\ proc[p].next \in 1..4 /\ proc[p].applied \subseteq recorded
         /\ p \in DOMAIN proc /\ crashes \in Nat
         /\ Progress(proc[p], schema, recorded) /\ HasColumn(schema)
  BY Lists DEF IInv, TypeOK, Starts

Placed(phase, at, p) ==
  [phase |-> phase, at |-> at, next |-> proc[p].next, applied |-> proc[p].applied]

LEMMA MoveMoves ==
  ASSUME IInv, NEW p \in Processes, NEW phase, NEW at, Move(p, phase, at)
  PROVE  proc' = [proc EXCEPT ![p] = Placed(phase, at, p)]
<1>1. proc[p] \in Starts
  BY DEF IInv, TypeOK
<1>2. [proc[p] EXCEPT !.phase = phase] = Placed(phase, proc[p].at, p)
  BY <1>1 DEF Starts, Placed
<1>3. [Placed(phase, proc[p].at, p) EXCEPT !.at = at] = Placed(phase, at, p)
  BY DEF Placed
<1> QED
  BY <1>2, <1>3 DEF Move

LEMMA GotoMoves ==
  ASSUME IInv, NEW p \in Processes, NEW phase, Goto(p, phase)
  PROVE  proc' = [proc EXCEPT ![p] = Placed(phase, 1, p)]
  BY MoveMoves DEF Goto

LEMMA AdvanceMoves ==
  ASSUME IInv, NEW p \in Processes, NEW n, NEW again, NEW after,
         Advance(p, n, again, after)
  PROVE  IF proc[p].at < n
           THEN proc' = [proc EXCEPT ![p] = Placed(again, proc[p].at + 1, p)]
           ELSE proc' = [proc EXCEPT ![p] = Placed(after, 1, p)]
  BY MoveMoves DEF Advance

LEMMA ResetStep ==
  ASSUME IInv, NEW p \in Processes, proc' = [proc EXCEPT ![p] = NotStarted],
         crashes' \in Nat, schema' = schema, recorded' = recorded
  PROVE  IInv'
<1>1. Moves(p, NotStarted)
  BY Where DEF Moves, NotStarted, Progress, ScriptProgress, MigrationProgress, ShapeProgress,
     Phases, AfterCreate, AfterColumns, AfterMigrations, AfterTaskColumns, AfterIndexes
<1> QED
  BY <1>1, OneMovesOn

LEMMA StartStep ==
  ASSUME IInv, NEW p \in Processes, Start(p)
  PROVE  IInv'
<1> DEFINE q == Placed("create", 1, p)
<1>1. proc' = [proc EXCEPT ![p] = q]
  BY GotoMoves DEF Start
<1>2. Progress(q, schema', recorded')
  BY DEF Placed, Progress, ScriptProgress, MigrationProgress, ShapeProgress, Ran,
     Phases, AfterCreate, AfterColumns, AfterMigrations, AfterTaskColumns, AfterIndexes
<1>3. Moves(p, q)
  BY <1>1, <1>2, Where DEF Moves, Start, Placed, Phases
<1> QED
  BY <1>3, OneMovesOn DEF Start

LEMMA CreateStep ==
  ASSUME IInv, NEW p \in Processes, Create(p)
  PROVE  IInv'
<1> DEFINE n == proc[p].at
           q == IF n < 4 THEN Placed("create", n + 1, p) ELSE Placed("check", 1, p)
<1>1. proc' = [proc EXCEPT ![p] = q]
  BY AdvanceMoves, Lists DEF Create
<1>2. n \in 1..4 /\ Ran(CreateScript, n - 1, schema)
  BY Where DEF Create, At, Progress, ScriptProgress
<1>3. /\ schema \subseteq schema' /\ HasColumn(schema')
      /\ CreateScript[n].of \in schema'
  <2>1. Sound(CreateScript[n]) /\ CreateScript[n].needs = {}
    BY <1>2, SoundStatements
  <2>2. ~Raises(schema, CreateScript[n])
    BY <2>1 DEF Raises
  <2> QED
    BY <2>1, <2>2, ExecutedFacts, Where DEF Create
<1>4. Ran(CreateScript, n, schema')
  BY <1>2, <1>3 DEF Ran
<1>5. Progress(q, schema', recorded')
  <2>1. ScriptProgress(q, schema')
    BY <1>2, <1>4, Where DEF Placed, ScriptProgress, Has, Phases, AfterCreate, AfterColumns
  <2>2. MigrationProgress(q, schema', recorded') /\ ShapeProgress(q, schema')
    BY DEF Placed, MigrationProgress, ShapeProgress, AfterMigrations, AfterTaskColumns,
           AfterIndexes
  <2> QED
    BY <2>1, <2>2 DEF Progress
<1>6. Moves(p, q)
  BY <1>1, <1>3, <1>5, Where DEF Moves, Create, Placed, Phases
<1> QED
  BY <1>6, OneMovesOn DEF Create

LEMMA ColumnLists ==
  /\ \A i \in 1..2 : SchemaColumns[i] # "idx_tasks_assignee"
  /\ \A i \in 1..2 : TaskColumns[i] # "idx_tasks_assignee"
  BY DEF SchemaColumns, TaskColumns

\* Both loops over columns: the next column, then the phase after.
After(p, check, after) ==
  IF proc[p].at < 2 THEN Placed(check, proc[p].at + 1, p) ELSE Placed(after, 1, p)

LEMMA CheckMoves ==
  ASSUME IInv, NEW p \in Processes, NEW check, NEW alter, NEW columns, NEW after,
         Len(columns) = 2, Check(p, check, alter, columns, after)
  PROVE  \/ /\ columns[proc[p].at] \in schema
            /\ proc' = [proc EXCEPT ![p] = After(p, check, after)]
         \/ proc' = [proc EXCEPT ![p] = Placed(alter, proc[p].at, p)]
<1>1. proc[p] \in Starts
  BY DEF IInv, TypeOK
<1>2. [proc[p] EXCEPT !.phase = alter] = Placed(alter, proc[p].at, p)
  BY <1>1 DEF Starts, Placed
<1>3. CASE columns[proc[p].at] \in schema
  BY <1>3, AdvanceMoves DEF Check, After
<1>4. CASE columns[proc[p].at] \notin schema
  BY <1>2, <1>4 DEF Check
<1> QED
  BY <1>3, <1>4

LEMMA AlterMoves ==
  ASSUME IInv, NEW p \in Processes, NEW check, NEW alter, NEW columns, NEW after,
         Len(columns) = 2, Alter(p, check, alter, columns, after),
         columns[proc[p].at] # "idx_tasks_assignee"
  PROVE  /\ proc' = [proc EXCEPT ![p] = After(p, check, after)]
         /\ schema \subseteq schema' /\ HasColumn(schema')
         /\ columns[proc[p].at] \in schema'
  BY AdvanceMoves, Where DEF Alter, After, HasColumn

LEMMA EnsureColumnsStep ==
  ASSUME IInv, NEW p \in Processes, EnsureColumns(p)
  PROVE  IInv'
<1> DEFINE n == proc[p].at
<1>1. /\ proc[p].phase \in {"check", "alter"}
      /\ recorded' = recorded /\ crashes' = crashes
  BY DEF EnsureColumns, Check, Alter, At
<1>2. /\ n \in 1..2 /\ Has(SchemaColumns, n - 1, schema)
      /\ Ran(CreateScript, 4, schema)
  BY <1>1, Where DEF Progress, ScriptProgress, AfterCreate, Phases
<1>3. /\ schema \subseteq schema' /\ HasColumn(schema')
      /\ \/ /\ SchemaColumns[n] \in schema'
            /\ proc' = [proc EXCEPT ![p] = After(p, "check", "read")]
         \/ proc' = [proc EXCEPT ![p] = Placed("alter", n, p)]
  <2>1. CASE Check(p, "check", "alter", SchemaColumns, "read")
    <3>1. schema' = schema
      BY <2>1 DEF Check
    <3> QED
      BY <2>1, <3>1, CheckMoves, Lists, Where
  <2>2. CASE Alter(p, "check", "alter", SchemaColumns, "read")
    BY <1>2, <2>2, AlterMoves, Lists, ColumnLists
  <2> QED
    BY <2>1, <2>2 DEF EnsureColumns
<1>4. Has(SchemaColumns, n - 1, schema') /\ Ran(CreateScript, 4, schema')
  BY <1>2, <1>3 DEF Has, Ran
<1>5. CASE /\ SchemaColumns[n] \in schema'
           /\ proc' = [proc EXCEPT ![p] = After(p, "check", "read")]
  <2> DEFINE q == After(p, "check", "read")
  <2>1. Has(SchemaColumns, n, schema')
    BY <1>2, <1>4, <1>5 DEF Has
  <2>2. Progress(q, schema', recorded')
    BY <1>2, <1>4, <2>1 DEF After, Placed, Progress, ScriptProgress, MigrationProgress,
       ShapeProgress, Phases, AfterCreate, AfterColumns, AfterMigrations, AfterTaskColumns,
       AfterIndexes
  <2>3. Moves(p, q)
    BY <1>1, <1>2, <1>3, <1>5, <2>2, Where DEF Moves, After, Placed, Phases
  <2> QED
    BY <1>1, <2>3, OneMovesOn
<1>6. CASE proc' = [proc EXCEPT ![p] = Placed("alter", n, p)]
  <2> DEFINE q == Placed("alter", n, p)
  <2>1. Progress(q, schema', recorded')
    BY <1>2, <1>4 DEF Placed, Progress, ScriptProgress, MigrationProgress,
       ShapeProgress, Phases, AfterCreate, AfterColumns, AfterMigrations, AfterTaskColumns,
       AfterIndexes
  <2>2. Moves(p, q)
    BY <1>1, <1>2, <1>3, <1>6, <2>1, Where DEF Moves, Placed, Phases
  <2> QED
    BY <1>1, <2>2, OneMovesOn
<1> QED
  BY <1>3, <1>5, <1>6

-----------------------------------------------------------------------------
(* Steps of _apply_migrations *)

\* A process at a statement, or about to record.
AtMigration(phase, at, next, applied) ==
  [phase |-> phase, at |-> at, next |-> next, applied |-> applied]

LEMMA ReadAppliedStep ==
  ASSUME IInv, NEW p \in Processes, ReadApplied(p)
  PROVE  IInv'
<1> DEFINE q == AtMigration("migrate", 1, 1, recorded)
<1>1. proc' = [proc EXCEPT ![p] = q]
  BY DEF ReadApplied, Migrating, AtMigration
<1>2. Ran(CreateScript, 4, schema) /\ Has(SchemaColumns, 2, schema)
  BY Where DEF ReadApplied, At, Progress, ScriptProgress, AfterCreate, AfterColumns, Phases
<1>3. Len(Statements(Migrations[1])) >= 1
  BY SoundStatements
<1>4. Progress(q, schema, recorded)
  <2>1. ScriptProgress(q, schema) /\ ShapeProgress(q, schema)
    BY <1>2 DEF AtMigration, ScriptProgress, ShapeProgress, AfterTaskColumns, AfterIndexes
  <2>2. MigrationProgress(q, schema, recorded)
    BY <1>3 DEF AtMigration, MigrationProgress, Ran, AfterMigrations
  <2> QED
    BY <2>1, <2>2 DEF Progress
<1>5. Moves(p, q)
  BY <1>1, <1>4, Where DEF Moves, AtMigration, ReadApplied, Phases
<1> QED
  BY <1>5, OneMovesOn DEF ReadApplied

LEMMA MigrationStarts ==
  ASSUME NEW i \in 1..3
  PROVE  Len(Statements(Migrations[i])) \in Nat /\ Len(Statements(Migrations[i])) >= 1
  BY SoundStatements

LEMMA SkipStep ==
  ASSUME IInv, NEW p \in Processes, Skip(p)
  PROVE  IInv'
<1> DEFINE n == proc[p].next
<1>1. /\ Ran(CreateScript, 4, schema) /\ Has(SchemaColumns, 2, schema)
      /\ \A i \in 1..(n - 1) : Migrations[i] \in recorded
      /\ n \in 1..4 /\ proc[p].applied \subseteq recorded
      /\ n <= 3 /\ Migrations[n] \in proc[p].applied => proc[p].at = 1
  BY Where DEF Skip, At, Progress, ScriptProgress, MigrationProgress, AfterCreate,
     AfterColumns, Phases
<1>2. schema' = schema /\ recorded' = recorded /\ crashes' = crashes
  BY DEF Skip
<1>3. CASE n <= 3
  <2> DEFINE q == AtMigration("migrate", 1, n + 1, proc[p].applied)
  <2>1. Migrations[n] \in proc[p].applied /\ proc[p].at = 1
    BY <1>1, <1>3, Lists DEF Skip, Pending, Current
  <2>2. proc' = [proc EXCEPT ![p] = q]
    <3>1. proc[p] \in Starts /\ proc[p].phase = "migrate"
      BY DEF IInv, TypeOK, Skip, At
    <3>2. [proc[p] EXCEPT !.next = n + 1] = q
      BY <2>1, <3>1 DEF Starts, AtMigration
    <3>3. proc' = [proc EXCEPT ![p].next = n + 1]
      BY <1>3, Lists DEF Skip, Pending
    <3> QED
      BY <3>2, <3>3
  <2>3. ScriptProgress(q, schema) /\ ShapeProgress(q, schema)
    BY <1>1 DEF AtMigration, ScriptProgress, ShapeProgress, AfterTaskColumns, AfterIndexes
  <2>4. \A i \in 1..(n + 1 - 1) : Migrations[i] \in recorded
    BY <1>1, <2>1
  <2>5. MigrationProgress(q, schema, recorded)
    BY <1>1, <1>3, <2>4, MigrationStarts DEF AtMigration, MigrationProgress, Ran,
       AfterMigrations
  <2>6. Moves(p, q)
    BY <1>1, <1>2, <1>3, <2>2, <2>3, <2>5, Where DEF Moves, AtMigration, Progress, Phases
  <2> QED
    BY <1>2, <2>6, OneMovesOn
<1>4. CASE ~(n <= 3)
  <2> DEFINE q == Placed("shape", 1, p)
  <2>1. proc' = [proc EXCEPT ![p] = q]
    BY <1>4, GotoMoves, Lists DEF Skip, Pending
  <2>2. \A i \in 1..3 : Migrations[i] \in recorded
    BY <1>1, <1>4
  <2>3. Progress(q, schema, recorded)
    BY <1>1, <2>2 DEF Placed, Progress, ScriptProgress, MigrationProgress, ShapeProgress,
       AfterTaskColumns, AfterIndexes
  <2>4. Moves(p, q)
    BY <1>1, <1>2, <2>1, <2>3, Where DEF Moves, Placed, Phases
  <2> QED
    BY <1>2, <2>4, OneMovesOn
<1> QED
  BY <1>3, <1>4

LEMMA MigrateStep ==
  ASSUME IInv, NEW p \in Processes, Migrate(p)
  PROVE  IInv'
<1> DEFINE n == proc[p].next
           k == proc[p].at
           m == Statements(Migrations[n])
           q == AtMigration(IF k < Len(m) THEN "migrate" ELSE "record", k + 1, n,
                            proc[p].applied)
<1>1. /\ n \in 1..3 /\ Migrations[n] \notin proc[p].applied
      /\ k \in 1..Len(m) /\ Ran(m, k - 1, schema)
      /\ Ran(CreateScript, 4, schema) /\ Has(SchemaColumns, 2, schema)
      /\ \A i \in 1..(n - 1) : Migrations[i] \in recorded
  <2>1. n \in 1..3 /\ Migrations[n] \notin proc[p].applied
    BY Where, Lists DEF Migrate, Pending, Current
  <2> QED
    BY <2>1, Where, MigrationStarts DEF Migrate, At, Progress, ScriptProgress,
       MigrationProgress, AfterCreate, AfterColumns, Phases
<1>2. schema \subseteq schema' /\ HasColumn(schema') /\ m[k].of \in schema'
  <2>1. Sound(m[k])
    BY <1>1, SoundStatements
  <2>2. ~Raises(schema, m[k]) /\ schema' = Executed(schema, m[k])
    BY DEF Migrate, Current
  <2> QED
    BY <2>1, <2>2, ExecutedFacts, Where
<1>3. /\ Ran(m, k, schema') /\ Ran(CreateScript, 4, schema')
      /\ Has(SchemaColumns, 2, schema')
  BY <1>1, <1>2 DEF Ran, Has
<1>4. proc' = [proc EXCEPT ![p] = q]
  <2>1. AfterStatement(p) = IF k < Len(m) THEN "migrate" ELSE "record"
    BY DEF AfterStatement, Current
  <2> QED
    BY <2>1, MoveMoves DEF Migrate, AtMigration, Placed
<1>5. Progress(q, schema', recorded)
  <2>1. ScriptProgress(q, schema') /\ ShapeProgress(q, schema')
    BY <1>3 DEF AtMigration, ScriptProgress, ShapeProgress, AfterCreate, AfterColumns,
       AfterTaskColumns, AfterIndexes
  <2>2. CASE k < Len(m)
    BY <1>1, <1>3, <2>1, <2>2, MigrationStarts DEF AtMigration, Progress,
       MigrationProgress, AfterMigrations
  <2>3. CASE ~(k < Len(m))
    <3>1. k = Len(m)
      BY <1>1, <2>3, MigrationStarts
    <3> QED
      BY <1>1, <1>3, <2>1, <2>3, <3>1 DEF AtMigration, Progress, MigrationProgress,
         AfterMigrations
  <2> QED
    BY <2>2, <2>3
<1>6. recorded' = recorded /\ crashes' = crashes
  BY DEF Migrate
<1>7. Moves(p, q)
  BY <1>1, <1>2, <1>4, <1>5, <1>6, Where DEF Moves, AtMigration, Phases
<1> QED
  BY <1>6, <1>7, OneMovesOn

LEMMA RecordStep ==
  ASSUME IInv, NEW p \in Processes, Record(p)
  PROVE  IInv'
<1> DEFINE n == proc[p].next
           q == AtMigration("migrate", 1, n + 1, proc[p].applied)
<1>1. /\ n \in 1..3 /\ Ran(Statements(Migrations[n]), Len(Statements(Migrations[n])), schema)
      /\ Ran(CreateScript, 4, schema) /\ Has(SchemaColumns, 2, schema)
      /\ \A i \in 1..(n - 1) : Migrations[i] \in recorded
  BY Where DEF Record, At, Progress, ScriptProgress, MigrationProgress, AfterCreate,
     AfterColumns, Phases
<1>2. /\ schema' = schema /\ crashes' = crashes
      /\ recorded' = recorded \cup {Migrations[n]}
  BY DEF Record, Current
<1>3. Done(schema', recorded')
  <2>1. MigrationAdds(Migrations[n]) \subseteq schema
    BY <1>1, DoneMigration, Where
  <2> QED
    BY <1>2, <2>1 DEF IInv, Done
<1>4. proc' = [proc EXCEPT ![p] = q]
  BY DEF Record, Migrating, AtMigration
<1>5. ScriptProgress(q, schema) /\ ShapeProgress(q, schema)
  BY <1>1 DEF AtMigration, ScriptProgress, ShapeProgress, AfterTaskColumns, AfterIndexes
<1>6. \A i \in 1..(n + 1 - 1) : Migrations[i] \in recorded'
  BY <1>1, <1>2
<1>7. MigrationProgress(q, schema, recorded')
  BY <1>1, <1>6, MigrationStarts DEF AtMigration, MigrationProgress, Ran, AfterMigrations
<1>8. Moves(p, q)
  BY <1>1, <1>2, <1>4, <1>5, <1>7, Where DEF Moves, AtMigration, Progress, Phases
<1> QED
  BY <1>3, <1>8, OneMoves

-----------------------------------------------------------------------------
(* Steps of _ensure_tasks_schema and after *)

\* What every process that is past the migrations has seen.
LEMMA Migrated ==
  ASSUME IInv, NEW p \in Processes, proc[p].phase \in AfterMigrations
  PROVE  /\ Ran(CreateScript, 4, schema) /\ Has(SchemaColumns, 2, schema)
         /\ \A i \in 1..3 : Migrations[i] \in recorded
  BY Where DEF Progress, ScriptProgress, MigrationProgress, AfterCreate, AfterColumns,
     AfterMigrations, Phases

\* The first migration has given the tasks table its column assignee.
LEMMA NotLegacy ==
  ASSUME IInv, \A i \in 1..3 : Migrations[i] \in recorded
  PROVE  ~Legacy
<1>1. MigrationAdds(Migrations[1]) \subseteq schema
  BY DEF IInv, Done
<1>2. "tasks.assignee" \in MigrationAdds(Migrations[1])
  <2>1. /\ 1 \in DOMAIN Statements(Migrations[1])
        /\ Statements(Migrations[1])[1] = Table("tasks", {"tasks.assignee"})
    BY MigrationStatements
  <2> QED
    BY <2>1 DEF MigrationAdds, Adds, Table
<1> QED
  BY <1>1, <1>2 DEF Legacy

LEMMA ShapeStep ==
  ASSUME IInv, NEW p \in Processes, Shape(p)
  PROVE  IInv'
<1> DEFINE q == Placed("checkTasks", 1, p)
<1>1. /\ Ran(CreateScript, 4, schema) /\ Has(SchemaColumns, 2, schema)
      /\ \A i \in 1..3 : Migrations[i] \in recorded
  BY Migrated DEF Shape, At, AfterMigrations
<1>2. proc' = [proc EXCEPT ![p] = q]
  BY <1>1, NotLegacy, GotoMoves DEF Shape
<1>3. schema' = schema /\ recorded' = recorded /\ crashes' = crashes
  BY DEF Shape
<1>4. Progress(q, schema, recorded)
  BY <1>1 DEF Placed, Progress, ScriptProgress, MigrationProgress, ShapeProgress, Has,
     AfterTaskColumns, AfterIndexes
<1>5. Moves(p, q)
  BY <1>2, <1>3, <1>4, Where DEF Moves, Placed, Phases
<1> QED
  BY <1>3, <1>5, OneMovesOn

LEMMA EnsureTaskColumnsStep ==
  ASSUME IInv, NEW p \in Processes, EnsureTaskColumns(p)
  PROVE  IInv'
<1> DEFINE n == proc[p].at
<1>1. /\ proc[p].phase \in {"checkTasks", "alterTasks"}
      /\ recorded' = recorded /\ crashes' = crashes
  BY DEF EnsureTaskColumns, Check, Alter, At
<1>2. /\ n \in 1..2 /\ Has(TaskColumns, n - 1, schema)
      /\ Ran(CreateScript, 4, schema) /\ Has(SchemaColumns, 2, schema)
      /\ \A i \in 1..3 : Migrations[i] \in recorded
  BY <1>1, Where, Migrated DEF Progress, ShapeProgress, AfterMigrations
<1>3. /\ schema \subseteq schema' /\ HasColumn(schema')
      /\ \/ /\ TaskColumns[n] \in schema'
            /\ proc' = [proc EXCEPT ![p] = After(p, "checkTasks", "indexes")]
         \/ proc' = [proc EXCEPT ![p] = Placed("alterTasks", n, p)]
  <2>1. CASE Check(p, "checkTasks", "alterTasks", TaskColumns, "indexes")
    <3>1. schema' = schema
      BY <2>1 DEF Check
    <3> QED
      BY <2>1, <3>1, CheckMoves, Lists, Where
  <2>2. CASE Alter(p, "checkTasks", "alterTasks", TaskColumns, "indexes")
    BY <1>2, <2>2, AlterMoves, Lists, ColumnLists
  <2> QED
    BY <2>1, <2>2 DEF EnsureTaskColumns
<1>4. /\ Has(TaskColumns, n - 1, schema') /\ Ran(CreateScript, 4, schema')
      /\ Has(SchemaColumns, 2, schema')
  BY <1>2, <1>3 DEF Has, Ran
<1>5. CASE /\ TaskColumns[n] \in schema'
           /\ proc' = [proc EXCEPT ![p] = After(p, "checkTasks", "indexes")]
  <2> DEFINE q == After(p, "checkTasks", "indexes")
  <2>1. Has(TaskColumns, n, schema')
    BY <1>2, <1>4, <1>5 DEF Has
  <2>2. Progress(q, schema', recorded')
    BY <1>1, <1>2, <1>4, <2>1 DEF After, Placed, Progress, ScriptProgress, MigrationProgress,
       ShapeProgress, AfterTaskColumns, AfterIndexes
  <2>3. Moves(p, q)
    BY <1>1, <1>2, <1>3, <1>5, <2>2, Where DEF Moves, After, Placed, Phases
  <2> QED
    BY <1>1, <2>3, OneMovesOn
<1>6. CASE proc' = [proc EXCEPT ![p] = Placed("alterTasks", n, p)]
  <2> DEFINE q == Placed("alterTasks", n, p)
  <2>1. Progress(q, schema', recorded')
    BY <1>1, <1>2, <1>4 DEF Placed, Progress, ScriptProgress, MigrationProgress,
       ShapeProgress, AfterTaskColumns, AfterIndexes
  <2>2. Moves(p, q)
    BY <1>1, <1>2, <1>3, <1>6, <2>1, Where DEF Moves, Placed, Phases
  <2> QED
    BY <1>1, <2>2, OneMovesOn
<1> QED
  BY <1>3, <1>5, <1>6

LEMMA EnsureIndexesStep ==
  ASSUME IInv, NEW p \in Processes, EnsureIndexes(p)
  PROVE  IInv'
<1> DEFINE q == Placed("slo", 1, p)
<1>1. /\ proc[p].at = 1 /\ Has(TaskColumns, 2, schema)
      /\ Ran(CreateScript, 4, schema) /\ Has(SchemaColumns, 2, schema)
      /\ \A i \in 1..3 : Migrations[i] \in recorded
  BY Where, Migrated DEF EnsureIndexes, At, Progress, ShapeProgress, AfterMigrations,
     AfterTaskColumns
<1>2. proc' = [proc EXCEPT ![p] = q]
  BY <1>1, AdvanceMoves, Lists DEF EnsureIndexes
<1>3. ~Raises(schema, QueryIndexes[1])
  <2>1. TaskColumns[1] \in schema
    BY <1>1 DEF Has
  <2>2. "tasks.assigned_to" \in schema
    BY <2>1 DEF TaskColumns
  <2> QED
    BY <2>2, SoundStatements DEF Raises
<1>4. schema \subseteq schema' /\ HasColumn(schema') /\ QueryIndexes[1].of \in schema'
  BY <1>1, <1>3, SoundStatements, ExecutedFacts, Where DEF EnsureIndexes
<1>5. recorded' = recorded /\ crashes' = crashes
  BY DEF EnsureIndexes
<1>6. /\ Has(TaskColumns, 2, schema') /\ Ran(CreateScript, 4, schema')
      /\ Has(SchemaColumns, 2, schema') /\ Ran(QueryIndexes, 1, schema')
  BY <1>1, <1>4 DEF Has, Ran
<1>7. Progress(q, schema', recorded')
  BY <1>1, <1>5, <1>6 DEF Placed, Progress, ScriptProgress, MigrationProgress,
     ShapeProgress
<1>8. Moves(p, q)
  BY <1>2, <1>4, <1>5, <1>7, Where DEF Moves, Placed, Phases
<1> QED
  BY <1>5, <1>8, OneMovesOn

LEMMA EnsureSloStep ==
  ASSUME IInv, NEW p \in Processes, EnsureSlo(p)
  PROVE  IInv'
<1> DEFINE q == Placed("ready", 1, p)
<1>1. proc' = [proc EXCEPT ![p] = q]
  BY GotoMoves DEF EnsureSlo
<1>2. /\ Has(TaskColumns, 2, schema) /\ Ran(QueryIndexes, 1, schema)
      /\ Ran(CreateScript, 4, schema) /\ Has(SchemaColumns, 2, schema)
      /\ \A i \in 1..3 : Migrations[i] \in recorded
  BY Where, Migrated DEF EnsureSlo, At, Progress, ShapeProgress, AfterMigrations,
     AfterTaskColumns, AfterIndexes
<1>3. schema \subseteq schema' /\ HasColumn(schema') /\ SloTable.of \in schema'
  <2>1. ~Raises(schema, SloTable)
    BY SoundStatements DEF Raises
  <2> QED
    BY <2>1, SoundStatements, ExecutedFacts, Where DEF EnsureSlo
<1>4. recorded' = recorded /\ crashes' = crashes
  BY DEF EnsureSlo
<1>5. /\ Has(TaskColumns, 2, schema') /\ Ran(CreateScript, 4, schema')
      /\ Has(SchemaColumns, 2, schema') /\ Ran(QueryIndexes, 1, schema')
  BY <1>2, <1>3 DEF Has, Ran
<1>6. Progress(q, schema', recorded')
  BY <1>2, <1>3, <1>4, <1>5 DEF Placed, Progress, ScriptProgress, MigrationProgress,
     ShapeProgress
<1>7. Moves(p, q)
  BY <1>1, <1>3, <1>4, <1>6, Where DEF Moves, Placed, Phases
<1> QED
  BY <1>4, <1>7, OneMovesOn

-----------------------------------------------------------------------------
(* The invariant, and what follows *)

LEMMA MigrationsInRange == \A i \in 1..3 : Migrations[i] \in Range(Migrations)
  BY Lists DEF Range

LEMMA RangeIsMigrations ==
  ASSUME NEW m \in Range(Migrations)
  PROVE  \E i \in 1..3 : m = Migrations[i]
  BY Lists DEF Range

LEMMA InitInv == Init => IInv
<1> SUFFICES ASSUME Init PROVE IInv
  OBVIOUS
<1>1. PICK d \in Databases : schema = d.schema /\ recorded = d.recorded
  BY DEF Init
<1>2. HasColumn(schema)
  BY <1>1, DatabasesAssumption DEF HasColumn
<1>3. Done(schema, recorded)
  <2>1. SUFFICES ASSUME NEW i \in 1..3, Migrations[i] \in recorded
                 PROVE  MigrationAdds(Migrations[i]) \subseteq schema
    BY DEF Done
  <2>2. Migrations[i] \in d.recorded \cap Range(Migrations)
    BY <1>1, <2>1, MigrationsInRange
  <2> QED
    BY <1>1, <2>2, DatabasesAssumption
<1>4. TypeOK
  BY Lists DEF Init, TypeOK, Starts, NotStarted, Phases
<1>5. Progress(NotStarted, schema, recorded)
  BY DEF NotStarted, Progress, ScriptProgress, MigrationProgress, ShapeProgress, Phases,
     AfterCreate, AfterColumns, AfterMigrations, AfterTaskColumns, AfterIndexes
<1> QED
  BY <1>2, <1>3, <1>4, <1>5 DEF Init, IInv

LEMMA NextInv == IInv /\ [Next]_vars => IInv'
<1> SUFFICES ASSUME IInv, [Next]_vars PROVE IInv'
  OBVIOUS
<1>1. CASE UNCHANGED vars
  BY <1>1 DEF vars, IInv, TypeOK, Starts
<1>2. ASSUME NEW p \in Processes, Step(p) PROVE IInv'
  <2>1. CASE Start(p)
    BY <2>1, StartStep
  <2>2. CASE Create(p)
    BY <2>2, CreateStep
  <2>3. CASE EnsureColumns(p)
    BY <2>3, EnsureColumnsStep
  <2>4. CASE ReadApplied(p)
    BY <2>4, ReadAppliedStep
  <2>5. CASE Skip(p)
    BY <2>5, SkipStep
  <2>6. CASE Migrate(p)
    BY <2>6, MigrateStep
  <2>7. CASE MigrationFails(p) \/ RecordFails(p)
    BY <2>7, ResetStep, Where DEF MigrationFails, RecordFails, Fails
  <2>8. CASE Record(p)
    BY <2>8, RecordStep
  <2>9. CASE Shape(p)
    BY <2>9, ShapeStep
  <2>10. CASE EnsureTaskColumns(p)
    BY <2>10, EnsureTaskColumnsStep
  <2>11. CASE EnsureIndexes(p)
    BY <2>11, EnsureIndexesStep
  <2>12. CASE EnsureSlo(p)
    BY <2>12, EnsureSloStep
  <2> QED
    BY <1>2, <2>1, <2>2, <2>3, <2>4, <2>5, <2>6, <2>7, <2>8, <2>9, <2>10, <2>11, <2>12
       DEF Step
<1>3. ASSUME NEW p \in Processes, Crash(p) PROVE IInv'
  <2>1. crashes' \in Nat
    BY <1>3 DEF Crash, IInv, TypeOK
  <2>2. /\ proc' = [proc EXCEPT ![p] = NotStarted]
        /\ schema' = schema /\ recorded' = recorded
    BY <1>3 DEF Crash
  <2> QED
    BY <2>1, <2>2, ResetStep
<1> QED
  BY <1>1, <1>2, <1>3 DEF Next

LEMMA Invariance == Spec => []IInv
<1> QED
  BY InitInv, NextInv, PTL DEF Spec

\* Every process is somewhere in _create_schema to ensure_slo_schema, at a
\* statement and with rows of schema_migrations that exist.
THEOREM TypeCorrect == Spec => []TypeOK
<1>1. IInv => TypeOK
  BY DEF IInv
<1> QED
  BY <1>1, Invariance, PTL

\* What schema_migrations records has been carried out, whichever processes
\* start, on whichever database, and whenever they are killed.
THEOREM RecordedIsDone == Spec => []RecordedMeansDone
<1>1. IInv => RecordedMeansDone
  BY RangeIsMigrations DEF IInv, Done, RecordedMeansDone
<1> QED
  BY <1>1, Invariance, PTL

\* The code that would convert an old tasks table is never reached.
THEOREM RenameIsUnreachable == Spec => []NoRename
<1>1. IInv => NoRename
  BY DEF IInv, Progress, ShapeProgress, NoRename, At
<1> QED
  BY <1>1, Invariance, PTL

LEMMA CompleteWhenReady ==
  ASSUME IInv, NEW p \in Processes, proc[p].phase = "ready"
  PROVE  Complete \subseteq schema
<1>1. /\ Ran(CreateScript, 4, schema) /\ Has(SchemaColumns, 2, schema)
      /\ Has(TaskColumns, 2, schema) /\ Ran(QueryIndexes, 1, schema)
      /\ SloTable.of \in schema /\ \A i \in 1..3 : Migrations[i] \in recorded
  BY Where, Migrated DEF Progress, ShapeProgress, AfterMigrations, AfterTaskColumns,
     AfterIndexes
<1>2. \A i \in 1..3 : MigrationAdds(Migrations[i]) \subseteq schema
  BY <1>1 DEF IInv, Done
<1>3. Range(SchemaColumns) \subseteq schema /\ Range(TaskColumns) \subseteq schema
  <2>1. DOMAIN SchemaColumns = 1..2 /\ DOMAIN TaskColumns = 1..2
    BY DEF SchemaColumns, TaskColumns
  <2> QED
    BY <1>1, <2>1 DEF Has, Range
<1>4. Adds(CreateScript) \subseteq schema
  <2>1. /\ 1 \in DOMAIN Statements(Migrations[1])
        /\ Statements(Migrations[1])[1] = Table("tasks", {"tasks.assignee"})
    BY MigrationStatements
  <2>2. "tasks.assignee" \in schema
    BY <1>2, <2>1 DEF MigrationAdds, Adds, Table
  <2>3. "tasks.assigned_to" \in schema
    <3>1. TaskColumns[1] \in schema
      BY <1>1 DEF Has
    <3> QED
      BY <3>1 DEF TaskColumns
  <2>4. \A i \in 1..4 : CreateScript[i].of \in schema
    BY <1>1 DEF Ran
  <2>5. /\ DonorTable.of \in schema /\ MailTable.of \in schema
        /\ RunTable.of \in schema /\ TaskTable.of \in schema
    BY <2>4 DEF CreateScript
  <2>6. /\ DonorTable.adds \subseteq schema /\ MailTable.adds \subseteq schema
        /\ RunTable.adds \subseteq schema /\ TaskTable.adds \subseteq schema
    BY <2>2, <2>3, <2>5 DEF DonorTable, MailTable, RunTable, TaskTable, Table
  <2>7. DOMAIN CreateScript = 1..4
    BY DEF CreateScript
  <2>8. \A i \in 1..4 : CreateScript[i].adds \subseteq schema
    BY <2>6 DEF CreateScript
  <2> QED
    BY <2>7, <2>8 DEF Adds
<1>5. Adds(QueryIndexes) \subseteq schema
  <2>1. QueryIndexes = << Index("idx_tasks_assigned_to_status", {"tasks.assigned_to"}) >>
    BY DEF QueryIndexes
  <2>2. QueryIndexes[1].adds \subseteq schema
    BY <1>1, <2>1 DEF Ran, Index
  <2> QED
    BY <2>1, <2>2 DEF Adds
<1>6. SloTable.adds \subseteq schema
  BY <1>1 DEF SloTable, Table
<1>7. AllMigrationsAdd \subseteq schema
  BY <1>2, RangeIsMigrations DEF AllMigrationsAdd
<1> QED
  BY <1>3, <1>4, <1>5, <1>6, <1>7 DEF Complete

\* A process that has come up finds all its code needs, and every migration
\* recorded: however many processes start together, and wherever one is killed.
THEOREM ReadyIsComplete == Spec => []ReadyMeansComplete
<1>1. IInv => ReadyMeansComplete
  <2> SUFFICES ASSUME IInv, NEW p \in Processes, At(p, "ready")
               PROVE  Complete \subseteq schema /\ Range(Migrations) \subseteq recorded
    BY DEF ReadyMeansComplete
  <2>1. \A i \in 1..3 : Migrations[i] \in recorded
    BY Migrated DEF At, AfterMigrations
  <2>2. Range(Migrations) \subseteq recorded
    BY <2>1, RangeIsMigrations
  <2> QED
    BY <2>2, CompleteWhenReady DEF At
<1> QED
  BY <1>1, Invariance, PTL

=============================================================================
