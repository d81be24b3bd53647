----------------------------- MODULE TaskBoard -----------------------------
(***************************************************************************)
(* The staff task board: FundingBot.create_task, transition_task_status,   *)
(* update_task, update_task_assignment, sync_tasks and                     *)
(* import_tasks_from_csv, with the audit log they write and the rate limit *)
(* of assignment notifications; and the comments on the tasks, with the    *)
(* marks up to which their readers have read them.                         *)
(*                                                                         *)
(* Callers are web workers with an SQLite connection each.  A call outside *)
(* a transaction commits each write by itself.  sync_tasks and the import  *)
(* write in one transaction: it takes the database's write lock with its   *)
(* first write, its own reads see what it wrote, and nobody else's do.     *)
(* A writer waits for the lock; giving up after busy_timeout is a Crash.   *)
(* Titles, dates and the retention of done tasks are left out.             *)
(***************************************************************************)
EXTENDS Integers, Sequences, SequencesExt

CONSTANTS Callers,
          Assignees,   \* roles a task may be assigned to
          ExternalIds, \* values of external_id
          Given,       \* statuses a request may carry
          Creations,   \* tasks create_task may be asked for
          Batches,     \* bodies of sync_tasks and of the CSV import
          Recipients,  \* addresses assignees are notified at
          Authors, Readers,   \* of comments
          Databases,   \* what the callers find at first
          Gap,         \* TASK_ASSIGNMENT_NOTIFICATION_RATE_LIMIT_SECONDS
          MaxTasks, MaxTime, MaxOps, MaxCrashes   \* bounds; MaxOps counts
                       \* an operation for each task met at first

Statuses == {"todo", "in-progress", "blocked", "done"}
NoExternalId == "no external id"
NoChange == "no change"
NoEmail == "no email"

Tasks == [external : ExternalIds \cup {NoExternalId}, status : Statuses,
          assignee : Assignees, email : Recipients \cup {NoEmail}]

\* An item of a batch; id 0 is none.  valid is FALSE where upsert_task raises
\* ValueError.
Items == [id : Nat, external : ExternalIds \cup {NoExternalId}, status : Given,
          assignee : Assignees, valid : BOOLEAN]

ASSUME TaskBoardAssumption ==
  /\ Given \subseteq Statuses
  /\ Creations \subseteq Tasks
  /\ Batches \subseteq Seq(Items) /\ \A b \in Batches : b # <<>>
  /\ Gap \in Nat /\ NoExternalId \notin ExternalIds /\ NoChange \notin Assignees
  /\ "free" \notin Callers /\ MaxTasks \in Nat /\ NoEmail \notin Recipients

VARIABLES
  db,      \* the committed database: [tasks, log, notices, comments, ...]
  draft,   \* the database as the transaction that holds the lock sees it
  lock,    \* the caller whose transaction holds the write lock, or "free"
  op,      \* op[p]: the operation p runs
  now, started, crashes,
  spoilt,  \* ghost: tasks on which operations overlapped, or were cut short
  shown    \* ghost: <<r, c>>: the comment c as it stands was listed for r

vars == <<db, draft, lock, op, now, started, crashes, spoilt, shown>>

Ids == 1..MaxTasks
NewTask == [external |-> NoExternalId, status |-> "todo",
            assignee |-> CHOOSE a \in Assignees : TRUE, email |-> NoEmail]
Entry(action, id, task, from, batch) ==
  [action |-> action, id |-> id, status |-> task.status, from |-> from,
   assignee |-> task.assignee, batch |-> batch]

\* row: the task as it is read again after a write; at: the time the operation
\* stamps; who and comment, those of an operation on comments.
Kinds == {"create", "transition", "update", "assign", "batch", "comments"}
Steps == {"insert", "reread", "logCreated", "logAssigned", "read", "write", "logStatus",
          "logUpdated", "check", "notify", "readItem", "writeItem", "commit",
          "comment", "logComment", "edit", "remove", "listed", "mark"}
NoOp == [step |-> "idle", kind |-> "create", id |-> 1, asked |-> NewTask,
         seen |-> NewTask, row |-> NewTask, items |-> <<>>, found |-> FALSE, batch |-> 0, at |-> 0,
         who |-> CHOOSE a \in Authors : TRUE, comment |-> 1]

Asked == [external : ExternalIds \cup {NoExternalId},
          status : Statuses \cup {NoChange},
          assignee : Assignees \cup {NoChange}, email : Recipients \cup {NoEmail}]
Entries == [action : {"created", "status", "updated", "assigned", "notified",
                      "limited", "synced"}, id : Ids, status : Statuses,
            from : Statuses, assignee : Assignees, batch : Nat]
Notices == [id : Ids, to : Recipients, at : Int]

\* Rows of task_comments, by their id, those deleted included, and last_read_at
\* of task_comment_reads.
Comments == [task : Ids, author : Authors, updated : Nat, there : BOOLEAN]
Never == -1
Marks == [Readers -> [Ids -> Nat \cup {Never}]]

IsDatabase(d) ==
  /\ DOMAIN d = {"tasks", "log", "notices", "comments", "marks", "removals"}
  /\ d.tasks \in Seq(Tasks) /\ Len(d.tasks) \in 0..MaxTasks
  /\ d.log \in Seq(Entries)
  /\ d.notices \in Seq(Notices)
  /\ d.comments \in Seq(Comments) /\ d.marks \in Marks
  /\ d.removals \in Seq(DOMAIN d.comments)

\* What the log tells of task i: the rows of its status and its assignee, the
\* last of each, and whether its transitions form a chain of allowed ones,
\* each from the status the row before tells.
StatusRows == {"created", "status", "updated"}
AssigneeRows == {"assigned"}
RowOf(e, i, actions) == e.id = i /\ e.action \in actions
IsLast(log, k, i, actions) ==
  RowOf(log[k], i, actions) /\ \A j \in DOMAIN log : RowOf(log[j], i, actions) => j <= k
StatusTold(log, i, status) ==
  \E k \in DOMAIN log : IsLast(log, k, i, StatusRows) /\ log[k].status = status
AssigneeTold(log, i, assignee) ==
  \E k \in DOMAIN log : IsLast(log, k, i, AssigneeRows) /\ log[k].assignee = assignee

Allowed(from, to) ==
  CASE from = "todo" -> to \in {"in-progress", "blocked"}
    [] from = "in-progress" -> to \in {"todo", "done", "blocked"}
    [] from = "blocked" -> to \in {"todo", "in-progress"}
    [] from = "done" -> FALSE

Chain(log, i) ==
  \A k \in DOMAIN log : RowOf(log[k], i, {"status"}) =>
    /\ Allowed(log[k].from, log[k].status)
    /\ \E j \in DOMAIN log :
         /\ j < k /\ RowOf(log[j], i, StatusRows) /\ log[j].status = log[k].from
         /\ \A m \in DOMAIN log : RowOf(log[m], i, StatusRows) => m <= j \/ k <= m

\* No two notices a and b, b stored after a, are less than Gap apart.
Apart(a, b) == a.id = b.id /\ a.to = b.to => b.at - a.at >= Gap

\* A comment is gone exactly when a row tells that it was deleted.
RemovalsTold(d) ==
  \A c \in DOMAIN d.comments :
    d.comments[c].there <=> \A k \in DOMAIN d.removals : d.removals[k] # c

TypeOK ==
  /\ IsDatabase(db) /\ IsDatabase(draft)
  /\ lock \in Callers \cup {"free"}
  /\ \A p \in Callers :
       /\ op[p].step \in Steps \cup {"idle"} /\ op[p].kind \in Kinds
       /\ op[p].id \in Ids /\ op[p].asked \in Asked
       /\ op[p].seen \in Tasks /\ op[p].row \in Tasks
       /\ op[p].items \in Seq(Items) /\ op[p].found \in BOOLEAN
       /\ op[p].who \in Authors \cup Readers /\ op[p].comment \in Nat
  /\ spoilt \subseteq Ids
  /\ shown \subseteq Readers \X DOMAIN db.comments

\* The callers find what the code made before: no half of a batch, no comment
\* that has been read, a log that tells what the tasks hold, old notices.
ASSUME DatabasesAssumption ==
  \A d \in Databases :
    /\ IsDatabase(d)
    /\ \A i \in DOMAIN d.log : d.log[i].batch = 0
    /\ \A i, j \in DOMAIN d.tasks :
         d.tasks[i].external = d.tasks[j].external /\ i # j =>
           d.tasks[i].external = NoExternalId
    /\ \A c \in DOMAIN d.comments, r \in Readers :
         d.comments[c].updated > d.marks[r][d.comments[c].task]
    /\ \A k \in DOMAIN d.log : d.log[k].id \in DOMAIN d.tasks
    /\ \A i \in DOMAIN d.tasks :
         /\ StatusTold(d.log, i, d.tasks[i].status) /\ Chain(d.log, i)
         /\ AssigneeTold(d.log, i, d.tasks[i].assignee)
    /\ \A i, j \in DOMAIN d.notices : i < j => Apart(d.notices[i], d.notices[j])
    /\ \A i \in DOMAIN d.notices : d.notices[i].at <= 0
    /\ RemovalsTold(d)

\* removals: the log rows task_comment_deleted.
Empty == [tasks |-> <<>>, log |-> <<>>, notices |-> <<>>, comments |-> <<>>,
          marks |-> [r \in Readers |-> [i \in Ids |-> Never]], removals |-> <<>>]
Init ==
  /\ db \in Databases /\ draft = Empty /\ lock = "free"
  /\ op = [p \in Callers |-> NoOp]
  /\ now = 0 /\ started = Len(db.tasks) /\ crashes = 0
  /\ spoilt = {} /\ shown = {}

-----------------------------------------------------------------------------
At(p, step) == op[p].step = step
Goto(p, step) == op' = [op EXCEPT ![p].step = step]
Finish(p) == op' = [op EXCEPT ![p] = NoOp]
View(p) == IF lock = p THEN draft ELSE db
Row(p) == View(p).tasks[op[p].id]
Holders(d, e) == {i \in DOMAIN d.tasks : d.tasks[i].external = e}

\* UNIQUE of the column external_id, in a database created with it: may the row
\* id hold e?
Unique(d, id, e) == e = NoExternalId \/ Holders(d, e) \subseteq {id}

Clock == UNCHANGED <<now, started, crashes, spoilt>>

\* A write that commits by itself.
Commits(d) == lock = "free" /\ db' = d /\ UNCHANGED <<draft, lock>>
\* Mutant: the writes of a batch commit one by one.
DraftsCommitted(p, d) == lock = "free" /\ db' = d /\ UNCHANGED <<draft, lock>>

\* A write of p's transaction.
Drafts(p, d) == lock \in {p, "free"} /\ lock' = p /\ draft' = d /\ UNCHANGED db
Reads == UNCHANGED <<db, draft, lock>>

WithLog(d, entries) == [d EXCEPT !.log = @ \o entries]

\* The tasks an operation may touch.
Touched(o) == IF o.step \in {"idle", "insert"} \/ o.kind = "comments" THEN {}
              ELSE IF o.kind = "batch" THEN Ids ELSE {o.id}

Begin(p, new) ==
  /\ At(p, "idle") /\ started < MaxOps
  /\ started' = started + 1
  /\ op' = [op EXCEPT ![p] = new]
  /\ spoilt' = spoilt \cup
       (Touched(new) \cap UNION {Touched(op[q]) : q \in Callers \ {p}})
  /\ UNCHANGED <<db, draft, lock, now, crashes>>

Create(p) ==
  \E task \in Creations :
    Begin(p, [NoOp EXCEPT !.step = "insert", !.kind = "create", !.asked = task])

\* A request about a task that exists.
Request(p, kind, asked) ==
  \E i \in DOMAIN db.tasks :
    Begin(p, [NoOp EXCEPT !.step = "read", !.kind = kind, !.id = i, !.asked = asked])

Transition(p) ==
  \E s \in Statuses : Request(p, "transition", [NewTask EXCEPT !.status = s])
Update(p) ==
  \E s \in Given \cup {NoChange}, a \in Assignees \cup {NoChange} :
    Request(p, "update", [NewTask EXCEPT !.status = s, !.assignee = a])
Assign(p) ==
  \E a \in Assignees, mail \in Recipients \cup {NoEmail} :
    Request(p, "assign", [NewTask EXCEPT !.assignee = a, !.email = mail])
Batch(p) ==
  \E b \in Batches :
    Begin(p, [NoOp EXCEPT !.step = "readItem", !.kind = "batch", !.items = b,
                          !.batch = started + 1])

-----------------------------------------------------------------------------
\* create_task, committing each write

Insert(p) ==
  LET id == Len(db.tasks) + 1 IN
  /\ At(p, "insert") /\ lock = "free"
  /\ IF Unique(db, id, op[p].asked.external) /\ id <= MaxTasks
       THEN /\ Commits([db EXCEPT !.tasks = Append(@, op[p].asked)])
            /\ op' = [op EXCEPT ![p].id = id, ![p].step = "reread"]
            /\ spoilt' = spoilt \cup
                 ({id} \cap UNION {Touched(op[q]) : q \in Callers \ {p}})
       ELSE Reads /\ Finish(p) /\ UNCHANGED spoilt      \* IntegrityError
  /\ UNCHANGED <<now, started, crashes>>

\* get_task, in create_task and in upsert_task: what the row holds by now is
\* what will be logged.
Reread(p) ==
  /\ At(p, "reread")
  /\ op' = [op EXCEPT ![p].row = Row(p),
       ![p].step = IF op[p].kind = "create" THEN "logCreated" ELSE "logUpdated"]
  /\ Reads /\ Clock

LogCreated(p) ==
  /\ At(p, "logCreated")
  /\ Commits(WithLog(db, <<Entry("created", op[p].id, op[p].row,
                                 op[p].row.status, 0)>>))
  /\ Goto(p, "logAssigned")
  /\ Clock

\* The last log row of create_task and of upsert_task.
LogAssigned(p) ==
  /\ At(p, "logAssigned")
  /\ Commits(WithLog(db, <<Entry("assigned", op[p].id, op[p].row,
                                 op[p].row.status, 0)>>))
  /\ IF op[p].kind = "create" /\ op[p].row.email # NoEmail
       THEN Goto(p, "check")
       ELSE Finish(p)
  /\ Clock

-----------------------------------------------------------------------------
\* transition_task_status

\* get_task, and _validate_task_transition for a transition.
Read(p) ==
  /\ At(p, "read")
  /\ IF op[p].kind = "transition" /\ ~Allowed(Row(p).status, op[p].asked.status)
       THEN Finish(p)      \* TaskTransitionError, or nothing to change
       ELSE op' = [op EXCEPT ![p].seen = Row(p), ![p].step = "write"]
  /\ Reads /\ Clock

WriteStatus(p) ==
  /\ At(p, "write") /\ op[p].kind = "transition"
  /\ Commits([db EXCEPT !.tasks[op[p].id].status = op[p].asked.status])
  /\ Goto(p, "logStatus")
  /\ Clock

\* Mutant: the status read again is logged as the one before.
LogStatusFromRow(p) ==
  /\ At(p, "logStatus")
  /\ Commits(WithLog(db, <<Entry("status", op[p].id, Row(p), Row(p).status, 0)>>))
  /\ Finish(p)
  /\ Clock

LogStatus(p) ==
  /\ At(p, "logStatus")
  /\ Commits(WithLog(db, <<Entry("status", op[p].id,
       [op[p].seen EXCEPT !.status = op[p].asked.status], op[p].seen.status, 0)>>))
  /\ Finish(p)
  /\ Clock

-----------------------------------------------------------------------------
\* update_task, by upsert_task: the fields the request does not name are
\* written back as they were read, and no transition is validated.

Merged(seen, asked) ==
  [seen EXCEPT !.status = IF asked.status = NoChange THEN @ ELSE asked.status,
               !.assignee = IF asked.assignee = NoChange THEN @ ELSE asked.assignee]

\* Mutant: the row that was read is written back whole.
UpdatedStatusOnly(row, new) == [row EXCEPT !.status = new.status]

\* What the UPDATE leaves in the row: assignee_email is not among its columns.
Updated(row, new) ==
  [new EXCEPT !.email = row.email]

WriteUpdate(p) ==
  LET new == Updated(Row(p), Merged(op[p].seen, op[p].asked)) IN
  /\ At(p, "write") /\ op[p].kind = "update" /\ lock = "free"
  /\ IF Unique(db, op[p].id, new.external)
       THEN Commits([db EXCEPT !.tasks[op[p].id] = new]) /\ Goto(p, "reread")
       ELSE Reads /\ Finish(p)      \* IntegrityError
  /\ Clock

\* An update that changes no field it has read leaves no row of its own.
LogUpdated(p) ==
  /\ At(p, "logUpdated")
  /\ IF Merged(op[p].seen, op[p].asked) # op[p].seen
       THEN Commits(WithLog(db, <<Entry("updated", op[p].id, op[p].row,
                                        op[p].row.status, 0)>>))
       ELSE Reads
  /\ IF op[p].row.assignee # op[p].seen.assignee
       THEN Goto(p, "logAssigned")
       ELSE Finish(p)
  /\ Clock

-----------------------------------------------------------------------------
\* update_task_assignment: the row and the log change in one transaction.

WriteAssign(p) ==
  LET new == [Row(p) EXCEPT !.assignee = op[p].asked.assignee,
                            !.email = op[p].asked.email] IN
  /\ At(p, "write") /\ op[p].kind = "assign"
  /\ Commits(WithLog([db EXCEPT !.tasks[op[p].id] = new],
                     <<Entry("assigned", op[p].id, new, new.status, 0)>>))
  /\ Goto(p, "check")
  /\ Clock

\* _notify_task_assignee
\* Mutant: only a notice of this very moment counts.
LimitedNow(id, to) ==
  \E n \in DOMAIN db.notices :
    db.notices[n].id = id /\ db.notices[n].to = to /\ now = db.notices[n].at

\* The latest notice of the task to the address is too recent.
Limited(id, to) ==
  \E n \in DOMAIN db.notices :
    db.notices[n].id = id /\ db.notices[n].to = to /\ now - db.notices[n].at < Gap

Check(p) ==
  LET task == Row(p)
      mail == task.email # NoEmail IN
  /\ At(p, "check")
  /\ IF mail /\ ~Limited(op[p].id, task.email)
       THEN Reads /\ op' = [op EXCEPT ![p].seen = task, ![p].at = now, ![p].step = "notify"]
       ELSE /\ IF mail
                 THEN Commits(WithLog(db, <<Entry("limited", op[p].id, task,
                                                  task.status, 0)>>))
                 ELSE Reads
            /\ Finish(p)
  /\ Clock

\* The mail is sent, then the notice and its log row are stored.
Notify(p) ==
  /\ At(p, "notify")
  /\ Commits(WithLog([db EXCEPT !.notices =
                        Append(@, [id |-> op[p].id, to |-> op[p].seen.email, at |-> op[p].at])],
                     <<Entry("notified", op[p].id, op[p].seen, op[p].seen.status, 0)>>))
  /\ Finish(p)
  /\ Clock

-----------------------------------------------------------------------------
\* sync_tasks and import_tasks_from_csv: upsert_task for each item

Rollback(p) ==
  /\ IF lock = p THEN lock' = "free" /\ draft' = Empty ELSE UNCHANGED <<lock, draft>>
  /\ UNCHANGED db

\* The task an item names, if any: the one of its id, or else of its
\* external_id.
Named(d, item) ==
  IF item.id \in DOMAIN d.tasks THEN {item.id}
  ELSE IF item.external = NoExternalId THEN {}
  ELSE Holders(d, item.external)

\* An item that raises undoes the transaction.
ReadItem(p) ==
  LET item == Head(op[p].items)
      named == Named(View(p), item) IN
  /\ At(p, "readItem")
  /\ IF ~item.valid
       THEN Rollback(p) /\ Finish(p)
       ELSE /\ Reads
            /\ op' = [op EXCEPT ![p].step = "writeItem", ![p].found = (named # {}),
                 ![p].id = IF named = {} THEN MaxTasks ELSE CHOOSE i \in named : TRUE,
                 ![p].seen = IF named = {} THEN NewTask
                             ELSE View(p).tasks[CHOOSE i \in named : TRUE]]
  /\ Clock

ItemTask(p, item) ==
  [(IF op[p].found THEN op[p].seen ELSE NewTask) EXCEPT
     !.external = IF item.external = NoExternalId THEN @ ELSE item.external,
     !.status = item.status, !.assignee = item.assignee]

\* The log rows of an item: a task that does not change leaves none.  The task
\* is read again before them, in the transaction that has just written it.
ItemLog(p, id, new) ==
  LET row(action) == Entry(action, id, new, new.status, op[p].batch) IN
  IF ~op[p].found THEN <<row("created"), row("assigned")>>
  ELSE (IF new # op[p].seen THEN <<row("updated")>> ELSE <<>>)
       \o (IF new.assignee # op[p].seen.assignee THEN <<row("assigned")>> ELSE <<>>)

WriteItem(p) ==
  LET item == Head(op[p].items)
      new == ItemTask(p, item)
      tasks == View(p).tasks
      id == IF op[p].found THEN op[p].id ELSE Len(tasks) + 1
      d == [View(p) EXCEPT !.tasks =
              IF op[p].found THEN [tasks EXCEPT ![id] = Updated(tasks[id], new)]
              ELSE Append(tasks, new)]
  IN  /\ At(p, "writeItem") /\ lock \in {p, "free"}
      /\ IF Unique(View(p), id, new.external) /\ id <= MaxTasks
           THEN /\ Drafts(p, WithLog(d, ItemLog(p, id, new)))
                /\ op' = [op EXCEPT ![p].items = Tail(@),
                     ![p].step = IF Len(op[p].items) = 1 THEN "commit" ELSE "readItem"]
           ELSE Rollback(p) /\ Finish(p)
      /\ Clock

CommitBatch(p) ==
  /\ At(p, "commit")
  /\ db' = WithLog(draft, <<Entry("synced", op[p].id, op[p].seen, op[p].seen.status,
                                  op[p].batch)>>)
  /\ lock' = "free" /\ draft' = Empty
  /\ Finish(p)
  /\ Clock

-----------------------------------------------------------------------------
(* Comments.  A comment is stamped before its write waits for the lock, and *)
(* so is a mark.                                                            *)

OnComments(p, step, task, who, comment) ==
  Begin(p, [NoOp EXCEPT !.step = step, !.kind = "comments", !.id = task, !.who = who,
                        !.comment = comment, !.at = now])

Comment(p) ==
  \E i \in DOMAIN db.tasks, a \in Authors : OnComments(p, "comment", i, a, 1)

\* The row is read, and then written whether or not it is still there.
EditOrRemove(p) ==
  \E c \in {c \in DOMAIN db.comments : db.comments[c].there}, step \in {"edit", "remove"} :
    OnComments(p, step, db.comments[c].task, db.comments[c].author, c)

\* A reader lists the comments of a task, to mark them as read later.
ListComments(p) ==
  \E i \in DOMAIN db.tasks, r \in Readers :
    /\ OnComments(p, "listed", i, r, 1)
    /\ shown' = shown \cup {<<r, c>> : c \in {c \in DOMAIN db.comments : db.comments[c].task = i}}

\* The readers of task i for whom a write stamped at comes between a list and
\* its mark, or no later than a mark that is stored.
ReadingMeanwhile(i, at) ==
  {r \in Readers :
     \/ at <= db.marks[r][i]
     \/ \E q \in Callers : op[q].step \in {"listed", "mark"} /\ op[q].id = i /\ op[q].who = r}

\* Ghost: a comment that is new or has changed has been shown to nobody else.
Unshown(c, i, at) ==
  shown' = {s \in shown : s[2] # c} \cup (ReadingMeanwhile(i, at) \X {c})

InsertComment(p) ==
  /\ At(p, "comment")
  /\ Commits([db EXCEPT !.comments = Append(@,
       [task |-> op[p].id, author |-> op[p].who, updated |-> op[p].at, there |-> TRUE])])
  /\ Unshown(Len(db.comments) + 1, op[p].id, op[p].at)
  /\ Goto(p, "logComment")
  /\ Clock

\* The row task_comment_created.
LogComment(p) ==
  /\ At(p, "logComment") /\ lock = "free"
  /\ Reads /\ Finish(p)
  /\ Clock /\ UNCHANGED shown

\* Mutant: updated_at keeps the time of the creation.
EditedUnstamped(comment, at) == comment

\* The UPDATE of update_task_comment; of a row that is gone it changes nothing.
Edited(comment, at) == [comment EXCEPT !.updated = at]

EditComment(p) ==
  LET c == op[p].comment IN
  /\ At(p, "edit") /\ lock = "free"
  /\ IF db.comments[c].there
       THEN /\ Commits([db EXCEPT !.comments[c] = Edited(@, op[p].at)])
            /\ Unshown(c, op[p].id, op[p].at)
       ELSE Reads /\ UNCHANGED shown
  /\ Finish(p)
  /\ Clock

\* DELETE and its log row, in one transaction.
RemoveComment(p) ==
  /\ At(p, "remove")
  /\ Commits([db EXCEPT !.comments[op[p].comment].there = FALSE,
                        !.removals = Append(@, op[p].comment)])
  /\ Finish(p)
  /\ Clock /\ UNCHANGED shown

StampMark(p) ==
  /\ At(p, "listed")
  /\ op' = [op EXCEPT ![p].at = now, ![p].step = "mark"]
  /\ Reads /\ Clock /\ UNCHANGED shown

\* mark_task_comments_read
MarkRead(p) ==
  /\ At(p, "mark")
  /\ Commits([db EXCEPT !.marks[op[p].who][op[p].id] = op[p].at])
  /\ Finish(p)
  /\ Clock /\ UNCHANGED shown

\* get_unread_task_comment_count
Unread(r, c) ==
  LET comment == db.comments[c] IN
  comment.author # r /\ comment.updated > db.marks[r][comment.task]

-----------------------------------------------------------------------------
\* The worker is killed, or an exception ends the call.
Crash(p) ==
  /\ ~At(p, "idle") /\ crashes < MaxCrashes
  /\ crashes' = crashes + 1
  /\ Rollback(p) /\ Finish(p)
  /\ spoilt' = spoilt \cup (IF op[p].kind = "batch" THEN {} ELSE Touched(op[p]))
  /\ UNCHANGED <<now, started, shown>>

Tick == now < MaxTime /\ now' = now + 1
        /\ UNCHANGED <<db, draft, lock, op, started, crashes, spoilt, shown>>

OnTasks(p) == \/ Create(p) \/ Transition(p) \/ Update(p) \/ Assign(p) \/ Batch(p)
Requests(p) == \/ OnTasks(p) /\ UNCHANGED shown
               \/ Comment(p) /\ UNCHANGED shown
               \/ EditOrRemove(p) /\ UNCHANGED shown
               \/ ListComments(p)
Step(p) == \/ Insert(p) \/ Reread(p) \/ LogCreated(p) \/ LogAssigned(p) \/ Read(p)
           \/ WriteStatus(p) \/ LogStatus(p) \/ WriteUpdate(p) \/ LogUpdated(p)
           \/ WriteAssign(p) \/ Check(p) \/ Notify(p)
           \/ ReadItem(p) \/ WriteItem(p) \/ CommitBatch(p)
CommentStep(p) == \/ InsertComment(p) \/ LogComment(p) \/ EditComment(p)
                  \/ RemoveComment(p) \/ StampMark(p) \/ MarkRead(p)

Next ==
  \/ \E p \in Callers : \/ Requests(p) \/ CommentStep(p) \/ Crash(p)
                        \/ Step(p) /\ UNCHANGED shown
  \/ Tick

Spec == Init /\ [][Next]_vars

-----------------------------------------------------------------------------
(* Properties *)

Quiet(id) == id \notin spoilt /\ \A p \in Callers : id \notin Touched(op[p])

\* A batch is stored whole or not at all: no task, log row or reader outside
\* it sees part of it, and no two batches make two tasks of one external_id, if
\* the table was created with that constraint.
BatchesAreWhole ==
  /\ \A i \in DOMAIN db.log : db.log[i].batch # 0 =>
       \E j \in DOMAIN db.log :
         db.log[j].action = "synced" /\ db.log[j].batch = db.log[i].batch
  /\ \A e \in ExternalIds : \A i, j \in Holders(db, e) : i = j

\* "Audit changes in /audit-log" (docs/COLLABORATION.md:26): once no operation
\* on a task runs, and none was overlapped or cut short, the last log rows
\* tell the status and the assignee the task has.  A comment is gone exactly
\* when a row tells that it was deleted.
AuditFollowsTasks ==
  /\ \A i \in DOMAIN db.tasks : Quiet(i) =>
       /\ StatusTold(db.log, i, db.tasks[i].status)
       /\ AssigneeTold(db.log, i, db.tasks[i].assignee)
  /\ RemovalsTold(db)

\* The logged transitions of such a task form a chain of allowed transitions,
\* each from the status the row before tells.
TransitionsFormAChain ==
  \A i \in DOMAIN db.tasks : Quiet(i) => Chain(db.log, i)

\* Two notices of one task to one address are the rate limit apart, however the
\* task is reassigned, unless operations on it overlapped or were cut short.
NoticesAreSpaced ==
  \A i, j \in DOMAIN db.notices :
    i < j /\ db.notices[j].id \notin spoilt => Apart(db.notices[i], db.notices[j])

\* What others write is counted as unread until the reader has been shown it as
\* it stands, however comments are edited and marks are set; except what is
\* written between a list and its mark, which the mark covers unseen.
UnreadUntilShown ==
  \A c \in DOMAIN db.comments, r \in Readers :
    db.comments[c].there /\ db.comments[c].author # r /\ <<r, c>> \notin shown
      => Unread(r, c)

=============================================================================
