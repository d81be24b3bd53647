---------------------------- MODULE MCTaskBoard ----------------------------
(* TaskBoard for TLC: a batch of two items, one whose second item is       *)
(* invalid, and one whose item names no task, by neither its id nor an     *)
(* external_id.  Callers are interchangeable.                              *)
EXTENDS TaskBoard, TLC

CONSTANTS e1, e2, staff, admin, m1, m2

Item(i, e, a, ok) == [id |-> i, external |-> e, status |-> "in-progress",
                      assignee |-> a, valid |-> ok]

ThreeBatches ==
  {<<Item(0, e1, admin, TRUE), Item(1, e2, staff, TRUE)>>,
   <<Item(1, e1, admin, TRUE), Item(0, e2, staff, FALSE)>>,
   <<Item(0, NoExternalId, staff, TRUE)>>}

New(e, a, mail) ==
  [external |-> e, status |-> "in-progress", assignee |-> a, email |-> mail]
ThreeTasks == {New(e1, staff, m1), New(NoExternalId, staff, NoEmail),
               New(NoExternalId, admin, m1)}

\* An empty board, and one with a task that has been commented on.
OneComment ==
  LET task == New(NoExternalId, staff, NoEmail)
      row(action) == Entry(action, 1, task, task.status, 0)
  IN  [Empty EXCEPT !.tasks = <<task>>, !.log = <<row("created"), row("assigned")>>,
         !.comments = <<[task |-> 1, author |-> staff, updated |-> 0, there |-> TRUE]>>]
TwoBoards == {Empty, OneComment}

Symmetry == Permutations(Callers)
=============================================================================
