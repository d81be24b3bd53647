--------------------------- MODULE TaskBoardProofs ---------------------------
(***************************************************************************)
(* The safety properties of TaskBoard for any callers, tasks, batches,     *)
(* comments and bounds: a batch is stored whole or not at all, a comment   *)
(* counts as unread until it has been shown, notices to one address are    *)
(* the rate limit apart, the log tells what the tasks hold, and its        *)
(* transitions form a chain of allowed ones.                               *)
(*                                                                         *)
(* None is inductive.  The first two follow from IInv: what the open       *)
(* transaction holds (Good of the draft) and what a reader between a list  *)
(* and its mark knows (CommentOp).  The others hold of tasks on which no   *)
(* two operations met; OverlapInv says that meeting spoils a task, so what *)
(* an operation has read of its task stays so while it runs: NoticeInv has *)
(* what it knows of the notices between the check and the storing of its   *)
(* own, AuditInv what it still owes the log after each of its writes.      *)
(***************************************************************************)
EXTENDS TaskBoard, TLAPS

IsSeq(s) == \E S : s \in Seq(S)

IsTask(t) == DOMAIN t = {"external", "status", "assignee", "email"}
TasksOK(ts) ==
  /\ IsSeq(ts) /\ DOMAIN ts \subseteq Ids
  /\ \A i \in DOMAIN ts : IsTask(ts[i])
  /\ \A i, j \in DOMAIN ts :
       ts[i].external = ts[j].external /\ ts[i].external \in ExternalIds => i = j

\* Every log row of a batch other than b is explained by its last row.
LogOK(log, b) ==
  /\ IsSeq(log)
  /\ \A i \in DOMAIN log : log[i].batch # 0 /\ log[i].batch # b =>
       \E j \in DOMAIN log : log[j].action = "synced" /\ log[j].batch = log[i].batch

IsComment(c) ==
  /\ DOMAIN c = {"task", "author", "updated", "there"}
  /\ c.task \in Ids /\ c.updated \in Int
CommentsOK(cs) == IsSeq(cs) /\ \A c \in DOMAIN cs : IsComment(cs[c])
MarksOK(ms) ==
  /\ ms = [r \in Readers |-> [i \in Ids |-> ms[r][i]]]
  /\ \A r \in Readers, i \in Ids : ms[r][i] \in Int

Fields == {"tasks", "log", "notices", "comments", "marks", "removals"}
Good(d, b) ==
  /\ DOMAIN d = Fields
  /\ TasksOK(d.tasks) /\ LogOK(d.log, b) /\ CommentsOK(d.comments) /\ MarksOK(d.marks)

\* Tasks come and stay.
Longer(d, e) == DOMAIN d.tasks \subseteq DOMAIN e.tasks
SameComments(d, e) == e.comments = d.comments /\ e.marks = d.marks

-----------------------------------------------------------------------------
(* The invariant of the transactions and the comments *)

OpFields == {"step", "kind", "id", "asked", "seen", "row", "items", "found", "batch",
             "at", "who", "comment"}

\* The steps of an operation on one task that is there.
TaskSteps == {"read", "write", "reread", "logStatus", "logUpdated", "logCreated", "logAssigned",
              "check", "notify"}

\* An operation o of a caller whose view of the database is v.
TaskOp(o, v) ==
  /\ DOMAIN o = OpFields /\ IsTask(o.seen) /\ IsTask(o.row)
  /\ o.step = "insert" => IsTask(o.asked)
  /\ o.step \in TaskSteps => o.id \in DOMAIN v.tasks
  /\ o.step = "writeItem" /\ o.found => o.id \in DOMAIN v.tasks

CommentOp(o, d, s) ==
  /\ o.step \in {"comment", "edit", "listed", "mark"} => o.id \in Ids /\ o.at \in Int
  /\ o.step = "edit" =>
       o.comment \in DOMAIN d.comments /\ d.comments[o.comment].task = o.id
  /\ o.step \in {"listed", "mark"} =>
       /\ o.who \in Readers
       /\ \A c \in DOMAIN d.comments : d.comments[c].task = o.id => <<o.who, c>> \in s

UnreadOK(d, s) ==
  \A c \in DOMAIN d.comments, r \in Readers :
    d.comments[c].there /\ d.comments[c].author # r /\ <<r, c>> \notin s =>
      d.comments[c].updated > d.marks[r][d.comments[c].task]

InBatch(o) == o.step \in {"readItem", "writeItem", "commit"}

\* What the transaction of operation o holds, as the draft f of d.
Transaction(d, f, o) ==
  InBatch(o) /\ Good(f, o.batch) /\ Longer(d, f) /\ SameComments(d, f)

IInv ==
  /\ Good(db, 0) /\ UnreadOK(db, shown)
  /\ now \in Int /\ lock \in Callers \cup {"free"}
  /\ op = [p \in Callers |-> op[p]]
  /\ \A p \in Callers :
       /\ TaskOp(op[p], View(p)) /\ CommentOp(op[p], db, shown)
       /\ lock = p => Transaction(db, draft, op[p])
       /\ op[p].step = "commit" => lock = p

-----------------------------------------------------------------------------
(* Sequences *)

LEMMA AppendTo ==
  ASSUME NEW s, IsSeq(s), NEW x
  PROVE  /\ IsSeq(Append(s, x)) /\ Len(s) \in Nat /\ DOMAIN s = 1..Len(s)
         /\ DOMAIN Append(s, x) = 1..(Len(s) + 1)
         /\ \A i \in DOMAIN s : Append(s, x)[i] = s[i]
         /\ Append(s, x)[Len(s) + 1] = x
<1>1. PICK S : s \in Seq(S)
  BY DEF IsSeq
<1>2. s \in Seq(S \cup {x})
  BY <1>1
<1>3. Append(s, x) \in Seq(S \cup {x})
  BY <1>2
<1>4. QED BY <1>1, <1>2, <1>3 DEF IsSeq

LEMMA Concat ==
  ASSUME NEW s, NEW t, IsSeq(s), IsSeq(t)
  PROVE  /\ IsSeq(s \o t)
         /\ \A i \in DOMAIN s : i \in DOMAIN (s \o t) /\ (s \o t)[i] = s[i]
         /\ \A i \in DOMAIN (s \o t) :
              \/ i \in DOMAIN s /\ (s \o t)[i] = s[i]
              \/ \E k \in DOMAIN t : (s \o t)[i] = t[k]
<1>1. PICK S : s \in Seq(S)
  BY DEF IsSeq
<1>2. PICK T : t \in Seq(T)
  BY DEF IsSeq
<1>3. s \in Seq(S \cup T) /\ t \in Seq(S \cup T)
  BY <1>1, <1>2
<1>4. /\ s \o t \in Seq(S \cup T) /\ Len(s \o t) = Len(s) + Len(t)
      /\ Len(s) \in Nat /\ Len(t) \in Nat
      /\ DOMAIN s = 1..Len(s) /\ DOMAIN t = 1..Len(t)
      /\ DOMAIN (s \o t) = 1..(Len(s) + Len(t))
  BY <1>3
<1>5. \A i \in 1..(Len(s) + Len(t)) :
        (s \o t)[i] = IF i <= Len(s) THEN s[i] ELSE t[i - Len(s)]
  BY <1>3, <1>4
<1>6. IsSeq(s \o t)
  BY <1>4 DEF IsSeq
<1>7. \A i \in DOMAIN s : i \in DOMAIN (s \o t) /\ (s \o t)[i] = s[i]
  BY <1>4, <1>5
<1>8. ASSUME NEW i \in DOMAIN (s \o t)
      PROVE  \/ i \in DOMAIN s /\ (s \o t)[i] = s[i]
             \/ \E k \in DOMAIN t : (s \o t)[i] = t[k]
  <2>1. CASE i <= Len(s)
    BY <1>4, <1>5, <2>1
  <2>2. CASE ~(i <= Len(s))
    <3>1. i - Len(s) \in DOMAIN t
      BY <1>4, <2>2
    <3>2. QED BY <1>4, <1>5, <2>2, <3>1
  <2>3. QED BY <2>1, <2>2
<1>9. QED BY <1>6, <1>7, <1>8

LEMMA ConcatRight ==
  ASSUME NEW s, NEW t, IsSeq(s), IsSeq(t), NEW k \in DOMAIN t
  PROVE  \E i \in DOMAIN (s \o t) : (s \o t)[i] = t[k]
<1>1. PICK S : s \in Seq(S)
  BY DEF IsSeq
<1>2. PICK T : t \in Seq(T)
  BY DEF IsSeq
<1>3. s \in Seq(S \cup T) /\ t \in Seq(S \cup T)
  BY <1>1, <1>2
<1>4. Len(s) + k \in DOMAIN (s \o t) /\ (s \o t)[Len(s) + k] = t[k]
  BY <1>3
<1>5. QED BY <1>4

-----------------------------------------------------------------------------
(* What a write leaves of the database *)

LEMMA SingleRow ==
  ASSUME NEW x
  PROVE  IsSeq(<<x>>) /\ DOMAIN <<x>> = {1} /\ <<x>>[1] = x
<1>1. <<x>> \in Seq({x}) /\ Len(<<x>>) = 1 /\ <<x>>[1] = x
  OBVIOUS
<1>2. DOMAIN <<x>> = 1..Len(<<x>>)
  BY <1>1
<1>3. IsSeq(<<x>>)
  BY <1>1 DEF IsSeq
<1>4. QED BY <1>1, <1>2, <1>3

LEMMA SetElement ==
  ASSUME NEW s, IsSeq(s), NEW i, NEW x
  PROVE  /\ IsSeq([s EXCEPT ![i] = x]) /\ DOMAIN [s EXCEPT ![i] = x] = DOMAIN s
         /\ \A j \in DOMAIN s : [s EXCEPT ![i] = x][j] = IF j = i THEN x ELSE s[j]
<1>1. PICK S : s \in Seq(S)
  BY DEF IsSeq
<1>2. s \in Seq(S \cup {x})
  BY <1>1
<1>3. s = [j \in DOMAIN s |-> s[j]]
  BY <1>1
<1>4. [s EXCEPT ![i] = x] \in Seq(S \cup {x})
  <2>1. CASE i \in DOMAIN s
    BY <1>2, <2>1
  <2>2. CASE i \notin DOMAIN s
    <3>1. [s EXCEPT ![i] = x] = s
      BY <1>3, <2>2
    <3>2. QED BY <1>2, <3>1
  <2>3. QED BY <2>1, <2>2
<1>5. QED BY <1>3, <1>4 DEF IsSeq

\* The external_id of no other task.
Own(ts, i, e) == e \in ExternalIds => \A j \in DOMAIN ts : ts[j].external = e => j = i

LEMMA SetTask ==
  ASSUME NEW ts, TasksOK(ts), NEW i \in DOMAIN ts, NEW t, IsTask(t),
         Own(ts, i, t.external)
  PROVE  LET us == [ts EXCEPT ![i] = t] IN
         TasksOK(us) /\ DOMAIN us = DOMAIN ts
<1> DEFINE us == [ts EXCEPT ![i] = t]
<1>1. /\ IsSeq(us) /\ DOMAIN us = DOMAIN ts
      /\ \A j \in DOMAIN ts : us[j] = IF j = i THEN t ELSE ts[j]
  BY SetElement DEF TasksOK
<1> HIDE DEF us
<1>2. ASSUME NEW j \in DOMAIN ts, NEW k \in DOMAIN ts,
             us[j].external = us[k].external, us[j].external \in ExternalIds
      PROVE  j = k
  <2>1. CASE j # i /\ k # i
    BY <1>1, <1>2, <2>1 DEF TasksOK
  <2>2. CASE j = i \/ k = i
    BY <1>1, <1>2, <2>2 DEF Own
  <2>3. QED BY <2>1, <2>2
<1>3. TasksOK(us)
  BY <1>1, <1>2 DEF TasksOK
<1>4. QED BY <1>1, <1>3 DEF us

LEMMA OwnTask ==
  ASSUME NEW ts, TasksOK(ts), NEW i \in DOMAIN ts
  PROVE  Own(ts, i, ts[i].external)
BY DEF TasksOK, Own

LEMMA OwnIfUnique ==
  ASSUME NEW d, NEW i, NEW e, Unique(d, i, e)
  PROVE  Own(d.tasks, i, e)
BY TaskBoardAssumption DEF Unique, Holders, Own

LEMMA AddTask ==
  ASSUME NEW ts, TasksOK(ts), NEW t, IsTask(t), Len(ts) + 1 <= MaxTasks,
         Own(ts, Len(ts) + 1, t.external), DOMAIN Append(ts, t) \subseteq Ids
  PROVE  LET us == Append(ts, t) IN
         TasksOK(us) /\ DOMAIN ts \subseteq DOMAIN us
<1> DEFINE us == Append(ts, t)
<1>1. /\ IsSeq(us) /\ Len(ts) \in Nat /\ DOMAIN ts = 1..Len(ts)
      /\ DOMAIN us = 1..(Len(ts) + 1)
      /\ \A j \in DOMAIN ts : us[j] = ts[j]
      /\ us[Len(ts) + 1] = t
  BY AppendTo DEF TasksOK
<1>2. DOMAIN us \subseteq Ids
  OBVIOUS
<1> HIDE DEF us
<1>3. \A j \in DOMAIN us : j \in DOMAIN ts \/ j = Len(ts) + 1
  BY <1>1
<1>4. \A j \in DOMAIN us : IsTask(us[j])
  BY <1>1, <1>3 DEF TasksOK
<1>5. ASSUME NEW j \in DOMAIN us, NEW k \in DOMAIN us,
             us[j].external = us[k].external, us[j].external \in ExternalIds
      PROVE  j = k
  <2>1. CASE j \in DOMAIN ts /\ k \in DOMAIN ts
    BY <1>1, <1>5, <2>1 DEF TasksOK
  <2>2. CASE j \in DOMAIN ts /\ k = Len(ts) + 1
    BY <1>1, <1>5, <2>2 DEF Own
  <2>3. CASE j = Len(ts) + 1 /\ k \in DOMAIN ts
    BY <1>1, <1>5, <2>3 DEF Own
  <2>4. QED BY <1>3, <2>1, <2>2, <2>3
<1>6. TasksOK(us)
  BY <1>1, <1>2, <1>4, <1>5 DEF TasksOK
<1>7. DOMAIN ts \subseteq DOMAIN us
  BY <1>1
<1>8. QED BY <1>6, <1>7 DEF us

\* Rows of no batch, or of the batch b whose transaction writes them.
LEMMA AddRows ==
  ASSUME NEW log, NEW b, LogOK(log, b), NEW es, IsSeq(es),
         \A k \in DOMAIN es : es[k].batch = 0 \/ es[k].batch = b
  PROVE  LogOK(log \o es, b)
<1> DEFINE long == log \o es
<1>0. IsSeq(log)
  BY DEF LogOK
<1>1. /\ IsSeq(long)
      /\ \A i \in DOMAIN log : i \in DOMAIN long /\ long[i] = log[i]
      /\ \A i \in DOMAIN long :
           \/ i \in DOMAIN log /\ long[i] = log[i]
           \/ \E k \in DOMAIN es : long[i] = es[k]
  BY <1>0, Concat
<1> HIDE DEF long
<1>2. ASSUME NEW i \in DOMAIN long, long[i].batch # 0, long[i].batch # b
      PROVE  \E j \in DOMAIN long :
               long[j].action = "synced" /\ long[j].batch = long[i].batch
  <2>1. i \in DOMAIN log /\ long[i] = log[i]
    BY <1>1, <1>2
  <2>2. PICK j \in DOMAIN log : log[j].action = "synced" /\ log[j].batch = log[i].batch
    BY <1>2, <2>1 DEF LogOK
  <2>3. j \in DOMAIN long /\ long[j] = log[j]
    BY <1>1
  <2>4. QED BY <2>1, <2>2, <2>3
<1>3. LogOK(long, b)
  BY <1>1, <1>2 DEF LogOK
<1>4. QED BY <1>3 DEF long

\* Rows of batch b, one of them its last, explain all the rows of b.
LEMMA LastRows ==
  ASSUME NEW log, NEW b, LogOK(log, b), NEW es, IsSeq(es),
         NEW l \in DOMAIN es, es[l].action = "synced"
  PROVE  (\A k \in DOMAIN es : es[k].batch = b) => LogOK(log \o es, 0)
<1> DEFINE long == log \o es
<1>1. IsSeq(log)
  BY DEF LogOK
<1>2. /\ IsSeq(long)
      /\ \A i \in DOMAIN log : i \in DOMAIN long /\ long[i] = log[i]
      /\ \A i \in DOMAIN long :
           \/ i \in DOMAIN log /\ long[i] = log[i]
           \/ \E k \in DOMAIN es : long[i] = es[k]
  BY <1>1, Concat
<1>3. PICK last \in DOMAIN long : long[last] = es[l]
  BY <1>1, ConcatRight
<1> HIDE DEF long
<1>4. ASSUME \A k \in DOMAIN es : es[k].batch = b,
             NEW i \in DOMAIN long, long[i].batch # 0
      PROVE  \E j \in DOMAIN long :
               long[j].action = "synced" /\ long[j].batch = long[i].batch
  <2>1. CASE long[i].batch = b
    BY <1>3, <1>4, <2>1
  <2>2. CASE long[i].batch # b
    <3>1. i \in DOMAIN log /\ long[i] = log[i]
      BY <1>2, <1>4, <2>2
    <3>2. PICK j \in DOMAIN log : log[j].action = "synced" /\ log[j].batch = log[i].batch
      BY <1>4, <2>2, <3>1 DEF LogOK
    <3>3. j \in DOMAIN long /\ long[j] = log[j]
      BY <1>2
    <3>4. QED BY <3>1, <3>2, <3>3
  <2>3. QED BY <2>1, <2>2
<1>5. (\A k \in DOMAIN es : es[k].batch = b) => LogOK(long, 0)
  BY <1>2, <1>4 DEF LogOK
<1>6. QED BY <1>5 DEF long

LEMMA AddComment ==
  ASSUME NEW cs, CommentsOK(cs), NEW c, IsComment(c)
  PROVE  CommentsOK(Append(cs, c))
<1> DEFINE ds == Append(cs, c)
<1>1. /\ IsSeq(ds) /\ Len(cs) \in Nat /\ DOMAIN cs = 1..Len(cs)
      /\ DOMAIN ds = 1..(Len(cs) + 1)
      /\ \A j \in DOMAIN cs : ds[j] = cs[j]
      /\ ds[Len(cs) + 1] = c
  BY AppendTo DEF CommentsOK
<1> HIDE DEF ds
<1>2. \A j \in DOMAIN ds : j \in DOMAIN cs \/ j = Len(cs) + 1
  BY <1>1
<1>3. CommentsOK(ds)
  BY <1>1, <1>2 DEF CommentsOK
<1>4. QED BY <1>3 DEF ds

LEMMA SetComment ==
  ASSUME NEW cs, CommentsOK(cs), NEW i, NEW c, i \in DOMAIN cs => IsComment(c)
  PROVE  CommentsOK([cs EXCEPT ![i] = c])
<1> DEFINE ds == [cs EXCEPT ![i] = c]
<1>1. /\ IsSeq(ds) /\ DOMAIN ds = DOMAIN cs
      /\ \A j \in DOMAIN cs : ds[j] = IF j = i THEN c ELSE cs[j]
  BY SetElement DEF CommentsOK
<1> HIDE DEF ds
<1>2. CommentsOK(ds)
  BY <1>1 DEF CommentsOK
<1>3. QED BY <1>2 DEF ds

-----------------------------------------------------------------------------
(* What a step of one caller leaves to the others *)

LEMMA TaskOpStays ==
  ASSUME NEW o, NEW v, NEW w, TaskOp(o, v), Longer(v, w)
  PROVE  TaskOp(o, w)
BY DEF TaskOp, Longer, TaskSteps

LEMMA CommentsStay ==
  ASSUME NEW d, NEW e, NEW s, SameComments(d, e)
  PROVE  /\ UnreadOK(d, s) => UnreadOK(e, s)
         /\ \A o : CommentOp(o, d, s) => CommentOp(o, e, s)
BY DEF SameComments, UnreadOK, CommentOp

LEMMA LongerAnyway ==
  ASSUME NEW d
  PROVE  Longer(d, d) /\ SameComments(d, d)
BY DEF Longer, SameComments

LEMMA GoodForAny ==
  ASSUME NEW d, NEW b, Good(d, 0)
  PROVE  Good(d, b)
BY DEF Good, LogOK

\* The others keep their operations and their transactions.
OthersKeep(p) ==
  /\ op' = [q \in Callers |-> op'[q]]
  /\ \A q \in Callers \ {p} :
       /\ op'[q] = op[q]
       /\ lock' = q <=> lock = q
       /\ lock = q => db' = db /\ draft' = draft

\* What the step owes for the operation it leaves p with.
OwnStep(p) ==
  /\ TaskOp(op'[p], IF lock' = p THEN draft' ELSE db')
  /\ lock' = p => Transaction(db', draft', op'[p])
  /\ op'[p].step = "commit" => lock' = p

LEMMA StepKeeps ==
  ASSUME IInv, NEW p \in Callers, OthersKeep(p), OwnStep(p),
         lock' \in Callers \cup {"free"}, now' \in Int,
         Good(db', 0), Longer(db, db'), UnreadOK(db', shown'),
         \A q \in Callers : CommentOp(op'[q], db', shown')
  PROVE  IInv'
<1>1. ASSUME NEW q \in Callers \ {p}
      PROVE  /\ TaskOp(op'[q], IF lock' = q THEN draft' ELSE db')
             /\ lock' = q => Transaction(db', draft', op'[q])
             /\ op'[q].step = "commit" => lock' = q
  <2>1. /\ TaskOp(op[q], View(q))
        /\ lock = q => Transaction(db, draft, op[q])
        /\ op[q].step = "commit" => lock = q
    BY DEF IInv
  <2>2. /\ op'[q] = op[q]
        /\ lock' = q <=> lock = q
        /\ lock = q => db' = db /\ draft' = draft
    BY DEF OthersKeep
  <2>3. CASE lock = q
    BY <2>1, <2>2, <2>3 DEF View
  <2>4. CASE lock # q
    <3>1. TaskOp(op[q], db)
      BY <2>1, <2>4 DEF View
    <3>2. TaskOp(op[q], db')
      BY <3>1, TaskOpStays
    <3>3. QED BY <2>1, <2>2, <2>4, <3>2
  <2>5. QED BY <2>3, <2>4
<1>2. \A q \in Callers :
        /\ TaskOp(op'[q], IF lock' = q THEN draft' ELSE db')
        /\ lock' = q => Transaction(db', draft', op'[q])
        /\ op'[q].step = "commit" => lock' = q
  BY <1>1 DEF OwnStep
<1>3. \A q \in Callers :
        /\ TaskOp(op[q], View(q))' /\ CommentOp(op[q], db, shown)'
        /\ (lock = q => Transaction(db, draft, op[q]))'
        /\ (op[q].step = "commit" => lock = q)'
  BY <1>2 DEF View
<1>4. (op = [q \in Callers |-> op[q]])'
  BY DEF OthersKeep
<1>5. QED BY <1>3, <1>4 DEF IInv

\* A step of an operation outside of transactions.
LEMMA OutsideKeeps ==
  ASSUME IInv, NEW p \in Callers,
         op' = [op EXCEPT ![p] = op'[p]], ~InBatch(op[p]),
         op'[p].step # "commit", TaskOp(op'[p], db'),
         UNCHANGED <<lock, draft>>, lock = "free" \/ db' = db, now' \in Int,
         Good(db', 0), Longer(db, db'), UnreadOK(db', shown'),
         \A q \in Callers : CommentOp(op'[q], db', shown')
  PROVE  IInv'
<1>1. op = [q \in Callers |-> op[q]] /\ lock \in Callers \cup {"free"}
  BY DEF IInv
<1>2. op' = [q \in Callers |-> op'[q]] /\ \A q \in Callers \ {p} : op'[q] = op[q]
  BY <1>1
<1>3. \A q \in Callers : q # "free"
  BY TaskBoardAssumption
<1>4. lock # p
  BY DEF IInv, Transaction
<1>5. OthersKeep(p)
  BY <1>2, <1>3 DEF OthersKeep
<1>6. OwnStep(p)
  BY <1>4 DEF OwnStep
<1>7. lock' \in Callers \cup {"free"}
  BY <1>1
<1>8. QED BY <1>5, <1>6, <1>7, StepKeeps

\* One that does not touch comments.
LEMMA TaskStepKeeps ==
  ASSUME IInv, NEW p \in Callers,
         op' = [op EXCEPT ![p] = op'[p]], ~InBatch(op[p]),
         op'[p].step \notin {"commit", "comment", "edit", "listed", "mark"},
         TaskOp(op'[p], db'),
         UNCHANGED <<lock, draft, shown>>, lock = "free" \/ db' = db, now' \in Int,
         Good(db', 0), Longer(db, db'), SameComments(db, db')
  PROVE  IInv'
<1>1. UnreadOK(db', shown')
  BY CommentsStay DEF IInv
<1>2. ASSUME NEW q \in Callers
      PROVE  CommentOp(op'[q], db', shown')
  <2>1. CASE q = p
    BY <2>1 DEF CommentOp
  <2>2. CASE q # p
    <3>1. op'[q] = op[q] /\ CommentOp(op[q], db, shown)
      BY <2>2 DEF IInv
    <3>2. QED BY <3>1, CommentsStay
  <2>3. QED BY <2>1, <2>2
<1>3. QED BY <1>1, <1>2, OutsideKeeps

-----------------------------------------------------------------------------
(* The operations and the writes they make *)

\* u is the operation o at another step.
SameOp(o, u) ==
  /\ DOMAIN u = DOMAIN o
  /\ u.id = o.id /\ u.asked = o.asked /\ u.seen = o.seen /\ u.row = o.row /\ u.items = o.items
  /\ u.found = o.found /\ u.batch = o.batch /\ u.at = o.at /\ u.who = o.who
  /\ u.comment = o.comment

LEMMA GotoOp ==
  ASSUME IInv, NEW p \in Callers, NEW step, op' = [op EXCEPT ![p].step = step]
  PROVE  /\ op' = [op EXCEPT ![p] = op'[p]]
         /\ op'[p].step = step /\ SameOp(op[p], op'[p])
<1>1. op = [q \in Callers |-> op[q]] /\ DOMAIN op[p] = OpFields
  BY DEF IInv, TaskOp
<1>2. op'[p] = [op[p] EXCEPT !.step = step]
  BY <1>1
<1>3. op' = [op EXCEPT ![p] = op'[p]]
  BY <1>1, <1>2
<1> DEFINE o == op[p]
           u == [o EXCEPT !.step = step]
<1>4. u.step = step /\ SameOp(o, u)
  <2>1. DOMAIN o = OpFields
    BY <1>1
  <2> HIDE DEF o
  <2>2. QED BY <2>1 DEF SameOp, OpFields
<1>5. QED BY <1>2, <1>3, <1>4

LEMMA NewTaskIsTask == IsTask(NewTask)
BY DEF IsTask, NewTask

LEMMA Idle ==
  ASSUME NEW v
  PROVE  TaskOp(NoOp, v) /\ NoOp.step = "idle" /\ DOMAIN NoOp = OpFields
BY NewTaskIsTask DEF TaskOp, NoOp, OpFields, TaskSteps

LEMMA FinishOp ==
  ASSUME IInv, NEW p \in Callers, Finish(p)
  PROVE  op' = [op EXCEPT ![p] = op'[p]] /\ op'[p] = NoOp
BY DEF IInv, Finish

LEMMA WithRows ==
  ASSUME NEW d, NEW b, Good(d, b), NEW es, IsSeq(es),
         \A k \in DOMAIN es : es[k].batch = 0 \/ es[k].batch = b
  PROVE  /\ Good(WithLog(d, es), b)
         /\ Longer(d, WithLog(d, es)) /\ SameComments(d, WithLog(d, es))
<1> DEFINE e == WithLog(d, es)
<1>1. /\ DOMAIN e = Fields /\ e.log = d.log \o es
      /\ e.tasks = d.tasks /\ e.comments = d.comments /\ e.marks = d.marks
  BY DEF WithLog, Good, Fields
<1>2. LogOK(d.log \o es, b)
  BY AddRows DEF Good
<1> HIDE DEF e
<1>3. Good(e, b) /\ Longer(d, e) /\ SameComments(d, e)
  BY <1>1, <1>2 DEF Good, Longer, SameComments
<1>4. QED BY <1>3 DEF e

LEMMA WithTasks ==
  ASSUME NEW d, NEW b, Good(d, b), NEW ts, TasksOK(ts),
         DOMAIN d.tasks \subseteq DOMAIN ts
  PROVE  LET e == [d EXCEPT !.tasks = ts] IN
         /\ Good(e, b) /\ Longer(d, e) /\ SameComments(d, e)
         /\ e.tasks = ts
<1> DEFINE e == [d EXCEPT !.tasks = ts]
<1>1. /\ DOMAIN e = Fields /\ e.tasks = ts /\ e.log = d.log
      /\ e.comments = d.comments /\ e.marks = d.marks
  BY DEF Good, Fields
<1> HIDE DEF e
<1>2. Good(e, b) /\ Longer(d, e) /\ SameComments(d, e)
  BY <1>1 DEF Good, Longer, SameComments
<1>3. QED BY <1>1, <1>2 DEF e

LEMMA OneEntry ==
  ASSUME NEW action, NEW id, NEW task, NEW from, NEW batch
  PROVE  LET es == <<Entry(action, id, task, from, batch)>> IN
         /\ IsSeq(es) /\ DOMAIN es = {1}
         /\ es[1].action = action /\ \A k \in DOMAIN es : es[k].batch = batch
<1> DEFINE e == Entry(action, id, task, from, batch)
<1>1. e.action = action /\ e.batch = batch
  BY DEF Entry
<1> HIDE DEF e
<1>2. IsSeq(<<e>>) /\ DOMAIN <<e>> = {1} /\ <<e>>[1] = e
  BY SingleRow
<1>3. \A k \in DOMAIN <<e>> : k = 1
  BY <1>2
<1>4. /\ <<e>>[1].action = action /\ \A k \in DOMAIN <<e>> : <<e>>[k].batch = batch
  BY <1>1, <1>2, <1>3
<1>5. QED BY <1>2, <1>4 DEF e

\* A step that only adds one row to the log.
LEMMA OneRow ==
  ASSUME IInv, NEW action, NEW id, NEW task, NEW from,
         Commits(WithLog(db, <<Entry(action, id, task, from, 0)>>))
  PROVE  /\ UNCHANGED <<lock, draft>> /\ lock = "free"
         /\ Good(db', 0) /\ Longer(db, db') /\ SameComments(db, db')
         /\ db'.tasks = db.tasks
<1> DEFINE es == <<Entry(action, id, task, from, 0)>>
<1>1. IsSeq(es) /\ \A k \in DOMAIN es : es[k].batch = 0
  BY OneEntry
<1> HIDE DEF es
<1>2. db' = WithLog(db, es) /\ UNCHANGED <<lock, draft>> /\ lock = "free"
  BY DEF Commits, es
<1>3. Good(db, 0)
  BY DEF IInv
<1>4. /\ Good(WithLog(db, es), 0)
      /\ Longer(db, WithLog(db, es)) /\ SameComments(db, WithLog(db, es))
  BY <1>1, <1>3, WithRows
<1>5. WithLog(db, es).tasks = db.tasks
  BY DEF WithLog
<1>6. QED BY <1>2, <1>4, <1>5

\* A step that only sets a task.
LEMMA OneTask ==
  ASSUME IInv, NEW i \in DOMAIN db.tasks, NEW t, IsTask(t),
         Own(db.tasks, i, t.external)
  PROVE  LET e == [db EXCEPT !.tasks = [db.tasks EXCEPT ![i] = t]] IN
         Good(e, 0) /\ Longer(db, e) /\ SameComments(db, e)
<1> DEFINE ts == [db.tasks EXCEPT ![i] = t]
<1>1. Good(db, 0) /\ TasksOK(db.tasks)
  BY DEF IInv, Good
<1>2. TasksOK(ts) /\ DOMAIN ts = DOMAIN db.tasks
  BY <1>1, SetTask
<1> HIDE DEF ts
<1>3. LET e == [db EXCEPT !.tasks = ts] IN
      Good(e, 0) /\ Longer(db, e) /\ SameComments(db, e)
  BY <1>1, <1>2, WithTasks
<1>4. QED BY <1>3 DEF ts

-----------------------------------------------------------------------------
(* The initial states and the requests *)

LEMMA InitInv == Init => IInv
<1> SUFFICES ASSUME Init
             PROVE  IInv
  OBVIOUS
<1>1. /\ IsDatabase(db)
      /\ \A i \in DOMAIN db.log : db.log[i].batch = 0
      /\ \A i, j \in DOMAIN db.tasks :
           db.tasks[i].external = db.tasks[j].external /\ i # j =>
             db.tasks[i].external = NoExternalId
      /\ \A c \in DOMAIN db.comments, r \in Readers :
           db.comments[c].updated > db.marks[r][db.comments[c].task]
  BY DatabasesAssumption DEF Init
<1>2. TasksOK(db.tasks)
  <2>1. db.tasks \in Seq(Tasks) /\ Len(db.tasks) \in 0..MaxTasks
    BY <1>1 DEF IsDatabase
  <2>2. IsSeq(db.tasks)
    BY <2>1 DEF IsSeq
  <2>3. DOMAIN db.tasks \subseteq Ids
    <3>1. Len(db.tasks) \in Nat /\ DOMAIN db.tasks = 1..Len(db.tasks)
      BY <2>1
    <3>2. Len(db.tasks) <= MaxTasks
      BY <2>1, <3>1, TaskBoardAssumption
    <3>3. QED BY <3>1, <3>2, TaskBoardAssumption DEF Ids
  <2>4. \A i \in DOMAIN db.tasks : IsTask(db.tasks[i])
    <3>1. \A i \in DOMAIN db.tasks : db.tasks[i] \in Tasks
      BY <2>1
    <3>2. \A t \in Tasks : IsTask(t)
      BY DEF Tasks, IsTask
    <3>3. QED BY <3>1, <3>2
  <2>5. QED BY <1>1, <2>2, <2>3, <2>4, TaskBoardAssumption DEF TasksOK
<1>3. LogOK(db.log, 0)
  BY <1>1 DEF LogOK, IsSeq, IsDatabase
<1>4. CommentsOK(db.comments)
  <2>1. db.comments \in Seq(Comments)
    BY <1>1 DEF IsDatabase
  <2>2. \A c \in DOMAIN db.comments : db.comments[c] \in Comments
    BY <2>1
  <2>3. \A c \in Comments : IsComment(c)
    BY DEF Comments, IsComment
  <2>4. QED BY <2>1, <2>2, <2>3 DEF CommentsOK, IsSeq
<1>5. MarksOK(db.marks)
  <2>1. db.marks \in [Readers -> [Ids -> Nat \cup {-1}]]
    BY <1>1 DEF IsDatabase, Marks, Never
  <2>2. QED BY <2>1 DEF MarksOK
<1>6. Good(db, 0)
  BY <1>1, <1>2, <1>3, <1>4, <1>5 DEF Good, IsDatabase, Fields
<1>7. UnreadOK(db, shown)
  BY <1>1 DEF UnreadOK
<1>8. \A p \in Callers : op[p] = NoOp /\ lock # p
  BY TaskBoardAssumption DEF Init
<1>9. ASSUME NEW p \in Callers
      PROVE  TaskOp(op[p], View(p)) /\ CommentOp(op[p], db, shown)
             /\ op[p].step # "commit"
  BY <1>8, Idle DEF CommentOp
<1>10. op = [p \in Callers |-> op[p]] /\ now \in Int /\ lock \in Callers \cup {"free"}
  BY DEF Init
<1>11. QED BY <1>6, <1>7, <1>8, <1>9, <1>10 DEF IInv

LEMMA GoodDatabase ==
  ASSUME IInv
  PROVE  /\ Good(db, 0) /\ TasksOK(db.tasks) /\ Longer(db, db) /\ SameComments(db, db)
         /\ now \in Int
BY LongerAnyway DEF IInv, Good

LEMMA BeginKeeps ==
  ASSUME IInv, NEW p \in Callers, NEW new, Begin(p, new), UNCHANGED shown,
         new.step \notin {"commit", "comment", "edit", "listed", "mark"},
         TaskOp(new, db)
  PROVE  IInv'
<1>1. /\ op[p].step = "idle" /\ op' = [op EXCEPT ![p] = new]
      /\ UNCHANGED <<db, draft, lock, now>>
  BY DEF Begin, At
<1>2. op'[p] = new
  BY <1>1 DEF IInv
<1>3. ~InBatch(op[p])
  BY <1>1 DEF InBatch
<1>4. QED BY <1>1, <1>2, <1>3, GoodDatabase, TaskStepKeeps

LEMMA OnTasksKeeps ==
  ASSUME IInv, NEW p \in Callers, OnTasks(p), UNCHANGED shown
  PROVE  IInv'
<1>1. CASE Create(p)
  <2>1. PICK task \in Creations :
          Begin(p, [NoOp EXCEPT !.step = "insert", !.kind = "create", !.asked = task])
    BY <1>1 DEF Create
  <2> DEFINE new == [NoOp EXCEPT !.step = "insert", !.kind = "create", !.asked = task]
  <2>2. IsTask(task)
    BY TaskBoardAssumption DEF Tasks, IsTask
  <2>3. /\ DOMAIN new = OpFields /\ new.step = "insert" /\ new.asked = task
        /\ new.seen = NewTask
        /\ new.row = NewTask
    BY DEF NoOp, OpFields
  <2>4. Begin(p, new)
    BY <2>1
  <2> HIDE DEF new
  <2>5. TaskOp(new, db)
    BY <2>2, <2>3, NewTaskIsTask DEF TaskOp, TaskSteps
  <2>6. QED BY <2>3, <2>4, <2>5, BeginKeeps
<1>2. ASSUME NEW kind, NEW asked, Request(p, kind, asked)
      PROVE  IInv'
  <2>1. PICK i \in DOMAIN db.tasks :
          Begin(p, [NoOp EXCEPT !.step = "read", !.kind = kind, !.id = i, !.asked = asked])
    BY <1>2 DEF Request
  <2> DEFINE new == [NoOp EXCEPT !.step = "read", !.kind = kind, !.id = i, !.asked = asked]
  <2>2. /\ DOMAIN new = OpFields /\ new.step = "read" /\ new.id = i /\ new.seen = NewTask
        /\ new.row = NewTask
    BY DEF NoOp, OpFields
  <2>3. Begin(p, new)
    BY <2>1
  <2> HIDE DEF new
  <2>4. TaskOp(new, db)
    BY <2>2, NewTaskIsTask DEF TaskOp, TaskSteps
  <2>5. QED BY <2>2, <2>3, <2>4, BeginKeeps
<1>3. CASE Transition(p) \/ Update(p) \/ Assign(p)
  BY <1>2, <1>3 DEF Transition, Update, Assign
<1>4. CASE Batch(p)
  <2>1. PICK b \in Batches :
          Begin(p, [NoOp EXCEPT !.step = "readItem", !.kind = "batch", !.items = b,
                                !.batch = started + 1])
    BY <1>4 DEF Batch
  <2> DEFINE new == [NoOp EXCEPT !.step = "readItem", !.kind = "batch", !.items = b,
                                 !.batch = started + 1]
  <2>2. /\ DOMAIN new = OpFields /\ new.step = "readItem" /\ new.seen = NewTask
        /\ new.row = NewTask
    BY DEF NoOp, OpFields
  <2>3. Begin(p, new)
    BY <2>1
  <2> HIDE DEF new
  <2>4. TaskOp(new, db)
    BY <2>2, NewTaskIsTask DEF TaskOp, TaskSteps
  <2>5. QED BY <2>2, <2>3, <2>4, BeginKeeps
<1>5. QED BY <1>1, <1>3, <1>4 DEF OnTasks

\* A request about comments, after which s has been shown.
LEMMA OnCommentsKeeps ==
  ASSUME IInv, NEW p \in Callers, NEW step, NEW i \in Ids, NEW who, NEW c, NEW s,
         OnComments(p, step, i, who, c), shown' = shown \cup s,
         step \in {"comment", "edit", "remove", "listed"},
         step = "edit" => c \in DOMAIN db.comments /\ db.comments[c].task = i,
         step = "listed" => /\ who \in Readers
                            /\ \A d \in DOMAIN db.comments :
                                 db.comments[d].task = i => <<who, d>> \in s
  PROVE  IInv'
<1> DEFINE new == [NoOp EXCEPT !.step = step, !.kind = "comments", !.id = i, !.who = who,
                               !.comment = c, !.at = now]
<1>1. /\ DOMAIN new = OpFields /\ new.step = step /\ new.id = i /\ new.seen = NewTask
      /\ new.who = who /\ new.comment = c /\ new.at = now /\ new.row = NewTask
  BY DEF NoOp, OpFields
<1>2. Begin(p, new)
  BY DEF OnComments
<1> HIDE DEF new
<1>3. /\ op[p].step = "idle" /\ op' = [op EXCEPT ![p] = new]
      /\ UNCHANGED <<db, draft, lock, now>>
  BY <1>2 DEF Begin, At
<1>4. op'[p] = new /\ \A q \in Callers : q # p => op'[q] = op[q]
  BY <1>3 DEF IInv
<1>5. ~InBatch(op[p])
  BY <1>3 DEF InBatch
<1>6. TaskOp(new, db)
  BY <1>1, NewTaskIsTask DEF TaskOp, TaskSteps
<1>7. UnreadOK(db', shown')
  BY <1>3 DEF IInv, UnreadOK
<1>8. ASSUME NEW q \in Callers
      PROVE  CommentOp(op'[q], db', shown')
  <2>1. CASE q = p
    BY <1>1, <1>3, <1>4, <2>1, GoodDatabase DEF CommentOp
  <2>2. CASE q # p
    <3>1. op'[q] = op[q] /\ CommentOp(op[q], db, shown) /\ db' = db
      BY <1>3, <1>4, <2>2 DEF IInv
    <3>2. QED BY <3>1 DEF CommentOp
  <2>3. QED BY <2>1, <2>2
<1>9. QED
  BY <1>1, <1>3, <1>4, <1>5, <1>6, <1>7, <1>8, GoodDatabase, OutsideKeeps

LEMMA RequestsKeep ==
  ASSUME IInv, NEW p \in Callers, Requests(p)
  PROVE  IInv'
<1>1. DOMAIN db.tasks \subseteq Ids /\ CommentsOK(db.comments)
  BY DEF IInv, Good, TasksOK
<1>2. CASE OnTasks(p) /\ UNCHANGED shown
  BY <1>2, OnTasksKeeps
<1>3. CASE Comment(p) /\ UNCHANGED shown
  <2>1. PICK i \in DOMAIN db.tasks, a \in Authors : OnComments(p, "comment", i, a, 1)
    BY <1>3 DEF Comment
  <2>2. shown' = shown \cup {}
    BY <1>3
  <2>3. QED BY <1>1, <2>1, <2>2, OnCommentsKeeps
<1>4. CASE EditOrRemove(p) /\ UNCHANGED shown
  <2>1. PICK c \in DOMAIN db.comments, step \in {"edit", "remove"} :
          OnComments(p, step, db.comments[c].task, db.comments[c].author, c)
    BY <1>4 DEF EditOrRemove
  <2>2. shown' = shown \cup {}
    BY <1>4
  <2>3. db.comments[c].task \in Ids
    BY <1>1 DEF CommentsOK, IsComment
  <2>4. QED BY <2>1, <2>2, <2>3, OnCommentsKeeps
<1>5. CASE ListComments(p)
  <2>1. PICK i \in DOMAIN db.tasks, r \in Readers :
          /\ OnComments(p, "listed", i, r, 1)
          /\ shown' = shown \cup
               {<<r, c>> : c \in {c \in DOMAIN db.comments : db.comments[c].task = i}}
    BY <1>5 DEF ListComments
  <2>2. QED BY <1>1, <2>1, OnCommentsKeeps
<1>6. QED BY <1>2, <1>3, <1>4, <1>5 DEF Requests

-----------------------------------------------------------------------------
(* Operations on tasks that commit each write *)

\* A write that commits, or none.
Wrote ==
  /\ UNCHANGED <<lock, draft, now>> /\ (lock = "free" \/ db' = db)
  /\ Good(db', 0) /\ Longer(db, db') /\ SameComments(db, db')

LEMMA ReadsWrote ==
  ASSUME IInv, Reads, UNCHANGED now
  PROVE  Wrote
BY GoodDatabase DEF Wrote, Reads

\* Outside of a transaction, p sees the committed database.
LEMMA OutsideView ==
  ASSUME IInv, NEW p \in Callers, ~InBatch(op[p])
  PROVE  View(p) = db /\ Row(p) = db.tasks[op[p].id]
<1>1. lock # p
  BY DEF IInv, Transaction
<1>2. QED BY <1>1 DEF View, Row

LEMMA RowIsTask ==
  ASSUME IInv, NEW p \in Callers, op[p].step \in TaskSteps
  PROVE  /\ op[p].id \in DOMAIN db.tasks /\ Row(p) = db.tasks[op[p].id]
         /\ IsTask(db.tasks[op[p].id]) /\ ~InBatch(op[p])
<1>1. ~InBatch(op[p])
  BY DEF InBatch, TaskSteps
<1>2. View(p) = db /\ Row(p) = db.tasks[op[p].id]
  BY <1>1, OutsideView
<1>3. op[p].id \in DOMAIN db.tasks
  BY <1>2 DEF IInv, TaskOp
<1>4. QED BY <1>1, <1>2, <1>3 DEF IInv, Good, TasksOK

LEMMA FinishKeeps ==
  ASSUME IInv, NEW p \in Callers, ~InBatch(op[p]), Finish(p), Wrote, UNCHANGED shown
  PROVE  IInv'
<1>1. op' = [op EXCEPT ![p] = op'[p]] /\ op'[p] = NoOp
  BY FinishOp
<1>2. TaskOp(op'[p], db') /\ op'[p].step = "idle"
  BY <1>1, Idle
<1>3. QED BY <1>1, <1>2, GoodDatabase, TaskStepKeeps DEF Wrote

LEMMA GotoKeeps ==
  ASSUME IInv, NEW p \in Callers, op[p].step \in TaskSteps, Wrote, UNCHANGED shown,
         NEW step \in {"reread", "logAssigned", "logStatus", "check"}, Goto(p, step)
  PROVE  IInv'
<1>1. op' = [op EXCEPT ![p] = op'[p]] /\ op'[p].step = step /\ SameOp(op[p], op'[p])
  BY GotoOp DEF Goto
<1>2. /\ DOMAIN op[p] = OpFields /\ IsTask(op[p].seen) /\ IsTask(op[p].row)
      /\ ~InBatch(op[p])
  BY DEF IInv, TaskOp, InBatch, TaskSteps
<1>3. op[p].id \in DOMAIN db'.tasks
  BY RowIsTask DEF Wrote, Longer
<1>4. TaskOp(op'[p], db')
  BY <1>1, <1>2, <1>3 DEF TaskOp, SameOp
<1>5. QED BY <1>1, <1>2, <1>4, GoodDatabase, TaskStepKeeps DEF Wrote

\* p's operation goes on with the task t it has read.
LEMMA SeenKeeps ==
  ASSUME IInv, NEW p \in Callers, op[p].step \in TaskSteps, Wrote, UNCHANGED shown,
         NEW step \in {"write", "logCreated", "logUpdated"}, NEW t, IsTask(t),
         \/ op' = [op EXCEPT ![p].seen = t, ![p].step = step]
         \/ op' = [op EXCEPT ![p].row = t, ![p].step = step]
  PROVE  IInv'
<1>1. /\ op = [q \in Callers |-> op[q]] /\ DOMAIN op[p] = OpFields
      /\ IsTask(op[p].seen) /\ IsTask(op[p].row) /\ ~InBatch(op[p])
  BY RowIsTask DEF IInv, TaskOp
<1>2. PICK o : o = op[p]
  OBVIOUS
<1> DEFINE u == [o EXCEPT !.seen = t, !.step = step]
           w == [o EXCEPT !.row = t, !.step = step]
<1>3. /\ DOMAIN u = OpFields /\ u.step = step /\ u.seen = t /\ u.row = o.row /\ u.id = o.id
      /\ DOMAIN w = OpFields /\ w.step = step /\ w.seen = o.seen /\ w.row = t /\ w.id = o.id
  BY <1>1, <1>2 DEF OpFields
<1>4. op' = [op EXCEPT ![p] = op'[p]] /\ (op'[p] = u \/ op'[p] = w)
  BY <1>1, <1>2
<1> HIDE DEF u, w
<1>5. /\ DOMAIN op'[p] = OpFields /\ op'[p].step = step /\ op'[p].id = op[p].id
      /\ IsTask(op'[p].seen) /\ IsTask(op'[p].row)
  BY <1>1, <1>2, <1>3, <1>4
<1>6. op[p].id \in DOMAIN db'.tasks
  BY RowIsTask DEF Wrote, Longer
<1>7. TaskOp(op'[p], db')
  BY <1>5, <1>6 DEF TaskOp
<1>8. QED BY <1>1, <1>4, <1>5, <1>7, GoodDatabase, TaskStepKeeps DEF Wrote

LEMMA OneRowWrote ==
  ASSUME IInv, NEW action, NEW id, NEW task, NEW from, UNCHANGED now,
         Commits(WithLog(db, <<Entry(action, id, task, from, 0)>>))
  PROVE  Wrote
BY OneRow DEF Wrote

LEMMA OneTaskWrote ==
  ASSUME IInv, NEW i \in DOMAIN db.tasks, NEW t, IsTask(t), UNCHANGED now,
         Own(db.tasks, i, t.external),
         Commits([db EXCEPT !.tasks = [db.tasks EXCEPT ![i] = t]])
  PROVE  Wrote
BY OneTask DEF Wrote, Commits

LEMMA InsertKeeps ==
  ASSUME IInv, NEW p \in Callers, Insert(p), UNCHANGED shown
  PROVE  IInv'
<1> DEFINE id == Len(db.tasks) + 1
           t == op[p].asked
           ts == Append(db.tasks, t)
<1>1. op[p].step = "insert" /\ ~InBatch(op[p]) /\ IsTask(t) /\ UNCHANGED now
  BY DEF Insert, At, InBatch, IInv, TaskOp
<1>2. CASE Unique(db, id, t.external) /\ id <= MaxTasks
  <2>1. /\ Commits([db EXCEPT !.tasks = ts])
        /\ op' = [op EXCEPT ![p].id = id, ![p].step = "reread"]
    BY <1>2 DEF Insert
  <2>2. Own(db.tasks, id, t.external)
    BY <1>2, OwnIfUnique
  <2>3. DOMAIN ts \subseteq Ids /\ id \in DOMAIN ts
    <3>1. IsSeq(db.tasks)
      BY DEF IInv, Good, TasksOK
    <3>2. Len(db.tasks) \in Nat /\ DOMAIN ts = 1..(Len(db.tasks) + 1)
      BY <3>1, AppendTo
    <3>3. QED BY <1>2, <3>2, TaskBoardAssumption DEF Ids
  <2>4. TasksOK(ts) /\ DOMAIN db.tasks \subseteq DOMAIN ts
    BY <1>1, <1>2, <2>2, <2>3, AddTask, GoodDatabase
  <2> HIDE DEF ts
  <2>5. LET e == [db EXCEPT !.tasks = ts] IN
        Good(e, 0) /\ Longer(db, e) /\ SameComments(db, e) /\ e.tasks = ts
    BY <2>4, WithTasks, GoodDatabase
  <2>6. Wrote /\ id \in DOMAIN db'.tasks
    BY <1>1, <2>1, <2>3, <2>5 DEF Wrote, Commits
  <2>7. /\ op = [q \in Callers |-> op[q]] /\ DOMAIN op[p] = OpFields
        /\ IsTask(op[p].seen) /\ IsTask(op[p].row)
    BY DEF IInv, TaskOp
  <2>8. PICK o, n : o = op[p] /\ n = id
    OBVIOUS
  <2> HIDE DEF id
  <2> DEFINE u == [o EXCEPT !.id = n, !.step = "reread"]
  <2>9. /\ DOMAIN u = OpFields /\ u.step = "reread" /\ u.id = n
        /\ u.seen = o.seen /\ u.row = o.row
    BY <2>7, <2>8 DEF OpFields
  <2>10. op' = [op EXCEPT ![p] = op'[p]] /\ op'[p] = u
    BY <2>1, <2>7, <2>8
  <2> HIDE DEF u
  <2>11. TaskOp(op'[p], db') /\ op'[p].step = "reread"
    BY <2>6, <2>7, <2>8, <2>9, <2>10 DEF TaskOp
  <2>12. QED BY <1>1, <2>6, <2>10, <2>11, GoodDatabase, TaskStepKeeps DEF Wrote
<1>3. CASE ~(Unique(db, id, t.external) /\ id <= MaxTasks)
  <2>1. Reads /\ Finish(p)
    BY <1>3 DEF Insert
  <2>2. QED BY <1>1, <2>1, ReadsWrote, FinishKeeps
<1>4. QED BY <1>2, <1>3

LEMMA RereadKeeps ==
  ASSUME IInv, NEW p \in Callers, Reread(p), UNCHANGED shown
  PROVE  IInv'
<1>1. op[p].step \in TaskSteps /\ Reads /\ UNCHANGED now
  BY DEF Reread, At, Clock, TaskSteps
<1>2. Wrote /\ IsTask(Row(p))
  BY <1>1, ReadsWrote, RowIsTask
<1>3. PICK t, step :
        /\ t = Row(p) /\ step \in {"logCreated", "logUpdated"}
        /\ op' = [op EXCEPT ![p].row = t, ![p].step = step]
  BY DEF Reread
<1>4. QED BY <1>1, <1>2, <1>3, SeenKeeps

LEMMA LogCreatedKeeps ==
  ASSUME IInv, NEW p \in Callers, LogCreated(p), UNCHANGED shown
  PROVE  IInv'
<1>1. op[p].step \in TaskSteps /\ UNCHANGED now /\ Goto(p, "logAssigned")
  BY DEF LogCreated, At, TaskSteps, Clock
<1>2. Wrote
  BY <1>1, OneRowWrote DEF LogCreated
<1>3. QED BY <1>1, <1>2, GotoKeeps

LEMMA LogAssignedKeeps ==
  ASSUME IInv, NEW p \in Callers, LogAssigned(p), UNCHANGED shown
  PROVE  IInv'
<1>1. op[p].step \in TaskSteps /\ UNCHANGED now /\ (Goto(p, "check") \/ Finish(p))
  BY DEF LogAssigned, At, TaskSteps, Clock
<1>2. Wrote
  BY <1>1, OneRowWrote DEF LogAssigned
<1>3. QED BY <1>1, <1>2, RowIsTask, GotoKeeps, FinishKeeps

LEMMA ReadKeeps ==
  ASSUME IInv, NEW p \in Callers, Read(p), UNCHANGED shown
  PROVE  IInv'
<1>1. op[p].step = "read" /\ Reads /\ UNCHANGED now
  BY DEF Read, At, Clock
<1>2. /\ op[p].id \in DOMAIN db.tasks /\ Row(p) = db.tasks[op[p].id]
      /\ IsTask(Row(p)) /\ ~InBatch(op[p]) /\ Wrote /\ db' = db
  BY <1>1, RowIsTask, ReadsWrote DEF Reads, TaskSteps
<1>3. Finish(p) \/ op' = [op EXCEPT ![p].seen = Row(p), ![p].step = "write"]
  BY DEF Read
<1>4. CASE Finish(p)
  BY <1>2, <1>4, FinishKeeps
<1>5. CASE op' = [op EXCEPT ![p].seen = Row(p), ![p].step = "write"]
  <2>1. PICK t : t = Row(p)
    OBVIOUS
  <2>2. op' = [op EXCEPT ![p].seen = t, ![p].step = "write"] /\ IsTask(t)
    BY <1>2, <1>5, <2>1
  <2>3. QED BY <1>1, <1>2, <2>2, SeenKeeps DEF TaskSteps
<1>6. QED BY <1>3, <1>4, <1>5

LEMMA WriteStatusKeeps ==
  ASSUME IInv, NEW p \in Callers, WriteStatus(p), UNCHANGED shown
  PROVE  IInv'
<1>1. op[p].step = "write" /\ Goto(p, "logStatus") /\ UNCHANGED now
  BY DEF WriteStatus, At, Clock
<1>2. /\ op[p].id \in DOMAIN db.tasks /\ IsTask(db.tasks[op[p].id]) /\ ~InBatch(op[p])
      /\ DOMAIN db = Fields
  BY <1>1, RowIsTask DEF IInv, Good, TaskSteps
<1>3. PICK i : i = op[p].id
  OBVIOUS
<1> DEFINE t == [db.tasks[i] EXCEPT !.status = op[p].asked.status]
<1>4. IsTask(t) /\ Own(db.tasks, i, t.external)
  BY <1>2, <1>3, OwnTask, GoodDatabase DEF IsTask
<1>5. Commits([db EXCEPT !.tasks = [db.tasks EXCEPT ![i] = t]])
  BY <1>3 DEF WriteStatus
<1> HIDE DEF t
<1>6. Wrote
  BY <1>1, <1>2, <1>3, <1>4, <1>5, OneTaskWrote
<1>7. QED BY <1>1, <1>2, <1>6, GotoKeeps DEF TaskSteps

LEMMA LogStatusKeeps ==
  ASSUME IInv, NEW p \in Callers, LogStatus(p), UNCHANGED shown
  PROVE  IInv'
<1>1. ~InBatch(op[p]) /\ UNCHANGED now /\ Finish(p)
  BY DEF LogStatus, At, InBatch, Clock
<1>2. Wrote
  BY <1>1, OneRowWrote DEF LogStatus
<1>3. QED BY <1>1, <1>2, FinishKeeps

LEMMA MergedTask ==
  ASSUME NEW seen, NEW asked, IsTask(seen), NEW row
  PROVE  /\ IsTask(Updated(row, Merged(seen, asked)))
         /\ Updated(row, Merged(seen, asked)).external = seen.external
<1> DEFINE new == Merged(seen, asked)
<1>1. IsTask(new) /\ new.external = seen.external
  BY DEF IsTask, Merged
<1> HIDE DEF new
<1>2. IsTask(Updated(row, new)) /\ Updated(row, new).external = new.external
  BY <1>1 DEF IsTask, Updated
<1>3. QED BY <1>1, <1>2 DEF new

LEMMA WriteUpdateKeeps ==
  ASSUME IInv, NEW p \in Callers, WriteUpdate(p), UNCHANGED shown
  PROVE  IInv'
<1>1. op[p].step = "write" /\ UNCHANGED now
  BY DEF WriteUpdate, At, Clock
<1>2. op[p].id \in DOMAIN db.tasks /\ ~InBatch(op[p])
  BY <1>1, RowIsTask DEF TaskSteps
<1>3. PICK i, t : i = op[p].id /\ t = Updated(Row(p), Merged(op[p].seen, op[p].asked))
  OBVIOUS
<1>4. IsTask(t)
  BY <1>3, MergedTask DEF IInv, TaskOp
<1>5. CASE Unique(db, i, t.external)
  <2>1. Commits([db EXCEPT !.tasks = [db.tasks EXCEPT ![i] = t]]) /\ Goto(p, "reread")
    BY <1>3, <1>5 DEF WriteUpdate
  <2>2. Own(db.tasks, i, t.external)
    BY <1>5, OwnIfUnique
  <2>3. Wrote
    BY <1>1, <1>2, <1>3, <1>4, <2>1, <2>2, OneTaskWrote
  <2>4. QED BY <1>1, <2>1, <2>3, GotoKeeps DEF TaskSteps
<1>6. CASE ~Unique(db, i, t.external)
  <2>1. Reads /\ Finish(p)
    BY <1>3, <1>6 DEF WriteUpdate
  <2>2. QED BY <1>1, <1>2, <2>1, ReadsWrote, FinishKeeps
<1>7. QED BY <1>5, <1>6

LEMMA LogUpdatedKeeps ==
  ASSUME IInv, NEW p \in Callers, LogUpdated(p), UNCHANGED shown
  PROVE  IInv'
<1>1. op[p].step \in TaskSteps /\ UNCHANGED now /\ (Goto(p, "logAssigned") \/ Finish(p))
  BY DEF LogUpdated, At, Clock, TaskSteps
<1>2. Wrote
  <2>1. CASE Reads
    BY <1>1, <2>1, ReadsWrote
  <2>2. CASE Commits(WithLog(db, <<Entry("updated", op[p].id, op[p].row, op[p].row.status, 0)>>))
    BY <1>1, <2>2, OneRowWrote
  <2>3. QED BY <2>1, <2>2 DEF LogUpdated
<1>3. QED BY <1>1, <1>2, RowIsTask, GotoKeeps, FinishKeeps

\* A row of the log after another write.
LEMMA ThenRow ==
  ASSUME NEW d, NEW e, Good(e, 0), Longer(d, e), SameComments(d, e),
         NEW action, NEW id, NEW task, NEW from
  PROVE  LET f == WithLog(e, <<Entry(action, id, task, from, 0)>>) IN
         Good(f, 0) /\ Longer(d, f) /\ SameComments(d, f)
<1> DEFINE es == <<Entry(action, id, task, from, 0)>>
           f == WithLog(e, es)
<1>1. IsSeq(es) /\ \A k \in DOMAIN es : es[k].batch = 0
  BY OneEntry
<1> HIDE DEF es
<1>2. Good(f, 0) /\ Longer(e, f) /\ SameComments(e, f)
  BY <1>1, WithRows
<1> HIDE DEF f
<1>3. Longer(d, f) /\ SameComments(d, f)
  BY <1>2 DEF Longer, SameComments
<1>4. QED BY <1>2, <1>3 DEF f, es

LEMMA WriteAssignKeeps ==
  ASSUME IInv, NEW p \in Callers, WriteAssign(p), UNCHANGED shown
  PROVE  IInv'
<1>1. op[p].step = "write" /\ Goto(p, "check") /\ UNCHANGED now
  BY DEF WriteAssign, At, Clock
<1>2. /\ op[p].id \in DOMAIN db.tasks /\ Row(p) = db.tasks[op[p].id]
      /\ IsTask(Row(p)) /\ ~InBatch(op[p])
  BY <1>1, RowIsTask DEF TaskSteps
<1>3. PICK i : i = op[p].id
  OBVIOUS
<1> DEFINE t == [Row(p) EXCEPT !.assignee = op[p].asked.assignee,
                               !.email = op[p].asked.email]
           e == [db EXCEPT !.tasks = [db.tasks EXCEPT ![i] = t]]
<1>4. IsTask(t) /\ Own(db.tasks, i, t.external)
  BY <1>2, <1>3, OwnTask, GoodDatabase DEF IsTask
<1>5. Commits(WithLog(e, <<Entry("assigned", i, t, t.status, 0)>>))
  BY <1>3 DEF WriteAssign
<1> HIDE DEF t
<1>6. Good(e, 0) /\ Longer(db, e) /\ SameComments(db, e)
  BY <1>2, <1>3, <1>4, OneTask
<1> HIDE DEF e
<1>7. Wrote
  BY <1>1, <1>5, <1>6, ThenRow DEF Wrote, Commits
<1>8. QED BY <1>1, <1>2, <1>7, GotoKeeps DEF TaskSteps

LEMMA CheckKeeps ==
  ASSUME IInv, NEW p \in Callers, Check(p), UNCHANGED shown
  PROVE  IInv'
<1>1. op[p].step \in TaskSteps /\ UNCHANGED now
  BY DEF Check, At, TaskSteps, Clock
<1>2. /\ ~InBatch(op[p]) /\ op[p].id \in DOMAIN db.tasks
      /\ IsTask(Row(p))
  BY <1>1, RowIsTask
<1>3. Wrote
  <2>1. CASE Reads
    BY <1>1, <2>1, ReadsWrote
  <2>2. CASE Commits(WithLog(db, <<Entry("limited", op[p].id, Row(p), Row(p).status, 0)>>))
    BY <1>1, <2>2, OneRowWrote
  <2>3. QED BY <2>1, <2>2 DEF Check
<1>4. CASE Finish(p)
  BY <1>3, <1>4, <1>2, FinishKeeps
<1>5. CASE op' = [op EXCEPT ![p].seen = Row(p), ![p].at = now, ![p].step = "notify"]
  <2>1. op = [q \in Callers |-> op[q]] /\ DOMAIN op[p] = OpFields /\ IsTask(op[p].row)
    BY DEF IInv, TaskOp
  <2>2. PICK o, t : o = op[p] /\ t = Row(p)
    OBVIOUS
  <2> DEFINE u == [o EXCEPT !.seen = t, !.at = now, !.step = "notify"]
  <2>3. /\ DOMAIN u = OpFields /\ u.step = "notify" /\ u.seen = t /\ u.id = o.id
        /\ u.row = o.row
    BY <2>1, <2>2 DEF OpFields
  <2>4. op' = [op EXCEPT ![p] = op'[p]] /\ op'[p] = u
    BY <1>5, <2>1, <2>2
  <2> HIDE DEF u
  <2>5. TaskOp(op'[p], db') /\ op'[p].step = "notify"
    BY <1>3, <1>2, <2>1, <2>2, <2>3, <2>4 DEF TaskOp, Wrote, Longer
  <2>6. QED BY <1>3, <1>2, <2>4, <2>5, GoodDatabase, TaskStepKeeps DEF Wrote
<1>6. QED BY <1>4, <1>5 DEF Check

LEMMA NotifyKeeps ==
  ASSUME IInv, NEW p \in Callers, Notify(p), UNCHANGED shown
  PROVE  IInv'
<1>1. ~InBatch(op[p]) /\ UNCHANGED now /\ Finish(p)
  BY DEF Notify, At, InBatch, Clock
<1>2. PICK ns : ns = Append(db.notices, [id |-> op[p].id, to |-> op[p].seen.email, at |-> op[p].at])
  OBVIOUS
<1> DEFINE e == [db EXCEPT !.notices = ns]
<1>3. /\ DOMAIN e = Fields /\ e.tasks = db.tasks /\ e.log = db.log
      /\ e.comments = db.comments /\ e.marks = db.marks
  BY DEF IInv, Good, Fields
<1>4. Commits(WithLog(e, <<Entry("notified", op[p].id, op[p].seen, op[p].seen.status, 0)>>))
  BY <1>2 DEF Notify
<1> HIDE DEF e
<1>5. Good(e, 0) /\ Longer(db, e) /\ SameComments(db, e)
  BY <1>3, GoodDatabase DEF Good, Longer, SameComments
<1>6. Wrote
  BY <1>1, <1>4, <1>5, ThenRow DEF Wrote, Commits
<1>7. QED BY <1>1, <1>6, FinishKeeps

-----------------------------------------------------------------------------
(* Batches: the writes of a transaction *)

LEMMA ViewOfBatch ==
  ASSUME IInv, NEW p \in Callers, InBatch(op[p])
  PROVE  /\ Good(View(p), op[p].batch)
         /\ Longer(db, View(p)) /\ SameComments(db, View(p))
<1>1. CASE lock = p
  BY <1>1 DEF IInv, View, Transaction
<1>2. CASE lock # p
  BY <1>2, GoodDatabase, GoodForAny DEF View
<1>3. QED BY <1>1, <1>2

LEMMA CommentsUndisturbed ==
  ASSUME IInv, NEW p \in Callers, op' = [op EXCEPT ![p] = op'[p]],
         op'[p].step \notin {"comment", "edit", "listed", "mark"},
         SameComments(db, db'), UNCHANGED shown
  PROVE  /\ UnreadOK(db', shown')
         /\ \A q \in Callers : CommentOp(op'[q], db', shown')
<1>1. UnreadOK(db', shown')
  BY CommentsStay DEF IInv
<1>2. ASSUME NEW q \in Callers
      PROVE  CommentOp(op'[q], db', shown')
  <2>1. CASE q = p
    BY <2>1 DEF CommentOp
  <2>2. CASE q # p
    <3>1. op'[q] = op[q] /\ CommentOp(op[q], db, shown)
      BY <2>2 DEF IInv
    <3>2. QED BY <3>1, CommentsStay
  <2>3. QED BY <2>1, <2>2
<1>3. QED BY <1>1, <1>2

LEMMA BatchKeeps ==
  ASSUME IInv, NEW p \in Callers, op' = [op EXCEPT ![p] = op'[p]], OwnStep(p),
         op'[p].step \notin {"comment", "edit", "listed", "mark"},
         UNCHANGED <<db, now, shown>>,
         \/ UNCHANGED <<lock, draft>>
         \/ lock \in {p, "free"} /\ lock' \in {p, "free"}
  PROVE  IInv'
<1>1. op = [q \in Callers |-> op[q]] /\ lock \in Callers \cup {"free"}
  BY DEF IInv
<1>2. op' = [q \in Callers |-> op'[q]] /\ \A q \in Callers \ {p} : op'[q] = op[q]
  BY <1>1
<1>3. \A q \in Callers : q # "free"
  BY TaskBoardAssumption
<1>4. OthersKeep(p)
  BY <1>2, <1>3 DEF OthersKeep
<1>5. lock' \in Callers \cup {"free"}
  BY <1>1
<1>6. Good(db', 0) /\ Longer(db, db') /\ SameComments(db, db') /\ now' \in Int
  BY GoodDatabase
<1>7. QED BY <1>4, <1>5, <1>6, CommentsUndisturbed, StepKeeps

LEMMA AbortKeeps ==
  ASSUME IInv, NEW p \in Callers, Rollback(p), Finish(p), UNCHANGED <<now, shown>>
  PROVE  IInv'
<1>1. op' = [op EXCEPT ![p] = op'[p]] /\ op'[p] = NoOp
  BY FinishOp
<1>2. op'[p].step = "idle" /\ TaskOp(op'[p], IF lock' = p THEN draft' ELSE db')
  BY <1>1, Idle
<1>3. p # "free"
  BY TaskBoardAssumption
<1>4. lock' # p /\ db' = db
  BY <1>3 DEF Rollback
<1>5. UNCHANGED <<lock, draft>> \/ (lock \in {p, "free"} /\ lock' \in {p, "free"})
  BY DEF Rollback
<1>6. OwnStep(p)
  BY <1>2, <1>4 DEF OwnStep
<1>7. QED BY <1>1, <1>2, <1>4, <1>5, <1>6, BatchKeeps

LEMMA ReadItemKeeps ==
  ASSUME IInv, NEW p \in Callers, ReadItem(p), UNCHANGED shown
  PROVE  IInv'
<1> DEFINE item == Head(op[p].items)
           named == Named(View(p), item)
<1>1. op[p].step = "readItem" /\ InBatch(op[p]) /\ UNCHANGED now
  BY DEF ReadItem, At, InBatch, Clock
<1>2. CASE ~item.valid
  BY <1>1, <1>2, AbortKeeps DEF ReadItem
<1>3. CASE item.valid
  <2>1. PICK found, id, t :
          /\ op' = [op EXCEPT ![p].step = "writeItem", ![p].found = found,
                              ![p].id = id, ![p].seen = t]
          /\ found <=> named # {}
          /\ id = IF named = {} THEN MaxTasks ELSE CHOOSE i \in named : TRUE
          /\ t = IF named = {} THEN NewTask
                 ELSE View(p).tasks[CHOOSE i \in named : TRUE]
    BY <1>3 DEF ReadItem
  <2>2. Reads
    BY <1>3 DEF ReadItem
  <2>3. TasksOK(View(p).tasks)
    BY <1>1, ViewOfBatch DEF Good
  <2>4. /\ IsTask(t)
        /\ found => id \in DOMAIN View(p).tasks
    <3>1. CASE named = {}
      BY <2>1, <3>1, NewTaskIsTask
    <3>2. CASE named # {}
      <4>1. (CHOOSE i \in named : TRUE) \in named
        BY <3>2
      <4>2. id \in named /\ t = View(p).tasks[id]
        BY <2>1, <3>2, <4>1
      <4>3. id \in DOMAIN View(p).tasks
        BY <4>2 DEF Named, Holders
      <4>4. QED BY <2>3, <4>2, <4>3 DEF TasksOK
    <3>3. QED BY <3>1, <3>2
  <2>5. op = [q \in Callers |-> op[q]] /\ DOMAIN op[p] = OpFields /\ IsTask(op[p].row)
    BY DEF IInv, TaskOp
  <2>6. PICK o : o = op[p]
    OBVIOUS
  <2> DEFINE u == [o EXCEPT !.step = "writeItem", !.found = found, !.id = id, !.seen = t]
  <2>7. /\ DOMAIN u = OpFields /\ u.step = "writeItem" /\ u.found = found /\ u.id = id
        /\ u.seen = t /\ u.row = o.row /\ u.batch = o.batch
    BY <2>5, <2>6 DEF OpFields
  <2>8. op' = [op EXCEPT ![p] = op'[p]] /\ op'[p] = u
    BY <2>1, <2>5, <2>6
  <2> HIDE DEF u
  <2>9. TaskOp(u, View(p))
    BY <2>4, <2>5, <2>6, <2>7 DEF TaskOp, TaskSteps
  <2>10. (IF lock' = p THEN draft' ELSE db') = View(p)
    BY <2>2 DEF Reads, View
  <2>11. lock' = p => Transaction(db', draft', u)
    <3>1. lock = p => Transaction(db, draft, op[p])
      BY DEF IInv
    <3>2. InBatch(u)
      BY <2>7 DEF InBatch
    <3>3. QED BY <2>2, <2>6, <2>7, <3>1, <3>2 DEF Transaction, Reads
  <2>12. OwnStep(p)
    BY <2>7, <2>8, <2>9, <2>10, <2>11 DEF OwnStep
  <2>13. UNCHANGED <<db, lock, draft>>
    BY <2>2 DEF Reads
  <2>14. QED BY <1>1, <2>7, <2>8, <2>12, <2>13, BatchKeeps
<1>4. QED BY <1>2, <1>3

LEMMA LongerThrough ==
  ASSUME NEW d, NEW e, NEW f, Longer(d, e), Longer(e, f),
         SameComments(d, e), SameComments(e, f)
  PROVE  Longer(d, f) /\ SameComments(d, f)
BY DEF Longer, SameComments

LEMMA ItemRows ==
  ASSUME NEW p, NEW id, NEW new
  PROVE  /\ IsSeq(ItemLog(p, id, new))
         /\ \A k \in DOMAIN ItemLog(p, id, new) :
              ItemLog(p, id, new)[k].batch = op[p].batch
<1> DEFINE row(action) == Entry(action, id, new, new.status, op[p].batch)
           Mine == {e \in {row("created"), row("assigned"), row("updated")} :
                      e.batch = op[p].batch}
<1>1. row("created") \in Mine /\ row("assigned") \in Mine /\ row("updated") \in Mine
  BY DEF Entry
<1>2. ItemLog(p, id, new) =
        IF ~op[p].found THEN <<row("created"), row("assigned")>>
        ELSE (IF new # op[p].seen THEN <<row("updated")>> ELSE <<>>)
             \o (IF new.assignee # op[p].seen.assignee THEN <<row("assigned")>> ELSE <<>>)
  BY DEF ItemLog
<1>3. PICK M : M = Mine
  OBVIOUS
<1>4. \A e \in M : e.batch = op[p].batch
  BY <1>3
<1>5. PICK c, a, u : c = row("created") /\ a = row("assigned") /\ u = row("updated")
  OBVIOUS
<1>6. c \in M /\ a \in M /\ u \in M
  BY <1>1, <1>3, <1>5
<1> HIDE DEF Mine, row
<1>7. ItemLog(p, id, new) \in Seq(M)
  BY <1>2, <1>5, <1>6
<1>8. QED BY <1>4, <1>7 DEF IsSeq

LEMMA WriteItemKeeps ==
  ASSUME IInv, NEW p \in Callers, WriteItem(p), UNCHANGED shown
  PROVE  IInv'
<1>1. PICK v, item, new, id, b :
        /\ v = View(p) /\ item = Head(op[p].items) /\ new = ItemTask(p, item)
        /\ id = IF op[p].found THEN op[p].id ELSE Len(v.tasks) + 1
        /\ b = op[p].batch
  OBVIOUS
<1>2. /\ op[p].step = "writeItem" /\ InBatch(op[p]) /\ UNCHANGED now
      /\ lock \in {p, "free"}
  BY DEF WriteItem, At, InBatch, Clock
<1>3. Good(v, b) /\ Longer(db, v) /\ SameComments(db, v)
  BY <1>1, <1>2, ViewOfBatch
<1>4. TaskOp(op[p], v)
  BY <1>1 DEF IInv
<1>5. IsTask(new)
  <2>1. IsTask(op[p].seen)
    BY <1>4 DEF TaskOp
  <2>2. PICK t : t = (IF op[p].found THEN op[p].seen ELSE NewTask)
    OBVIOUS
  <2>3. IsTask(t)
    BY <2>1, <2>2, NewTaskIsTask
  <2>4. new = [t EXCEPT
                 !.external = IF item.external = NoExternalId THEN @ ELSE item.external,
                 !.status = item.status, !.assignee = item.assignee]
    BY <1>1, <2>2 DEF ItemTask
  <2>5. QED BY <2>3, <2>4 DEF IsTask
<1>6. CASE ~(Unique(v, id, new.external) /\ id <= MaxTasks)
  <2>1. Rollback(p) /\ Finish(p)
    BY <1>1, <1>6 DEF WriteItem
  <2>2. QED BY <1>2, <2>1, AbortKeeps
<1>7. CASE Unique(v, id, new.external) /\ id <= MaxTasks
  <2>1. PICK ts : ts = IF op[p].found
                         THEN [v.tasks EXCEPT ![id] = Updated(v.tasks[id], new)]
                         ELSE Append(v.tasks, new)
    OBVIOUS
  <2> DEFINE items == Tail(op[p].items)
             step == IF Len(op[p].items) = 1 THEN "commit" ELSE "readItem"
  <2>2. /\ step \in {"commit", "readItem"}
        /\ op' = [op EXCEPT ![p].items = items, ![p].step = step]
    BY <1>1, <1>7 DEF WriteItem
  <2> HIDE DEF items, step
  <2>3. Drafts(p, WithLog([v EXCEPT !.tasks = ts], ItemLog(p, id, new)))
    BY <1>1, <1>7, <2>1 DEF WriteItem
  <2>4. TasksOK(v.tasks)
    BY <1>3 DEF Good
  <2>5. TasksOK(ts) /\ DOMAIN v.tasks \subseteq DOMAIN ts
    <3>1. Own(v.tasks, id, new.external)
      BY <1>7, OwnIfUnique
    <3>2. CASE op[p].found
      <4>1. id \in DOMAIN v.tasks
        BY <1>1, <1>2, <1>4, <3>2 DEF TaskOp
      <4>2. PICK t : t = Updated(v.tasks[id], new)
        OBVIOUS
      <4>3. IsTask(t) /\ t.external = new.external
        BY <1>5, <4>2 DEF IsTask, Updated
      <4>4. ts = [v.tasks EXCEPT ![id] = t]
        BY <2>1, <3>2, <4>2
      <4>5. QED BY <2>4, <3>1, <4>1, <4>3, <4>4, SetTask
    <3>3. CASE ~op[p].found
      <4>1. ts = Append(v.tasks, new) /\ id = Len(v.tasks) + 1
        BY <1>1, <2>1, <3>3
      <4>2. DOMAIN Append(v.tasks, new) \subseteq Ids
        <5>1. IsSeq(v.tasks)
          BY <2>4 DEF TasksOK
        <5>2. Len(v.tasks) \in Nat /\ DOMAIN Append(v.tasks, new) = 1..(Len(v.tasks) + 1)
          BY <5>1, AppendTo
        <5>3. QED BY <1>7, <4>1, <5>2, TaskBoardAssumption DEF Ids
      <4>3. QED BY <1>5, <1>7, <2>4, <3>1, <4>1, <4>2, AddTask
    <3>4. QED BY <3>2, <3>3
  <2>6. PICK e, f : e = [v EXCEPT !.tasks = ts] /\ f = WithLog(e, ItemLog(p, id, new))
    OBVIOUS
  <2>7. Good(e, b) /\ Longer(v, e) /\ SameComments(v, e)
    BY <1>3, <2>5, <2>6, WithTasks
  <2>8. Good(f, b) /\ Longer(e, f) /\ SameComments(e, f)
    <3>1. PICK es : es = ItemLog(p, id, new)
      OBVIOUS
    <3>2. IsSeq(es) /\ \A k \in DOMAIN es : es[k].batch = b
      BY <1>1, <3>1, ItemRows
    <3>3. f = WithLog(e, es)
      BY <2>6, <3>1
    <3>4. QED BY <2>7, <3>2, <3>3, WithRows
  <2>9. Longer(db, f) /\ SameComments(db, f)
    <3>1. Longer(v, f) /\ SameComments(v, f)
      BY <2>7, <2>8, LongerThrough
    <3>2. QED BY <1>3, <3>1, LongerThrough
  <2>10. lock' = p /\ draft' = f /\ db' = db
    BY <2>3, <2>6 DEF Drafts
  <2>11. /\ op = [q \in Callers |-> op[q]] /\ DOMAIN op[p] = OpFields
         /\ IsTask(op[p].seen) /\ IsTask(op[p].row)
    BY <1>4 DEF IInv, TaskOp
  <2>12. PICK o : o = op[p]
    OBVIOUS
  <2> DEFINE u == [o EXCEPT !.items = items, !.step = step]
  <2>13. /\ DOMAIN u = OpFields /\ u.step = step /\ u.seen = o.seen /\ u.row = o.row
         /\ u.batch = o.batch
    BY <2>11, <2>12 DEF OpFields
  <2>14. op' = [op EXCEPT ![p] = op'[p]] /\ op'[p] = u
    BY <2>2, <2>11, <2>12
  <2> HIDE DEF u
  <2>15. TaskOp(u, f) /\ InBatch(u)
    BY <2>2, <2>11, <2>12, <2>13 DEF TaskOp, InBatch, TaskSteps
  <2>16. Transaction(db', f, u)
    BY <1>1, <2>8, <2>9, <2>10, <2>12, <2>13, <2>15 DEF Transaction
  <2>17. OwnStep(p)
    BY <2>2, <2>10, <2>14, <2>15, <2>16 DEF OwnStep
  <2>18. QED BY <2>2, <1>2, <2>10, <2>13, <2>14, <2>17, BatchKeeps
<1>8. QED BY <1>6, <1>7

LEMMA CommitBatchKeeps ==
  ASSUME IInv, NEW p \in Callers, CommitBatch(p), UNCHANGED shown
  PROVE  IInv'
<1>1. op[p].step = "commit" /\ Finish(p) /\ UNCHANGED now /\ lock' = "free"
  BY DEF CommitBatch, At, Clock
<1>2. lock = p /\ Transaction(db, draft, op[p])
  BY <1>1 DEF IInv
<1>3. PICK d, b : d = draft /\ b = op[p].batch
  OBVIOUS
<1>4. Good(d, b) /\ Longer(db, d) /\ SameComments(db, d)
  BY <1>2, <1>3 DEF Transaction
<1>5. PICK es : es = <<Entry("synced", op[p].id, op[p].seen, op[p].seen.status, b)>>
  OBVIOUS
<1>6. /\ IsSeq(es) /\ 1 \in DOMAIN es /\ es[1].action = "synced"
      /\ \A k \in DOMAIN es : es[k].batch = b
  BY <1>5, OneEntry
<1>7. db' = WithLog(d, es)
  BY <1>3, <1>5 DEF CommitBatch
<1>8. LogOK(d.log \o es, 0)
  BY <1>4, <1>6, LastRows DEF Good
<1>9. /\ DOMAIN db' = Fields /\ db'.log = d.log \o es
      /\ db'.tasks = d.tasks /\ db'.comments = d.comments /\ db'.marks = d.marks
  BY <1>4, <1>7 DEF WithLog, Good, Fields
<1>10. Good(db', 0)
  BY <1>4, <1>8, <1>9 DEF Good
<1>11. Longer(db, db') /\ SameComments(db, db')
  BY <1>4, <1>9 DEF Longer, SameComments
<1>12. op' = [op EXCEPT ![p] = op'[p]] /\ op'[p] = NoOp
  BY <1>1, FinishOp
<1>13. op'[p].step = "idle" /\ TaskOp(op'[p], db')
  BY <1>12, Idle
<1>14. \A q \in Callers : q # "free"
  BY TaskBoardAssumption
<1>15. OwnStep(p)
  BY <1>1, <1>13, <1>14 DEF OwnStep
<1>16. op' = [q \in Callers |-> op'[q]] /\ \A q \in Callers \ {p} : op'[q] = op[q]
  BY <1>12 DEF IInv
<1>17. OthersKeep(p)
  BY <1>1, <1>2, <1>14, <1>16 DEF OthersKeep
<1>18. lock' \in Callers \cup {"free"} /\ now' \in Int
  BY <1>1, GoodDatabase
<1>19. QED
  BY <1>10, <1>11, <1>12, <1>13, <1>15, <1>17, <1>18, CommentsUndisturbed, StepKeeps

LEMMA CrashKeeps ==
  ASSUME IInv, NEW p \in Callers, Crash(p)
  PROVE  IInv'
BY AbortKeeps DEF Crash

LEMMA TickKeeps ==
  ASSUME IInv, Tick
  PROVE  IInv'
<1>1. UNCHANGED <<db, draft, lock, op, shown>> /\ now' \in Int
  BY DEF IInv, Tick
<1>2. \A p \in Callers : View(p)' = View(p)
  BY <1>1 DEF View
<1>3. QED BY <1>1, <1>2 DEF IInv

-----------------------------------------------------------------------------
(* Comments *)

LEMMA CommentOpOf ==
  ASSUME IInv, NEW p \in Callers
  PROVE  /\ CommentOp(op[p], db, shown) /\ DOMAIN op[p] = OpFields
         /\ IsTask(op[p].seen) /\ IsTask(op[p].row)
BY DEF IInv, TaskOp

LEMMA WhoIsShown ==
  ASSUME NEW c, NEW i, NEW at, Unshown(c, i, at)
  PROVE  /\ \A r, d : d # c /\ <<r, d>> \in shown => <<r, d>> \in shown'
         /\ \A r \in Readers : <<r, c>> \notin shown' => ~(at <= db.marks[r][i])
         /\ \A q \in Callers :
              op[q].step \in {"listed", "mark"} /\ op[q].id = i /\ op[q].who \in Readers
                => <<op[q].who, c>> \in shown'
<1>1. ASSUME NEW r, NEW d, d # c, <<r, d>> \in shown
      PROVE  <<r, d>> \in shown'
  <2>1. <<r, d>>[2] = d
    OBVIOUS
  <2>2. QED BY <1>1, <2>1 DEF Unshown
<1>2. \A r \in ReadingMeanwhile(i, at) : <<r, c>> \in shown'
  BY DEF Unshown
<1>3. ASSUME NEW r \in Readers, at <= db.marks[r][i]
      PROVE  <<r, c>> \in shown'
  <2>1. r \in ReadingMeanwhile(i, at)
    BY <1>3 DEF ReadingMeanwhile
  <2>2. QED BY <1>2, <2>1
<1>4. ASSUME NEW q \in Callers, op[q].step \in {"listed", "mark"}, op[q].id = i,
             op[q].who \in Readers
      PROVE  <<op[q].who, c>> \in shown'
  <2>1. op[q].who \in ReadingMeanwhile(i, at)
    BY <1>4 DEF ReadingMeanwhile
  <2>2. QED BY <1>2, <2>1
<1>5. QED BY <1>1, <1>3, <1>4

\* The comment c on task i has been written, stamped at.
Written(c, i, at) ==
  /\ db'.marks = db.marks
  /\ \A d \in DOMAIN db.comments :
       d \in DOMAIN db'.comments /\ db'.comments[d].task = db.comments[d].task
  /\ \A d \in DOMAIN db'.comments :
       d # c => d \in DOMAIN db.comments /\ db'.comments[d] = db.comments[d]
  /\ c \in DOMAIN db'.comments =>
       db'.comments[c].task = i /\ db'.comments[c].updated = at

LEMMA WrittenKeeps ==
  ASSUME IInv, NEW p \in Callers, NEW c, NEW i \in Ids, NEW at \in Int,
         Unshown(c, i, at), Written(c, i, at), op' = [op EXCEPT ![p] = op'[p]],
         op'[p].step \notin {"comment", "edit", "listed", "mark"}
  PROVE  /\ UnreadOK(db', shown')
         /\ \A q \in Callers : CommentOp(op'[q], db', shown')
<1>1. ASSUME NEW d \in DOMAIN db'.comments, NEW r \in Readers,
             db'.comments[d].there, db'.comments[d].author # r, <<r, d>> \notin shown'
      PROVE  db'.comments[d].updated > db'.marks[r][db'.comments[d].task]
  <2>1. CASE d = c
    <3>1. ~(at <= db.marks[r][i])
      BY <1>1, <2>1, WhoIsShown
    <3>2. db.marks[r][i] \in Int
      BY DEF IInv, Good, MarksOK
    <3>3. at > db.marks[r][i]
      BY <3>1, <3>2
    <3>4. QED BY <2>1, <3>3 DEF Written
  <2>2. CASE d # c
    <3>1. <<r, d>> \notin shown
      BY <1>1, <2>2, WhoIsShown
    <3>2. d \in DOMAIN db.comments /\ db'.comments[d] = db.comments[d] /\ db'.marks = db.marks
      BY <2>2 DEF Written
    <3>3. db.comments[d].updated > db.marks[r][db.comments[d].task]
      BY <1>1, <3>1, <3>2 DEF IInv, UnreadOK
    <3>4. QED BY <3>2, <3>3
  <2>3. QED BY <2>1, <2>2
<1>2. ASSUME NEW q \in Callers, q # p
      PROVE  CommentOp(op'[q], db', shown')
  <2>1. op'[q] = op[q] /\ CommentOp(op[q], db, shown)
    BY <1>2 DEF IInv
  <2>2. ASSUME op[q].step = "edit"
        PROVE  /\ op[q].comment \in DOMAIN db'.comments
               /\ db'.comments[op[q].comment].task = op[q].id
    BY <2>1, <2>2 DEF CommentOp, Written
  <2>3. ASSUME op[q].step \in {"listed", "mark"},
               NEW d \in DOMAIN db'.comments, db'.comments[d].task = op[q].id
        PROVE  <<op[q].who, d>> \in shown'
    <3>1. op[q].who \in Readers
      BY <2>1, <2>3 DEF CommentOp
    <3>2. CASE d = c
      BY <2>3, <3>1, <3>2, WhoIsShown DEF Written
    <3>3. CASE d # c
      <4>1. d \in DOMAIN db.comments /\ db.comments[d].task = op[q].id
        BY <2>3, <3>3 DEF Written
      <4>2. <<op[q].who, d>> \in shown
        BY <2>1, <2>3, <4>1 DEF CommentOp
      <4>3. QED BY <3>3, <4>2, WhoIsShown
    <3>4. QED BY <3>2, <3>3
  <2>4. QED BY <2>1, <2>2, <2>3 DEF CommentOp
<1>3. CommentOp(op'[p], db', shown')
  BY DEF CommentOp
<1>4. QED BY <1>1, <1>2, <1>3 DEF UnreadOK

\* The comments of the database become cs.
LEMMA WithComments ==
  ASSUME NEW d, Good(d, 0), NEW cs, CommentsOK(cs)
  PROVE  LET e == [d EXCEPT !.comments = cs] IN
         Good(e, 0) /\ Longer(d, e) /\ e.comments = cs /\ e.marks = d.marks
<1> DEFINE e == [d EXCEPT !.comments = cs]
<1>1. /\ DOMAIN e = Fields /\ e.tasks = d.tasks /\ e.log = d.log
      /\ e.comments = cs /\ e.marks = d.marks
  BY DEF Good, Fields
<1> HIDE DEF e
<1>2. Good(e, 0) /\ Longer(d, e)
  BY <1>1 DEF Good, Longer
<1>3. QED BY <1>1, <1>2 DEF e

LEMMA InsertCommentKeeps ==
  ASSUME IInv, NEW p \in Callers, InsertComment(p)
  PROVE  IInv'
<1>1. PICK i, at, n, c :
        /\ i = op[p].id /\ at = op[p].at /\ n = Len(db.comments) + 1
        /\ c = [task |-> i, author |-> op[p].who, updated |-> at, there |-> TRUE]
  OBVIOUS
<1>2. /\ op[p].step = "comment" /\ ~InBatch(op[p]) /\ UNCHANGED now
      /\ Goto(p, "logComment") /\ Unshown(n, i, at)
  BY <1>1 DEF InsertComment, At, InBatch, Clock
<1>3. i \in Ids /\ at \in Int
  BY <1>1, <1>2, CommentOpOf DEF CommentOp
<1>4. IsComment(c) /\ c.task = i /\ c.updated = at
  BY <1>1, <1>3 DEF IsComment
<1>5. PICK cs : cs = Append(db.comments, c)
  OBVIOUS
<1>6. Commits([db EXCEPT !.comments = cs])
  BY <1>1, <1>5 DEF InsertComment
<1>7. CommentsOK(db.comments) /\ Good(db, 0)
  BY DEF IInv, Good
<1>8. /\ Len(db.comments) \in Nat /\ DOMAIN db.comments = 1..Len(db.comments)
      /\ DOMAIN cs = 1..(Len(db.comments) + 1)
      /\ \A d \in DOMAIN db.comments : cs[d] = db.comments[d]
      /\ cs[Len(db.comments) + 1] = c
  BY <1>5, <1>7, AppendTo DEF CommentsOK
<1>9. CommentsOK(cs)
  BY <1>4, <1>5, <1>7, AddComment
<1>10. /\ Good(db', 0) /\ Longer(db, db') /\ db'.comments = cs /\ db'.marks = db.marks
       /\ UNCHANGED <<lock, draft>> /\ lock = "free"
  BY <1>6, <1>7, <1>9, WithComments DEF Commits
<1>11. Written(n, i, at)
  <2>1. \A d \in DOMAIN cs : d # n => d \in DOMAIN db.comments
    BY <1>1, <1>8
  <2>2. \A d \in DOMAIN db.comments : d \in DOMAIN cs
    BY <1>8
  <2>3. cs[n] = c
    BY <1>1, <1>8
  <2>4. QED BY <1>4, <1>8, <1>10, <2>1, <2>2, <2>3 DEF Written
<1>12. op' = [op EXCEPT ![p] = op'[p]] /\ op'[p].step = "logComment" /\ SameOp(op[p], op'[p])
  BY <1>2, GotoOp DEF Goto
<1>13. TaskOp(op'[p], db')
  BY <1>12, CommentOpOf DEF TaskOp, SameOp, TaskSteps
<1>14. UnreadOK(db', shown') /\ \A q \in Callers : CommentOp(op'[q], db', shown')
  BY <1>2, <1>3, <1>11, <1>12, WrittenKeeps
<1>15. QED
  BY <1>2, <1>10, <1>12, <1>13, <1>14, GoodDatabase, OutsideKeeps

LEMMA LogCommentKeeps ==
  ASSUME IInv, NEW p \in Callers, LogComment(p)
  PROVE  IInv'
<1>1. ~InBatch(op[p]) /\ Reads /\ Finish(p) /\ UNCHANGED <<now, shown>>
  BY DEF LogComment, At, InBatch, Clock
<1>2. QED BY <1>1, ReadsWrote, FinishKeeps

LEMMA EditCommentKeeps ==
  ASSUME IInv, NEW p \in Callers, EditComment(p)
  PROVE  IInv'
<1>1. PICK c, i, at : c = op[p].comment /\ i = op[p].id /\ at = op[p].at
  OBVIOUS
<1>2. op[p].step = "edit" /\ ~InBatch(op[p]) /\ UNCHANGED now /\ Finish(p)
  BY DEF EditComment, At, InBatch, Clock
<1>3. /\ i \in Ids /\ at \in Int
      /\ c \in DOMAIN db.comments /\ db.comments[c].task = i
  BY <1>1, <1>2, CommentOpOf DEF CommentOp
<1>4. CASE db.comments[c].there
  <2>1. PICK new : new = Edited(db.comments[c], at)
    OBVIOUS
  <2>2. PICK cs : cs = [db.comments EXCEPT ![c] = new]
    OBVIOUS
  <2>3. Commits([db EXCEPT !.comments = cs]) /\ Unshown(c, i, at)
    BY <1>1, <1>4, <2>1, <2>2 DEF EditComment
  <2>4. CommentsOK(db.comments) /\ Good(db, 0)
    BY DEF IInv, Good
  <2>5. IsComment(db.comments[c])
    BY <1>3, <2>4 DEF CommentsOK
  <2>6. IsComment(new) /\ new.task = i /\ new.updated = at
    BY <1>3, <2>1, <2>5 DEF IsComment, Edited
  <2>7. CommentsOK(cs)
    BY <2>2, <2>4, <2>6, SetComment
  <2>8. DOMAIN cs = DOMAIN db.comments /\ cs[c] = new
        /\ \A d \in DOMAIN db.comments : d # c => cs[d] = db.comments[d]
    BY <1>3, <2>2
  <2>9. /\ Good(db', 0) /\ Longer(db, db') /\ db'.comments = cs /\ db'.marks = db.marks
        /\ UNCHANGED <<lock, draft>> /\ lock = "free"
    BY <2>3, <2>4, <2>7, WithComments DEF Commits
  <2>10. Written(c, i, at)
    BY <1>3, <2>6, <2>8, <2>9 DEF Written
  <2>11. op' = [op EXCEPT ![p] = op'[p]] /\ op'[p] = NoOp
    BY <1>2, FinishOp
  <2>12. op'[p].step = "idle" /\ TaskOp(op'[p], db')
    BY <2>11, Idle
  <2>13. UnreadOK(db', shown') /\ \A q \in Callers : CommentOp(op'[q], db', shown')
    BY <1>3, <2>3, <2>10, <2>11, <2>12, WrittenKeeps
  <2>14. QED
    BY <1>2, <2>9, <2>11, <2>12, <2>13, GoodDatabase, OutsideKeeps
<1>5. CASE ~db.comments[c].there
  <2>1. Reads /\ UNCHANGED shown
    BY <1>1, <1>5 DEF EditComment
  <2>2. QED BY <1>2, <2>1, ReadsWrote, FinishKeeps
<1>6. QED BY <1>4, <1>5

LEMMA RemoveCommentKeeps ==
  ASSUME IInv, NEW p \in Callers, RemoveComment(p)
  PROVE  IInv'
<1>1. op[p].step = "remove" /\ ~InBatch(op[p]) /\ UNCHANGED <<now, shown>> /\ Finish(p)
  BY DEF RemoveComment, At, InBatch, Clock
<1>2. PICK k, gone, cs, rs :
        /\ k = op[p].comment /\ gone = [db.comments[k] EXCEPT !.there = FALSE]
        /\ cs = [db.comments EXCEPT ![k] = gone] /\ rs = Append(db.removals, k)
  OBVIOUS
<1>3. CommentsOK(db.comments) /\ Good(db, 0)
  BY DEF IInv, Good
<1>4. k \in DOMAIN db.comments =>
        /\ IsComment(gone) /\ gone.task = db.comments[k].task /\ ~gone.there
  BY <1>2, <1>3 DEF CommentsOK, IsComment
<1>5. CommentsOK(cs)
  BY <1>2, <1>3, <1>4, SetComment
<1>6. /\ DOMAIN cs = DOMAIN db.comments
      /\ \A d \in DOMAIN cs : cs[d] = IF d = k THEN gone ELSE db.comments[d]
  BY <1>2, <1>3, SetElement DEF CommentsOK
<1>7. PICK e : e = [db EXCEPT !.comments = cs]
  OBVIOUS
<1>8. Good(e, 0) /\ Longer(db, e) /\ e.comments = cs /\ e.marks = db.marks
  BY <1>3, <1>5, <1>7, WithComments
<1>9. Commits([db EXCEPT !.comments = cs, !.removals = rs])
  BY <1>2 DEF RemoveComment
<1>10. /\ db' = [db EXCEPT !.comments = cs, !.removals = rs]
       /\ UNCHANGED <<lock, draft>> /\ lock = "free"
  BY <1>9 DEF Commits
<1>11. /\ DOMAIN db' = Fields /\ db'.tasks = e.tasks /\ db'.log = e.log
       /\ db'.comments = e.comments /\ db'.marks = e.marks
  BY <1>3, <1>7, <1>10 DEF Good, Fields
<1>12. Good(db', 0) /\ Longer(db, db')
  BY <1>8, <1>11 DEF Good, Longer
<1>13. UnreadOK(db', shown')
  <2>1. ASSUME NEW d \in DOMAIN cs, cs[d].there
        PROVE  d # k /\ d \in DOMAIN db.comments /\ cs[d] = db.comments[d]
    BY <1>4, <1>6, <2>1
  <2>2. QED BY <1>1, <1>8, <1>11, <2>1 DEF IInv, UnreadOK
<1>14. op' = [op EXCEPT ![p] = op'[p]] /\ op'[p] = NoOp
  BY <1>1, FinishOp
<1>15. op'[p].step = "idle" /\ TaskOp(op'[p], db')
  BY <1>14, Idle
<1>16. ASSUME NEW q \in Callers
       PROVE  CommentOp(op'[q], db', shown')
  <2>1. CASE q = p
    BY <1>15, <2>1 DEF CommentOp
  <2>2. CASE q # p
    <3>1. op'[q] = op[q] /\ CommentOp(op[q], db, shown)
      BY <1>14, <2>2 DEF IInv
    <3>2. \A d \in DOMAIN db'.comments :
            d \in DOMAIN db.comments /\ db'.comments[d].task = db.comments[d].task
      BY <1>4, <1>6, <1>8, <1>11
    <3>3. DOMAIN db'.comments = DOMAIN db.comments
      BY <1>6, <1>8, <1>11
    <3>4. QED BY <1>1, <3>1, <3>2, <3>3 DEF CommentOp
  <2>3. QED BY <2>1, <2>2
<1>17. QED
  BY <1>1, <1>10, <1>12, <1>13, <1>14, <1>15, <1>16, GoodDatabase, OutsideKeeps

LEMMA StampMarkKeeps ==
  ASSUME IInv, NEW p \in Callers, StampMark(p)
  PROVE  IInv'
<1>1. /\ op[p].step = "listed" /\ ~InBatch(op[p]) /\ Reads /\ UNCHANGED <<now, shown>>
      /\ op' = [op EXCEPT ![p].at = now, ![p].step = "mark"]
  BY DEF StampMark, At, InBatch, Clock
<1>2. /\ op = [q \in Callers |-> op[q]] /\ DOMAIN op[p] = OpFields
      /\ IsTask(op[p].seen) /\ IsTask(op[p].row)
  BY DEF IInv, TaskOp
<1>3. PICK o : o = op[p]
  OBVIOUS
<1> DEFINE u == [o EXCEPT !.at = now, !.step = "mark"]
<1>4. /\ DOMAIN u = OpFields /\ u.step = "mark" /\ u.at = now
      /\ u.seen = o.seen /\ u.row = o.row /\ u.id = o.id /\ u.who = o.who
  BY <1>2, <1>3 DEF OpFields
<1>5. op' = [op EXCEPT ![p] = op'[p]] /\ op'[p] = u
  BY <1>1, <1>2, <1>3
<1> HIDE DEF u
<1>6. TaskOp(u, db') /\ CommentOp(u, db, shown)
  BY <1>1, <1>2, <1>3, <1>4, CommentOpOf, GoodDatabase DEF TaskOp, CommentOp, TaskSteps
<1>7. UNCHANGED <<db, lock, draft>>
  BY <1>1 DEF Reads
<1>8. UnreadOK(db', shown')
  BY <1>1, <1>7 DEF IInv
<1>9. ASSUME NEW q \in Callers
      PROVE  CommentOp(op'[q], db', shown')
  <2>1. CASE q = p
    BY <1>1, <1>5, <1>6, <1>7, <2>1
  <2>2. CASE q # p
    BY <1>1, <1>5, <1>7, <2>2 DEF IInv
  <2>3. QED BY <2>1, <2>2
<1>10. QED
  BY <1>1, <1>4, <1>5, <1>6, <1>7, <1>8, <1>9, GoodDatabase, OutsideKeeps

LEMMA MarkReadKeeps ==
  ASSUME IInv, NEW p \in Callers, MarkRead(p)
  PROVE  IInv'
<1>1. op[p].step = "mark" /\ ~InBatch(op[p]) /\ UNCHANGED <<now, shown>> /\ Finish(p)
  BY DEF MarkRead, At, InBatch, Clock
<1>2. PICK i, r, at : i = op[p].id /\ r = op[p].who /\ at = op[p].at
  OBVIOUS
<1>3. /\ i \in Ids /\ at \in Int /\ r \in Readers
      /\ \A c \in DOMAIN db.comments : db.comments[c].task = i => <<r, c>> \in shown
  BY <1>1, <1>2, CommentOpOf DEF CommentOp
<1>4. Good(db, 0) /\ CommentsOK(db.comments) /\ MarksOK(db.marks)
  BY DEF IInv, Good
<1>5. PICK ms : ms = [db.marks EXCEPT ![r][i] = at]
  OBVIOUS
<1>6. /\ MarksOK(ms)
      /\ \A s \in Readers, j \in Ids : ~(s = r /\ j = i) => ms[s][j] = db.marks[s][j]
  BY <1>3, <1>4, <1>5 DEF MarksOK
<1>7. Commits([db EXCEPT !.marks = ms])
  BY <1>2, <1>5 DEF MarkRead
<1>8. /\ db' = [db EXCEPT !.marks = ms]
      /\ UNCHANGED <<lock, draft>> /\ lock = "free"
  BY <1>7 DEF Commits
<1>9. /\ DOMAIN db' = Fields /\ db'.tasks = db.tasks /\ db'.log = db.log
      /\ db'.comments = db.comments /\ db'.marks = ms
  BY <1>4, <1>8 DEF Good, Fields
<1>10. Good(db', 0) /\ Longer(db, db')
  BY <1>4, <1>6, <1>9 DEF Good, Longer
<1>11. UnreadOK(db', shown')
  <2>1. SUFFICES ASSUME NEW c \in DOMAIN db.comments, NEW s \in Readers,
                        db.comments[c].there, db.comments[c].author # s, <<s, c>> \notin shown
                 PROVE  db.comments[c].updated > ms[s][db.comments[c].task]
    BY <1>1, <1>9 DEF UnreadOK
  <2>2. db.comments[c].updated > db.marks[s][db.comments[c].task]
    BY <2>1 DEF IInv, UnreadOK
  <2>3. ~(s = r /\ db.comments[c].task = i)
    BY <1>3, <2>1
  <2>4. db.comments[c].task \in Ids
    BY <1>4, <2>1 DEF CommentsOK, IsComment
  <2>5. QED BY <1>6, <2>2, <2>3, <2>4
<1>12. op' = [op EXCEPT ![p] = op'[p]] /\ op'[p] = NoOp
  BY <1>1, FinishOp
<1>13. op'[p].step = "idle" /\ TaskOp(op'[p], db')
  BY <1>12, Idle
<1>14. ASSUME NEW q \in Callers
       PROVE  CommentOp(op'[q], db', shown')
  <2>1. CASE q = p
    BY <1>13, <2>1 DEF CommentOp
  <2>2. CASE q # p
    <3>1. op'[q] = op[q] /\ CommentOp(op[q], db, shown)
      BY <1>12, <2>2 DEF IInv
    <3>2. QED BY <1>1, <1>9, <3>1 DEF CommentOp
  <2>3. QED BY <2>1, <2>2
<1>15. QED
  BY <1>1, <1>8, <1>10, <1>11, <1>12, <1>13, <1>14, GoodDatabase, OutsideKeeps

-----------------------------------------------------------------------------
(* The theorems *)

LEMMA NextKeeps == IInv /\ [Next]_vars => IInv'
<1> SUFFICES ASSUME IInv, [Next]_vars
             PROVE  IInv'
  OBVIOUS
<1>1. CASE UNCHANGED vars
  <2>1. \A p \in Callers : View(p)' = View(p)
    BY <1>1 DEF vars, View
  <2>2. QED BY <1>1, <2>1 DEF IInv, vars
<1>2. ASSUME NEW p \in Callers, Requests(p)
      PROVE  IInv'
  BY <1>2, RequestsKeep
<1>3. ASSUME NEW p \in Callers, CommentStep(p)
      PROVE  IInv'
  BY <1>3, InsertCommentKeeps, LogCommentKeeps, EditCommentKeeps, RemoveCommentKeeps,
     StampMarkKeeps, MarkReadKeeps DEF CommentStep
<1>4. ASSUME NEW p \in Callers, Step(p), UNCHANGED shown
      PROVE  IInv'
  <2>1. CASE Insert(p) \/ Reread(p) \/ LogCreated(p) \/ LogAssigned(p) \/ Read(p)
    BY <1>4, <2>1, InsertKeeps, RereadKeeps, LogCreatedKeeps, LogAssignedKeeps, ReadKeeps
  <2>2. CASE WriteStatus(p) \/ LogStatus(p) \/ WriteUpdate(p) \/ LogUpdated(p)
    BY <1>4, <2>2, WriteStatusKeeps, LogStatusKeeps, WriteUpdateKeeps, LogUpdatedKeeps
  <2>3. CASE WriteAssign(p) \/ Check(p) \/ Notify(p)
    BY <1>4, <2>3, WriteAssignKeeps, CheckKeeps, NotifyKeeps
  <2>4. CASE ReadItem(p) \/ WriteItem(p) \/ CommitBatch(p)
    BY <1>4, <2>4, ReadItemKeeps, WriteItemKeeps, CommitBatchKeeps
  <2>5. QED BY <1>4, <2>1, <2>2, <2>3, <2>4 DEF Step
<1>5. ASSUME NEW p \in Callers, Crash(p)
      PROVE  IInv'
  BY <1>5, CrashKeeps
<1>6. CASE Tick
  BY <1>6, TickKeeps
<1>7. QED BY <1>1, <1>2, <1>3, <1>4, <1>5, <1>6 DEF Next

LEMMA Invariant == Spec => []IInv
<1>1. QED BY InitInv, NextKeeps, PTL DEF Spec

\* The board only ever shows a batch whole: the log row sync_tasks and the
\* import end with stands beside every other row of theirs, and no two tasks
\* have one external_id, however creations, batches, crashes and rollbacks meet
\* (in a database whose tasks table was created with the constraint).
THEOREM BatchesStayWhole == Spec => []BatchesAreWhole
<1>1. IInv => BatchesAreWhole
  <2>1. SUFFICES ASSUME IInv
                 PROVE  BatchesAreWhole
    OBVIOUS
  <2>2. TasksOK(db.tasks) /\ LogOK(db.log, 0)
    BY <2>1 DEF IInv, Good
  <2>3. QED BY <2>2 DEF BatchesAreWhole, Holders, TasksOK, LogOK
<1>2. QED BY <1>1, Invariant, PTL

\* get_unread_task_comment_count counts what another has written until a list
\* has shown it to the reader, or a write fell between a list and its mark.
THEOREM UnshownStaysUnread == Spec => []UnreadUntilShown
<1>1. IInv => UnreadUntilShown
  BY DEF IInv, UnreadOK, UnreadUntilShown, Unread
<1>2. QED BY <1>1, Invariant, PTL

-----------------------------------------------------------------------------
(* How operations move *)

CommentSteps == {"comment", "logComment", "edit", "remove", "listed", "mark"}

\* p's operation changes in the fields S only, and no other does.
Moved(p, S) ==
  /\ \A q \in Callers \ {p} : op'[q] = op[q]
  /\ DOMAIN op'[p] = OpFields
  /\ \A f \in OpFields \ S : op'[p][f] = op[p][f]

LEMMA OpsAre ==
  ASSUME IInv, NEW p \in Callers
  PROVE  op = [q \in Callers |-> op[q]] /\ DOMAIN op[p] = OpFields
BY DEF IInv, TaskOp

LEMMA GotoMoves ==
  ASSUME IInv, NEW p \in Callers, NEW step, Goto(p, step)
  PROVE  Moved(p, {"step"}) /\ op'[p].step = step
<1>1. op' = [op EXCEPT ![p].step = step]
  BY DEF Goto
<1>2. op'[p] = [op[p] EXCEPT !.step = step] /\ \A q \in Callers \ {p} : op'[q] = op[q]
  BY <1>1, OpsAre
<1>3. QED BY <1>2, OpsAre DEF Moved, OpFields

LEMMA FinishMoves ==
  ASSUME IInv, NEW p \in Callers, Finish(p)
  PROVE  op'[p] = NoOp /\ \A q \in Callers \ {p} : op'[q] = op[q]
BY FinishOp, OpsAre

LEMMA SeenMoves ==
  ASSUME IInv, NEW p \in Callers, NEW t, NEW step,
         op' = [op EXCEPT ![p].seen = t, ![p].step = step]
  PROVE  Moved(p, {"seen", "step"}) /\ op'[p].step = step /\ op'[p].seen = t
<1>1. op'[p] = [op[p] EXCEPT !.seen = t, !.step = step] /\ \A q \in Callers \ {p} : op'[q] = op[q]
  BY OpsAre
<1>2. QED BY <1>1, OpsAre DEF Moved, OpFields

LEMMA CreatedMoves ==
  ASSUME IInv, NEW p \in Callers, NEW id, NEW step,
         op' = [op EXCEPT ![p].id = id, ![p].step = step]
  PROVE  Moved(p, {"id", "step"}) /\ op'[p].id = id /\ op'[p].step = step
<1>1. /\ op'[p] = [op[p] EXCEPT !.id = id, !.step = step]
      /\ \A q \in Callers \ {p} : op'[q] = op[q]
  BY OpsAre
<1>2. QED BY <1>1, OpsAre DEF Moved, OpFields

LEMMA RowMoves ==
  ASSUME IInv, NEW p \in Callers, NEW t, NEW step,
         op' = [op EXCEPT ![p].row = t, ![p].step = step]
  PROVE  Moved(p, {"row", "step"}) /\ op'[p].step = step /\ op'[p].row = t
<1>1. op'[p] = [op[p] EXCEPT !.row = t, !.step = step] /\ \A q \in Callers \ {p} : op'[q] = op[q]
  BY OpsAre
<1>2. QED BY <1>1, OpsAre DEF Moved, OpFields

LEMMA NotifyMoves ==
  ASSUME IInv, NEW p \in Callers, NEW t, NEW at, NEW step,
         op' = [op EXCEPT ![p].seen = t, ![p].at = at, ![p].step = step]
  PROVE  /\ Moved(p, {"seen", "at", "step"})
         /\ op'[p].at = at /\ op'[p].step = step /\ op'[p].seen = t
<1>1. /\ op'[p] = [op[p] EXCEPT !.seen = t, !.at = at, !.step = step]
      /\ \A q \in Callers \ {p} : op'[q] = op[q]
  BY OpsAre
<1>2. QED BY <1>1, OpsAre DEF Moved, OpFields

LEMMA FoundMoves ==
  ASSUME IInv, NEW p \in Callers, NEW step, NEW found, NEW id, NEW t,
         op' = [op EXCEPT ![p].step = step, ![p].found = found, ![p].id = id, ![p].seen = t]
  PROVE  /\ Moved(p, {"step", "found", "id", "seen"})
         /\ op'[p].step = step /\ op'[p].found = found /\ op'[p].id = id /\ op'[p].seen = t
<1>1. /\ op'[p] = [op[p] EXCEPT !.step = step, !.found = found, !.id = id, !.seen = t]
      /\ \A q \in Callers \ {p} : op'[q] = op[q]
  BY OpsAre
<1>2. QED BY <1>1, OpsAre DEF Moved, OpFields

LEMMA ItemsMove ==
  ASSUME IInv, NEW p \in Callers, NEW items, NEW step,
         op' = [op EXCEPT ![p].items = items, ![p].step = step]
  PROVE  Moved(p, {"items", "step"}) /\ op'[p].step = step
<1>1. /\ op'[p] = [op[p] EXCEPT !.items = items, !.step = step]
      /\ \A q \in Callers \ {p} : op'[q] = op[q]
  BY OpsAre
<1>2. QED BY <1>1, OpsAre DEF Moved, OpFields

LEMMA AtMoves ==
  ASSUME IInv, NEW p \in Callers, NEW at, NEW step,
         op' = [op EXCEPT ![p].at = at, ![p].step = step]
  PROVE  Moved(p, {"at", "step"}) /\ op'[p].at = at /\ op'[p].step = step
<1>1. /\ op'[p] = [op[p] EXCEPT !.at = at, !.step = step]
      /\ \A q \in Callers \ {p} : op'[q] = op[q]
  BY OpsAre
<1>2. QED BY <1>1, OpsAre DEF Moved, OpFields

LEMMA BeginMoves ==
  ASSUME IInv, NEW p \in Callers, NEW new, Begin(p, new)
  PROVE  /\ op'[p] = new /\ \A q \in Callers \ {p} : op'[q] = op[q]
         /\ op[p].step = "idle" /\ UNCHANGED <<db, draft, lock, now>>
         /\ spoilt' = spoilt \cup
              (Touched(new) \cap UNION {Touched(op[q]) : q \in Callers \ {p}})
BY OpsAre DEF Begin, At

-----------------------------------------------------------------------------
(* Operations that meet on a task have spoilt it.                           *)

KindOK(o) ==
  /\ o.step \in {"idle", "insert"} \cup TaskSteps \cup CommentSteps \/ InBatch(o)
  /\ o.step \in TaskSteps \cup {"insert"} => o.kind \notin {"batch", "comments"}
  /\ InBatch(o) => o.kind = "batch"
  /\ o.step = "insert" => o.kind = "create"
  /\ o.step \in CommentSteps => o.kind = "comments"

OverlapInv ==
  \A p \in Callers :
    /\ KindOK(op[p])
    /\ \A q \in Callers \ {p} : Touched(op[p]) \cap Touched(op[q]) \subseteq spoilt

\* The operation o goes on as u, or ends.
Onward(o, u) ==
  \/ u = NoOp
  \/ /\ u.kind = o.kind
     /\ \/ o.step \in TaskSteps /\ u.step \in TaskSteps /\ u.id = o.id
        \/ InBatch(o) /\ InBatch(u)
        \/ o.step \in CommentSteps /\ u.step \in CommentSteps

LEMMA TouchedOf ==
  ASSUME NEW o, KindOK(o)
  PROVE  Touched(o) = IF InBatch(o) THEN Ids
                      ELSE IF o.step \in TaskSteps THEN {o.id} ELSE {}
<1>1. CASE o.step \in {"idle", "insert"}
  BY <1>1 DEF Touched, InBatch, TaskSteps
<1>2. CASE InBatch(o)
  <2>1. o.kind = "batch" /\ o.step \notin {"idle", "insert"}
    BY <1>2 DEF KindOK, InBatch
  <2>2. QED BY <1>2, <2>1 DEF Touched
<1>3. CASE o.step \in CommentSteps
  <2>1. o.kind = "comments" /\ o.step \notin {"idle", "insert"} \cup TaskSteps /\ ~InBatch(o)
    BY <1>3 DEF KindOK, InBatch, TaskSteps, CommentSteps
  <2>2. QED BY <2>1 DEF Touched
<1>4. CASE o.step \in TaskSteps
  <2>1. o.kind \notin {"batch", "comments"} /\ o.step \notin {"idle", "insert"} /\ ~InBatch(o)
    BY <1>4 DEF KindOK, InBatch, TaskSteps
  <2>2. QED BY <1>4, <2>1 DEF Touched
<1>5. QED BY <1>1, <1>2, <1>3, <1>4 DEF KindOK

LEMMA OverlapKept ==
  ASSUME OverlapInv, NEW p \in Callers, \A q \in Callers \ {p} : op'[q] = op[q],
         KindOK(op'[p]), spoilt \subseteq spoilt',
         \A q \in Callers \ {p} : Touched(op'[p]) \cap Touched(op[q]) \subseteq spoilt'
  PROVE  OverlapInv'
<1>1. ASSUME NEW q \in Callers
      PROVE  KindOK(op'[q])
  BY DEF OverlapInv
<1>2. ASSUME NEW q \in Callers, NEW r \in Callers \ {q}
      PROVE  Touched(op'[q]) \cap Touched(op'[r]) \subseteq spoilt'
  <2>1. Touched(op[q]) \cap Touched(op[r]) \subseteq spoilt
    BY DEF OverlapInv
  <2>2. CASE q = p
    <3>1. op'[r] = op[r]
      BY <2>2
    <3>2. QED BY <2>2, <3>1
  <2>3. CASE r = p
    <3>1. op'[q] = op[q]
      BY <2>3
    <3>2. QED BY <2>3, <3>1
  <2>4. CASE q # p /\ r # p
    BY <2>1, <2>4
  <2>5. QED BY <2>2, <2>3, <2>4
<1>3. \A q \in Callers : KindOK(op[q])'
  BY <1>1 DEF KindOK, InBatch
<1>4. \A q \in Callers : \A r \in Callers \ {q} :
        (Touched(op[q]) \cap Touched(op[r]) \subseteq spoilt)'
  BY <1>2 DEF Touched, Ids
<1>5. QED BY <1>3, <1>4 DEF OverlapInv

LEMMA OnwardTouches ==
  ASSUME NEW o, NEW u, KindOK(o), Onward(o, u)
  PROVE  KindOK(u) /\ Touched(u) \subseteq Touched(o)
<1>1. CASE u = NoOp
  <2>1. u.step = "idle"
    BY <1>1, Idle
  <2>2. KindOK(u)
    BY <2>1 DEF KindOK, InBatch, TaskSteps, CommentSteps
  <2>3. QED BY <2>1, <2>2 DEF Touched
<1>2. CASE u # NoOp
  <2>1. KindOK(u)
    BY <1>2 DEF Onward, KindOK, InBatch, TaskSteps, CommentSteps
  <2>2. QED
    BY <1>2, <2>1, TouchedOf DEF Onward, InBatch, TaskSteps, CommentSteps
<1>3. QED BY <1>1, <1>2

LEMMA OnwardKeepsOverlap ==
  ASSUME OverlapInv, NEW p \in Callers, \A q \in Callers \ {p} : op'[q] = op[q],
         Onward(op[p], op'[p]), spoilt \subseteq spoilt'
  PROVE  OverlapInv'
<1>1. KindOK(op'[p]) /\ Touched(op'[p]) \subseteq Touched(op[p])
  BY OnwardTouches DEF OverlapInv
<1>2. \A q \in Callers \ {p} : Touched(op'[p]) \cap Touched(op[q]) \subseteq spoilt'
  BY <1>1 DEF OverlapInv
<1>3. QED BY <1>1, <1>2, OverlapKept

LEMMA BeginKeepsOverlap ==
  ASSUME IInv, OverlapInv, NEW p \in Callers, NEW new, Begin(p, new), KindOK(new)
  PROVE  OverlapInv'
<1>1. /\ op'[p] = new /\ \A q \in Callers \ {p} : op'[q] = op[q]
      /\ spoilt' = spoilt \cup
           (Touched(new) \cap UNION {Touched(op[q]) : q \in Callers \ {p}})
  BY BeginMoves
<1>2. \A q \in Callers \ {p} : Touched(op'[p]) \cap Touched(op[q]) \subseteq spoilt'
  BY <1>1
<1>3. QED BY <1>1, <1>2, OverlapKept

\* What the requests begin.
NewOp(new) ==
  \/ new.step = "insert" /\ new.kind = "create"
  \/ /\ new.step = "read" /\ new.kind \in {"transition", "update", "assign"}
     /\ new.id \in DOMAIN db.tasks
  \/ new.step = "readItem" /\ new.kind = "batch"
  \/ /\ new.step \in CommentSteps /\ new.kind = "comments"
     /\ new.step = "remove" => new.comment \in DOMAIN db.comments

LEMMA RequestBegins ==
  ASSUME NEW p \in Callers, Requests(p)
  PROVE  \E new : Begin(p, new) /\ NewOp(new)
<1> DEFINE Goal == \E new : Begin(p, new) /\ NewOp(new)
<1>1. CASE Create(p)
  <2>1. PICK task \in Creations :
          Begin(p, [NoOp EXCEPT !.step = "insert", !.kind = "create", !.asked = task])
    BY <1>1 DEF Create
  <2> DEFINE new == [NoOp EXCEPT !.step = "insert", !.kind = "create", !.asked = task]
  <2>2. new.step = "insert" /\ new.kind = "create"
    BY DEF NoOp
  <2> HIDE DEF new
  <2>3. NewOp(new)
    BY <2>2 DEF NewOp
  <2>4. QED BY <2>1, <2>3 DEF new
<1>2. CASE Batch(p)
  <2>1. PICK b \in Batches :
          Begin(p, [NoOp EXCEPT !.step = "readItem", !.kind = "batch", !.items = b,
                                !.batch = started + 1])
    BY <1>2 DEF Batch
  <2> DEFINE new == [NoOp EXCEPT !.step = "readItem", !.kind = "batch", !.items = b,
                                 !.batch = started + 1]
  <2>2. new.step = "readItem" /\ new.kind = "batch"
    BY DEF NoOp
  <2> HIDE DEF new
  <2>3. NewOp(new)
    BY <2>2 DEF NewOp
  <2>4. QED BY <2>1, <2>3 DEF new
<1>3. ASSUME NEW kind \in {"transition", "update", "assign"}, NEW asked,
             Request(p, kind, asked)
      PROVE  Goal
  <2>1. PICK i \in DOMAIN db.tasks :
          Begin(p, [NoOp EXCEPT !.step = "read", !.kind = kind, !.id = i, !.asked = asked])
    BY <1>3 DEF Request
  <2> DEFINE new == [NoOp EXCEPT !.step = "read", !.kind = kind, !.id = i, !.asked = asked]
  <2>2. new.step = "read" /\ new.kind = kind /\ new.id = i
    BY DEF NoOp
  <2> HIDE DEF new
  <2>3. NewOp(new)
    BY <2>2 DEF NewOp
  <2>4. QED BY <2>1, <2>3 DEF new
<1>4. ASSUME NEW step \in CommentSteps, NEW i, NEW who, NEW c, OnComments(p, step, i, who, c),
             step = "remove" => c \in DOMAIN db.comments
      PROVE  Goal
  <2> DEFINE new == [NoOp EXCEPT !.step = step, !.kind = "comments", !.id = i, !.who = who,
                                 !.comment = c, !.at = now]
  <2>1. Begin(p, new)
    BY <1>4 DEF OnComments
  <2>2. new.step = step /\ new.kind = "comments" /\ new.comment = c
    BY DEF NoOp
  <2> HIDE DEF new
  <2>3. NewOp(new)
    BY <1>4, <2>2 DEF NewOp
  <2>4. QED BY <2>1, <2>3
<1>5. CASE Transition(p) \/ Update(p) \/ Assign(p)
  BY <1>3, <1>5 DEF Transition, Update, Assign
<1>6. CASE EditOrRemove(p)
  <2>1. PICK c \in DOMAIN db.comments, step \in {"edit", "remove"} :
          OnComments(p, step, db.comments[c].task, db.comments[c].author, c)
    BY <1>6 DEF EditOrRemove
  <2>2. step \in CommentSteps
    BY DEF CommentSteps
  <2>3. QED BY <1>4, <2>1, <2>2
<1>7. CASE Comment(p)
  <2>1. PICK i, a : OnComments(p, "comment", i, a, 1)
    BY <1>7 DEF Comment
  <2>2. QED BY <1>4, <2>1 DEF CommentSteps
<1>8. CASE ListComments(p)
  <2>1. PICK i, r : OnComments(p, "listed", i, r, 1)
    BY <1>8 DEF ListComments
  <2>2. QED BY <1>4, <2>1 DEF CommentSteps
<1>9. QED
  BY <1>1, <1>2, <1>5, <1>6, <1>7, <1>8 DEF Requests, OnTasks

LEMMA RequestsKeepOverlap ==
  ASSUME IInv, OverlapInv, NEW p \in Callers, Requests(p)
  PROVE  OverlapInv'
<1>1. PICK new : Begin(p, new) /\ NewOp(new)
  BY RequestBegins
<1>2. KindOK(new)
  BY <1>1 DEF NewOp, KindOK, InBatch, TaskSteps, CommentSteps
<1>3. QED BY <1>1, <1>2, BeginKeepsOverlap

\* A step of a running operation other than the insertion of a task.
Continues(p) ==
  \/ Reread(p) \/ LogCreated(p) \/ LogAssigned(p) \/ Read(p) \/ WriteStatus(p) \/ LogStatus(p)
  \/ WriteUpdate(p) \/ LogUpdated(p) \/ WriteAssign(p) \/ Check(p) \/ Notify(p)
  \/ ReadItem(p) \/ WriteItem(p) \/ CommitBatch(p) \/ CommentStep(p) \/ Crash(p)

LEMMA FinishOnward ==
  ASSUME IInv, NEW p \in Callers, Finish(p)
  PROVE  Onward(op[p], op'[p]) /\ \A q \in Callers \ {p} : op'[q] = op[q]
BY FinishMoves DEF Onward

LEMMA MovedOnward ==
  ASSUME NEW p \in Callers, NEW S, Moved(p, S), "kind" \notin S,
         \/ op[p].step \in TaskSteps /\ op'[p].step \in TaskSteps /\ "id" \notin S
         \/ InBatch(op[p]) /\ InBatch(op'[p])
         \/ op[p].step \in CommentSteps /\ op'[p].step \in CommentSteps
  PROVE  Onward(op[p], op'[p]) /\ \A q \in Callers \ {p} : op'[q] = op[q]
<1>1. op'[p].kind = op[p].kind
  BY DEF Moved, OpFields
<1>2. "id" \notin S => op'[p].id = op[p].id
  BY DEF Moved, OpFields
<1>3. QED BY <1>1, <1>2 DEF Moved, Onward

LEMMA ContinuesOnward ==
  ASSUME IInv, NEW p \in Callers, Continues(p)
  PROVE  /\ Onward(op[p], op'[p]) /\ \A q \in Callers \ {p} : op'[q] = op[q]
         /\ spoilt \subseteq spoilt'
         /\ op'[p].step = "notify" => Check(p)
         /\ op'[p].step # "remove"
<1> DEFINE Goal == /\ Onward(op[p], op'[p]) /\ \A q \in Callers \ {p} : op'[q] = op[q]
                   /\ op'[p].step = "notify" => Check(p)
                   /\ op'[p].step # "remove"
<1>0. spoilt \subseteq spoilt'
  BY DEF Continues, Reread, LogCreated, LogAssigned, Read, WriteStatus, LogStatus, WriteUpdate,
         LogUpdated, WriteAssign, Check, Notify, ReadItem, WriteItem, CommitBatch, Crash,
         CommentStep, InsertComment, LogComment, EditComment, RemoveComment, StampMark,
         MarkRead, Clock
<1> SUFFICES Goal
  BY <1>0
<1>1. CASE Finish(p)
  BY <1>1, FinishOnward, FinishMoves, Idle
<1>2. ASSUME NEW step \in TaskSteps \ {"notify"}, op[p].step \in TaskSteps, Goto(p, step)
      PROVE  Goal
  <2>1. Moved(p, {"step"}) /\ op'[p].step = step
    BY <1>2, GotoMoves
  <2>2. QED BY <1>2, <2>1, MovedOnward DEF TaskSteps
<1>3. ASSUME NEW step \in TaskSteps \ {"notify"}, op[p].step \in TaskSteps, NEW t,
             op' = [op EXCEPT ![p].seen = t, ![p].step = step]
      PROVE  Goal
  <2>1. Moved(p, {"seen", "step"}) /\ op'[p].step = step
    BY <1>3, SeenMoves
  <2>2. QED BY <1>3, <2>1, MovedOnward DEF TaskSteps
<1>4. CASE LogCreated(p) \/ LogAssigned(p) \/ WriteStatus(p) \/ WriteUpdate(p) \/ WriteAssign(p)
  BY <1>1, <1>2, <1>4
     DEF LogCreated, LogAssigned, WriteStatus, WriteUpdate, WriteAssign, At, TaskSteps
<1>5. CASE Read(p) \/ LogUpdated(p) \/ Reread(p)
  <2>1. CASE Read(p)
    BY <1>1, <1>3, <2>1 DEF Read, At, TaskSteps
  <2>2. CASE LogUpdated(p)
    BY <1>1, <1>2, <2>2 DEF LogUpdated, At, TaskSteps
  <2>3. CASE Reread(p)
    <3> DEFINE step == IF op[p].kind = "create" THEN "logCreated" ELSE "logUpdated"
    <3>1. PICK t : t = Row(p)
      OBVIOUS
    <3>2. op' = [op EXCEPT ![p].row = t, ![p].step = step]
      BY <2>3, <3>1 DEF Reread
    <3>3. step \in TaskSteps \ {"notify", "remove"} /\ op[p].step \in TaskSteps
      BY <2>3 DEF Reread, At, TaskSteps
    <3> HIDE DEF step
    <3>4. Moved(p, {"row", "step"}) /\ op'[p].step = step
      BY <3>2, RowMoves
    <3>5. QED BY <3>3, <3>4, MovedOnward
  <2>4. QED BY <1>5, <2>1, <2>2, <2>3
<1>6. CASE LogStatus(p) \/ Notify(p) \/ CommitBatch(p) \/ Crash(p)
  BY <1>1, <1>6 DEF LogStatus, Notify, CommitBatch, Crash
<1>7. CASE Check(p)
  <2>1. CASE op' = [op EXCEPT ![p].seen = Row(p), ![p].at = now, ![p].step = "notify"]
    <3>1. PICK t : t = Row(p)
      OBVIOUS
    <3>2. Moved(p, {"seen", "at", "step"}) /\ op'[p].step = "notify"
      BY <2>1, <3>1, NotifyMoves
    <3>3. op[p].step \in TaskSteps /\ "notify" \in TaskSteps
      BY <1>7 DEF Check, At, TaskSteps
    <3>4. QED BY <1>7, <3>2, <3>3, MovedOnward
  <2>2. QED BY <1>1, <1>7, <2>1 DEF Check
<1>8. CASE ReadItem(p) \/ WriteItem(p)
  <2>1. InBatch(op[p])
    BY <1>8 DEF ReadItem, WriteItem, At, InBatch
  <2>2. ASSUME NEW found, NEW id, NEW t,
               op' = [op EXCEPT ![p].step = "writeItem", ![p].found = found,
                                ![p].id = id, ![p].seen = t]
        PROVE  Goal
    <3>1. Moved(p, {"step", "found", "id", "seen"}) /\ op'[p].step = "writeItem"
      BY <2>2, FoundMoves
    <3>2. InBatch(op'[p])
      BY <3>1 DEF InBatch
    <3>3. QED BY <2>1, <3>1, <3>2, MovedOnward
  <2>3. ASSUME NEW items, NEW step \in {"commit", "readItem"},
               op' = [op EXCEPT ![p].items = items, ![p].step = step]
        PROVE  Goal
    <3>1. Moved(p, {"items", "step"}) /\ op'[p].step = step
      BY <2>3, ItemsMove
    <3>2. InBatch(op'[p])
      BY <3>1 DEF InBatch
    <3>3. QED BY <2>1, <3>1, <3>2, MovedOnward
  <2>4. CASE ReadItem(p)
    <3>1. Finish(p) \/ \E found, id, t :
            op' = [op EXCEPT ![p].step = "writeItem", ![p].found = found,
                             ![p].id = id, ![p].seen = t]
      BY <2>4 DEF ReadItem
    <3>2. QED BY <1>1, <2>2, <3>1
  <2>5. CASE WriteItem(p)
    <3> DEFINE items == Tail(op[p].items)
               step == IF Len(op[p].items) = 1 THEN "commit" ELSE "readItem"
    <3>1. Finish(p) \/ op' = [op EXCEPT ![p].items = items, ![p].step = step]
      BY <2>5 DEF WriteItem
    <3>2. step \in {"commit", "readItem"}
      OBVIOUS
    <3> HIDE DEF items, step
    <3>3. QED BY <1>1, <2>3, <3>1, <3>2
  <2>6. QED BY <1>8, <2>4, <2>5
<1>9. CASE CommentStep(p)
  <2>1. op[p].step \in CommentSteps
    BY <1>9 DEF CommentStep, InsertComment, LogComment, EditComment, RemoveComment,
                StampMark, MarkRead, At, CommentSteps
  <2>2. CASE InsertComment(p)
    <3>1. Moved(p, {"step"}) /\ op'[p].step = "logComment"
      BY <2>2, GotoMoves DEF InsertComment
    <3>2. QED BY <2>1, <3>1, MovedOnward DEF CommentSteps
  <2>3. CASE StampMark(p)
    <3>1. Moved(p, {"at", "step"}) /\ op'[p].step = "mark"
      BY <2>3, AtMoves DEF StampMark
    <3>2. QED BY <2>1, <3>1, MovedOnward DEF CommentSteps
  <2>4. QED
    BY <1>1, <1>9, <2>2, <2>3 DEF CommentStep, LogComment, EditComment, RemoveComment, MarkRead
<1>10. QED BY <1>4, <1>5, <1>6, <1>7, <1>8, <1>9 DEF Continues

\* A created task is touched by its operation; one others touch is spoilt.
LEMMA InsertMoves ==
  ASSUME IInv, NEW p \in Callers, Insert(p)
  PROVE  /\ \A q \in Callers \ {p} : op'[q] = op[q]
         /\ spoilt \subseteq spoilt' /\ op[p].step = "insert"
         /\ \/ op'[p] = NoOp /\ Reads
            \/ /\ Moved(p, {"id", "step"})
               /\ op'[p].step = "reread" /\ op'[p].id = Len(db.tasks) + 1
               /\ Commits([db EXCEPT !.tasks = Append(db.tasks, op[p].asked)])
               /\ \A q \in Callers \ {p} :
                    op'[p].id \in Touched(op[q]) => op'[p].id \in spoilt'
<1>1. op[p].step = "insert" /\ spoilt \subseteq spoilt'
  BY DEF Insert, At
<1>2. CASE Reads /\ Finish(p)
  BY <1>1, <1>2, FinishMoves
<1>3. CASE ~(Reads /\ Finish(p))
  <2>1. PICK id, t : id = Len(db.tasks) + 1 /\ t = op[p].asked
    OBVIOUS
  <2>2. /\ Commits([db EXCEPT !.tasks = Append(db.tasks, t)])
        /\ op' = [op EXCEPT ![p].id = id, ![p].step = "reread"]
        /\ spoilt' = spoilt \cup
             ({id} \cap UNION {Touched(op[q]) : q \in Callers \ {p}})
    BY <1>3, <2>1 DEF Insert
  <2>3. Moved(p, {"id", "step"}) /\ op'[p].id = id /\ op'[p].step = "reread"
    BY <2>2, CreatedMoves
  <2>4. \A q \in Callers \ {p} : op'[q] = op[q]
    BY <2>3 DEF Moved
  <2>5. \A q \in Callers \ {p} : id \in Touched(op[q]) => id \in spoilt'
    BY <2>2
  <2>6. QED BY <1>1, <2>1, <2>2, <2>3, <2>4, <2>5
<1>4. QED BY <1>2, <1>3

LEMMA NextKeepsOverlap == IInv /\ OverlapInv /\ [Next]_vars => OverlapInv'
<1> SUFFICES ASSUME IInv, OverlapInv, [Next]_vars
             PROVE  OverlapInv'
  OBVIOUS
<1>1. CASE UNCHANGED vars \/ Tick
  <2>1. UNCHANGED <<op, spoilt>>
    BY <1>1 DEF vars, Tick
  <2>2. QED BY <2>1 DEF OverlapInv, KindOK, InBatch, Touched, Ids
<1>2. ASSUME NEW p \in Callers, Requests(p)
      PROVE  OverlapInv'
  BY <1>2, RequestsKeepOverlap
<1>3. ASSUME NEW p \in Callers, Continues(p)
      PROVE  OverlapInv'
  BY <1>3, ContinuesOnward, OnwardKeepsOverlap
<1>4. ASSUME NEW p \in Callers, Insert(p)
      PROVE  OverlapInv'
  <2>1. \A q \in Callers \ {p} : op'[q] = op[q]
    BY <1>4, InsertMoves
  <2>2. spoilt \subseteq spoilt' /\ op[p].step = "insert"
    BY <1>4, InsertMoves
  <2>3. CASE op'[p] = NoOp
    BY <2>1, <2>2, <2>3, OnwardKeepsOverlap DEF Onward
  <2>4. CASE op'[p] # NoOp
    <3>1. /\ op'[p].kind = op[p].kind /\ op'[p].step = "reread"
          /\ \A q \in Callers \ {p} : op'[p].id \in Touched(op[q]) => op'[p].id \in spoilt'
      BY <1>4, <2>4, InsertMoves DEF Moved, OpFields
    <3>2. KindOK(op[p])
      BY DEF OverlapInv
    <3>3. KindOK(op'[p])
      BY <2>2, <3>1, <3>2 DEF KindOK, InBatch, TaskSteps, CommentSteps
    <3>4. Touched(op'[p]) = {op'[p].id}
      BY <3>1, <3>3, TouchedOf DEF InBatch, TaskSteps
    <3>5. QED BY <2>1, <2>2, <3>1, <3>3, <3>4, OverlapKept
  <2>5. QED BY <2>3, <2>4
<1>5. QED BY <1>1, <1>2, <1>3, <1>4 DEF Next, Step, Continues

LEMMA Overlaps == Spec => []OverlapInv
<1>1. Init => OverlapInv
  <2>1. SUFFICES ASSUME Init
                 PROVE  OverlapInv
    OBVIOUS
  <2>2. \A p \in Callers : op[p].step = "idle"
    BY <2>1, Idle DEF Init
  <2>3. QED BY <2>2 DEF OverlapInv, KindOK, InBatch, TaskSteps, CommentSteps, Touched
<1>2. QED BY <1>1, NextKeepsOverlap, Invariant, PTL DEF Spec

-----------------------------------------------------------------------------
(* What the steps of operations on tasks leave alone *)

Kept(d, e) ==
  /\ DOMAIN e = Fields /\ e.notices = d.notices /\ e.removals = d.removals
  /\ e.comments = d.comments /\ e.marks = d.marks

LEMMA RowsKeep ==
  ASSUME NEW d, DOMAIN d = Fields, NEW es
  PROVE  LET e == WithLog(d, es) IN
         Kept(d, e) /\ e.tasks = d.tasks /\ e.log = d.log \o es
BY DEF WithLog, Kept, Fields

LEMMA TasksKeep ==
  ASSUME NEW d, DOMAIN d = Fields, NEW ts
  PROVE  LET e == [d EXCEPT !.tasks = ts] IN Kept(d, e) /\ e.tasks = ts /\ e.log = d.log
BY DEF Kept, Fields

LEMMA BothKeep ==
  ASSUME NEW d, DOMAIN d = Fields, NEW ts, NEW es
  PROVE  LET e == WithLog([d EXCEPT !.tasks = ts], es) IN
         Kept(d, e) /\ e.tasks = ts /\ e.log = d.log \o es
<1> DEFINE c == [d EXCEPT !.tasks = ts]
           e == WithLog(c, es)
<1>1. Kept(d, c) /\ c.tasks = ts /\ c.log = d.log
  BY TasksKeep
<1> HIDE DEF c
<1>2. Kept(c, e) /\ e.tasks = c.tasks /\ e.log = c.log \o es
  BY <1>1, RowsKeep DEF Kept
<1> HIDE DEF e
<1>3. Kept(d, e) /\ e.tasks = ts /\ e.log = d.log \o es
  BY <1>1, <1>2 DEF Kept
<1>4. QED BY <1>3 DEF e, c

LEMMA DatabaseFields ==
  ASSUME IInv
  PROVE  /\ DOMAIN db = Fields /\ Kept(db, db)
         /\ \A p \in Callers : lock = p => DOMAIN draft = Fields
BY DEF IInv, Good, Transaction, Kept

RestInv == \A p \in Callers : lock = p => Kept(db, draft)

\* The write of p that commits by itself, if it makes one.
LEMMA CommitsKeep ==
  ASSUME IInv, RestInv, NEW d, Commits(d) \/ Reads
  PROVE  RestInv'
<1>1. CASE Commits(d)
  <2>1. lock' = "free" /\ \A p \in Callers : p # "free"
    BY <1>1, TaskBoardAssumption DEF Commits
  <2>2. QED BY <2>1 DEF RestInv
<1>2. CASE Reads
  BY <1>2 DEF Reads, RestInv, Kept
<1>3. QED BY <1>1, <1>2

LEMMA ReadsKeep ==
  ASSUME IInv, RestInv, Reads
  PROVE  RestInv' /\ Kept(db, db')
BY CommitsKeep, DatabaseFields DEF Reads, Kept

LEMMA CommittedRows ==
  ASSUME IInv, RestInv, NEW es, Commits(WithLog(db, es))
  PROVE  RestInv' /\ Kept(db, db')
BY CommitsKeep, RowsKeep, DatabaseFields DEF Commits

LEMMA CommittedTasks ==
  ASSUME IInv, RestInv, NEW ts, Commits([db EXCEPT !.tasks = ts])
  PROVE  RestInv' /\ Kept(db, db')
BY CommitsKeep, TasksKeep, DatabaseFields DEF Commits

LEMMA CommittedBoth ==
  ASSUME IInv, RestInv, NEW ts, NEW es, Commits(WithLog([db EXCEPT !.tasks = ts], es))
  PROVE  RestInv' /\ Kept(db, db')
BY CommitsKeep, BothKeep, DatabaseFields DEF Commits

LEMMA RollbackKeeps ==
  ASSUME IInv, RestInv, NEW p \in Callers, Rollback(p)
  PROVE  RestInv' /\ Kept(db, db')
<1>1. db' = db /\ Kept(db, db')
  BY DatabaseFields DEF Rollback
<1>2. lock' = "free" \/ UNCHANGED <<lock, draft>>
  BY DEF Rollback
<1>3. \A q \in Callers : q # "free"
  BY TaskBoardAssumption
<1>4. QED BY <1>1, <1>2, <1>3 DEF RestInv, Kept

\* Steps on tasks other than the storing of a notice.
StepsOnTasks(p) ==
  \/ Insert(p) \/ Reread(p) \/ LogCreated(p) \/ LogAssigned(p) \/ Read(p) \/ WriteStatus(p)
  \/ LogStatus(p) \/ WriteUpdate(p) \/ LogUpdated(p) \/ WriteAssign(p) \/ Check(p)
  \/ ReadItem(p) \/ WriteItem(p) \/ CommitBatch(p) \/ Crash(p)

LEMMA StepsKeepRest ==
  ASSUME IInv, RestInv, NEW p \in Callers, StepsOnTasks(p)
  PROVE  RestInv' /\ Kept(db, db')
<1>1. CASE LogCreated(p) \/ LogAssigned(p) \/ LogStatus(p) \/ LogUpdated(p) \/ Check(p)
  BY <1>1, CommittedRows, ReadsKeep DEF LogCreated, LogAssigned, LogStatus, LogUpdated, Check
<1>2. CASE Insert(p)
  BY <1>2, CommittedTasks, ReadsKeep DEF Insert
<1>3. CASE Read(p) \/ Reread(p)
  BY <1>3, ReadsKeep DEF Read, Reread
<1>4. CASE WriteStatus(p) \/ WriteUpdate(p)
  <2>1. PICK i : i = op[p].id
    OBVIOUS
  <2>2. CASE WriteStatus(p)
    <3> DEFINE ts == [db.tasks EXCEPT ![i] = [db.tasks[i] EXCEPT !.status = op[p].asked.status]]
    <3>1. Commits([db EXCEPT !.tasks = ts])
      BY <2>1, <2>2 DEF WriteStatus
    <3> HIDE DEF ts
    <3>2. QED BY <3>1, CommittedTasks
  <2>3. CASE WriteUpdate(p) /\ ~Reads
    <3>1. PICK t : t = Updated(Row(p), Merged(op[p].seen, op[p].asked))
      OBVIOUS
    <3> DEFINE ts == [db.tasks EXCEPT ![i] = t]
    <3>2. Commits([db EXCEPT !.tasks = ts])
      BY <2>1, <2>3, <3>1 DEF WriteUpdate
    <3> HIDE DEF ts
    <3>3. QED BY <3>2, CommittedTasks
  <2>4. QED BY <1>4, <2>2, <2>3, ReadsKeep
<1>5. CASE WriteAssign(p)
  <2>1. PICK i, t : i = op[p].id /\ t = [Row(p) EXCEPT !.assignee = op[p].asked.assignee,
                                                     !.email = op[p].asked.email]
    OBVIOUS
  <2> DEFINE ts == [db.tasks EXCEPT ![i] = t]
             es == <<Entry("assigned", i, t, t.status, 0)>>
  <2>2. Commits(WithLog([db EXCEPT !.tasks = ts], es))
    BY <1>5, <2>1 DEF WriteAssign
  <2> HIDE DEF ts, es
  <2>3. QED BY <2>2, CommittedBoth
<1>6. CASE ReadItem(p) \/ Crash(p)
  BY <1>6, ReadsKeep, RollbackKeeps DEF ReadItem, Crash
<1>7. CASE WriteItem(p)
  <2>1. CASE Rollback(p)
    BY <2>1, RollbackKeeps
  <2>2. CASE ~Rollback(p)
    <3>1. PICK v : v = View(p)
      OBVIOUS
    <3>2. PICK ts, es : Drafts(p, WithLog([v EXCEPT !.tasks = ts], es))
      BY <1>7, <2>2, <3>1 DEF WriteItem
    <3>3. DOMAIN v = Fields /\ Kept(db, v)
      BY <3>1, <1>7, DatabaseFields DEF View, RestInv
    <3>4. Kept(v, WithLog([v EXCEPT !.tasks = ts], es))
      BY <3>3, BothKeep
    <3>5. lock' = p /\ db' = db /\ Kept(v, draft')
      BY <3>2, <3>4 DEF Drafts
    <3>6. Kept(db, draft')
      BY <3>3, <3>5 DEF Kept
    <3>7. QED BY <3>5, <3>6, DatabaseFields DEF RestInv, Kept
  <2>3. QED BY <2>1, <2>2
<1>8. CASE CommitBatch(p)
  <2>1. lock = p /\ lock' = "free"
    BY <1>8 DEF CommitBatch, At, IInv
  <2>2. PICK d, es : d = draft /\ db' = WithLog(d, es)
    BY <1>8 DEF CommitBatch
  <2>3. Kept(db, d) /\ Kept(d, db')
    BY <2>1, <2>2, RowsKeep, DatabaseFields DEF RestInv
  <2>4. \A q \in Callers : q # "free"
    BY TaskBoardAssumption
  <2>5. QED BY <2>1, <2>3, <2>4 DEF RestInv, Kept
<1>9. QED BY <1>1, <1>2, <1>3, <1>4, <1>5, <1>6, <1>7, <1>8 DEF StepsOnTasks

LEMMA RequestsWriteNothing ==
  ASSUME IInv, NEW p \in Callers, Requests(p)
  PROVE  UNCHANGED <<db, draft, lock, now>>
BY DEF Requests, OnTasks, Create, Transition, Update, Assign, Batch, Request, Comment,
       EditOrRemove, ListComments, OnComments, Begin

LEMMA NextKeepsRest == IInv /\ RestInv /\ [Next]_vars => RestInv'
<1> SUFFICES ASSUME IInv, RestInv, [Next]_vars
             PROVE  RestInv'
  OBVIOUS
<1>1. CASE UNCHANGED vars \/ Tick
  <2>1. UNCHANGED <<db, draft, lock>>
    BY <1>1 DEF vars, Tick
  <2>2. QED BY <2>1, ReadsKeep DEF Reads
<1>2. ASSUME NEW p \in Callers, Requests(p)
      PROVE  RestInv'
  BY <1>2, RequestsWriteNothing, ReadsKeep DEF Reads
<1>3. ASSUME NEW p \in Callers, StepsOnTasks(p)
      PROVE  RestInv'
  BY <1>3, StepsKeepRest
<1>4. ASSUME NEW p \in Callers, CommentStep(p) \/ Notify(p)
      PROVE  RestInv'
  <2>1. \E d : Commits(d) \/ Reads
    BY <1>4 DEF CommentStep, InsertComment, LogComment, EditComment, RemoveComment,
                StampMark, MarkRead, Notify
  <2>2. QED BY <2>1, CommitsKeep
<1>5. QED BY <1>1, <1>2, <1>3, <1>4 DEF Next, Step, StepsOnTasks

LEMMA RestIsKept == Spec => []RestInv
<1>1. Init => RestInv
  BY TaskBoardAssumption DEF Init, RestInv
<1>2. QED BY <1>1, NextKeepsRest, Invariant, PTL DEF Spec

-----------------------------------------------------------------------------
(* Notices: an operation past its check knows none that it is too close to. *)

\* The notice operation o is about to store.
NoticeOf(o) == [id |-> o.id, to |-> o.seen.email, at |-> o.at]

\* ns are old notices, those of unspoilt tasks apart.
NoticesOK(ns) ==
  /\ IsSeq(ns)
  /\ \A i \in DOMAIN ns : ns[i].at \in Int /\ ns[i].at <= now
  /\ \A i, j \in DOMAIN ns : i < j /\ ns[j].id \notin spoilt => Apart(ns[i], ns[j])

NoticeOK(o, ns) ==
  o.step = "notify" =>
    /\ o.at \in Int /\ o.at <= now
    /\ o.id \notin spoilt => \A i \in DOMAIN ns : Apart(ns[i], NoticeOf(o))

NoticeInv == NoticesOK(db.notices) /\ \A p \in Callers : NoticeOK(op[p], db.notices)

LEMMA NoticesKept ==
  ASSUME IInv, NoticeInv, NEW p \in Callers, \A q \in Callers \ {p} : op'[q] = op[q],
         db'.notices = db.notices, spoilt \subseteq spoilt', now' \in Int, now <= now',
         op'[p].step = "notify" => op'[p] = op[p] \/ NoticeOK(op[p], db.notices)'
  PROVE  NoticeInv'
<1>1. now \in Int
  BY DEF IInv
<1>2. NoticesOK(db.notices)'
  BY <1>1 DEF NoticeInv, NoticesOK, Apart
<1>3. ASSUME NEW q \in Callers, op'[q] = op[q]
      PROVE  NoticeOK(op[q], db.notices)'
  <2>1. NoticeOK(op[q], db.notices)
    BY DEF NoticeInv
  <2>2. QED BY <1>1, <1>3, <2>1 DEF NoticeOK, NoticeOf, Apart
<1>4. \A q \in Callers : NoticeOK(op[q], db.notices)'
  <2>1. op'[p].step # "notify" => NoticeOK(op[p], db.notices)'
    BY DEF NoticeOK
  <2>2. op'[p].step = "notify" /\ op'[p] # op[p] => NoticeOK(op[p], db.notices)'
    OBVIOUS
  <2>3. QED BY <1>3, <2>1, <2>2
<1>5. QED BY <1>2, <1>4 DEF NoticeInv

LEMMA CheckKeepsNotices ==
  ASSUME IInv, NoticeInv, RestInv, NEW p \in Callers, Check(p)
  PROVE  NoticeInv'
<1>1. db'.notices = db.notices
  BY StepsKeepRest DEF StepsOnTasks, Kept
<1>2. \A q \in Callers \ {p} : op'[q] = op[q]
  BY ContinuesOnward DEF Continues
<1>3. UNCHANGED <<now, spoilt>> /\ now \in Int
  BY DEF Check, Clock, IInv
<1>4. CASE Finish(p)
  <2>1. op'[p].step # "notify"
    BY <1>4, FinishMoves, Idle
  <2>2. QED BY <1>1, <1>2, <1>3, <2>1, NoticesKept
<1>5. CASE ~Finish(p)
  <2>1. PICK t : t = Row(p)
    OBVIOUS
  <2>2. /\ op' = [op EXCEPT ![p].seen = t, ![p].at = now, ![p].step = "notify"]
        /\ ~Limited(op[p].id, t.email)
    BY <1>5, <2>1 DEF Check
  <2>3. op'[p].at = now /\ op'[p].seen = t /\ op'[p].id = op[p].id
    <3>1. Moved(p, {"seen", "at", "step"}) /\ op'[p].at = now /\ op'[p].seen = t
      BY <2>2, NotifyMoves
    <3>2. QED BY <3>1 DEF Moved, OpFields
  <2>4. ASSUME NEW i \in DOMAIN db.notices
        PROVE  Apart(db.notices[i], NoticeOf(op'[p]))
    <3>1. db.notices[i].at \in Int
      BY DEF NoticeInv, NoticesOK
    <3>2. ~(/\ db.notices[i].id = op[p].id /\ db.notices[i].to = t.email
            /\ now - db.notices[i].at < Gap)
      BY <2>2 DEF Limited
    <3>3. Gap \in Int
      BY TaskBoardAssumption
    <3>4. QED BY <1>3, <2>3, <3>1, <3>2, <3>3 DEF Apart, NoticeOf
  <2>5. NoticeOK(op[p], db.notices)'
    BY <1>1, <1>3, <2>3, <2>4 DEF NoticeOK, NoticeOf, Apart
  <2>6. QED BY <1>1, <1>2, <1>3, <2>5, NoticesKept
<1>6. QED BY <1>4, <1>5

LEMMA NotifyKeepsNotices ==
  ASSUME IInv, OverlapInv, NoticeInv, NEW p \in Callers, Notify(p)
  PROVE  NoticeInv'
<1>1. op[p].step = "notify" /\ Finish(p) /\ UNCHANGED <<now, spoilt>> /\ now \in Int
  BY DEF Notify, At, Clock, IInv
<1>2. op'[p].step = "idle" /\ \A q \in Callers \ {p} : op'[q] = op[q]
  BY <1>1, FinishMoves, Idle
<1>3. PICK ns, n, es :
        /\ n = NoticeOf(op[p]) /\ ns = db.notices
        /\ db' = WithLog([db EXCEPT !.notices = Append(db.notices, n)], es)
  BY DEF Notify, Commits, NoticeOf
<1>4. db'.notices = Append(ns, n)
  <2>1. DOMAIN db = Fields
    BY DatabaseFields
  <2>2. QED BY <1>3, <2>1 DEF WithLog, Fields
<1>5. NoticesOK(ns) /\ NoticeOK(op[p], ns)
  BY <1>3 DEF NoticeInv
<1>6. PICK ms : ms = Append(ns, n)
  OBVIOUS
<1>7. /\ IsSeq(ms) /\ Len(ns) \in Nat /\ DOMAIN ns = 1..Len(ns)
      /\ DOMAIN ms = 1..(Len(ns) + 1)
      /\ \A i \in DOMAIN ns : ms[i] = ns[i]
      /\ ms[Len(ns) + 1] = n
  BY <1>5, <1>6, AppendTo DEF NoticesOK
<1>8. \A i \in DOMAIN ms : i \in DOMAIN ns \/ i = Len(ns) + 1
  BY <1>7
<1>9. n.at \in Int /\ n.at <= now /\ n.id = op[p].id
  BY <1>1, <1>3, <1>5 DEF NoticeOK, NoticeOf
<1>10. op[p].id \notin spoilt => \A i \in DOMAIN ns : Apart(ns[i], n)
  BY <1>1, <1>3, <1>5 DEF NoticeOK
<1>11. NoticesOK(ms)
  <2>1. \A i \in DOMAIN ms : ms[i].at \in Int /\ ms[i].at <= now
    BY <1>5, <1>7, <1>8, <1>9 DEF NoticesOK
  <2>2. ASSUME NEW i \in DOMAIN ms, NEW j \in DOMAIN ms, i < j, ms[j].id \notin spoilt
        PROVE  Apart(ms[i], ms[j])
    <3>1. CASE j \in DOMAIN ns
      <4>1. i \in DOMAIN ns
        BY <1>7, <2>2, <3>1
      <4>2. QED BY <1>5, <1>7, <2>2, <3>1, <4>1 DEF NoticesOK
    <3>2. CASE j = Len(ns) + 1
      <4>1. i \in DOMAIN ns /\ ms[j] = n
        BY <1>7, <1>8, <2>2, <3>2
      <4>2. QED BY <1>7, <1>9, <1>10, <2>2, <4>1
    <3>3. QED BY <1>8, <3>1, <3>2
  <2>3. QED BY <1>7, <2>1, <2>2 DEF NoticesOK
<1>12. NoticesOK(db.notices)'
  BY <1>1, <1>4, <1>6, <1>11 DEF NoticesOK
<1>13. ASSUME NEW q \in Callers
       PROVE  NoticeOK(op[q], db.notices)'
  <2>1. CASE q = p
    BY <1>2, <2>1 DEF NoticeOK
  <2>2. CASE q # p /\ op[q].step = "notify"
    <3>1. op'[q] = op[q] /\ NoticeOK(op[q], ns)
      BY <1>2, <1>3, <2>2 DEF NoticeInv
    <3>2. KindOK(op[p]) /\ KindOK(op[q]) /\ Touched(op[p]) \cap Touched(op[q]) \subseteq spoilt
      BY <2>2 DEF OverlapInv
    <3>3. Touched(op[p]) = {op[p].id} /\ Touched(op[q]) = {op[q].id}
      BY <1>1, <2>2, <3>2, TouchedOf DEF InBatch, TaskSteps
    <3>4. op[q].id = op[p].id => op[q].id \in spoilt
      BY <3>2, <3>3
    <3>5. op[q].id # op[p].id => Apart(n, NoticeOf(op[q]))
      BY <1>9 DEF Apart, NoticeOf
    <3>6. NoticeOK(op[q], ms)
      BY <1>7, <1>8, <3>1, <3>4, <3>5 DEF NoticeOK
    <3>7. QED BY <1>1, <1>4, <1>6, <3>1, <3>6 DEF NoticeOK, NoticeOf
  <2>3. CASE q # p /\ op[q].step # "notify"
    BY <1>2, <2>3 DEF NoticeOK
  <2>4. QED BY <2>1, <2>2, <2>3
<1>14. QED BY <1>12, <1>13 DEF NoticeInv

LEMMA NextKeepsNotices ==
  IInv /\ OverlapInv /\ RestInv /\ NoticeInv /\ [Next]_vars => NoticeInv'
<1> SUFFICES ASSUME IInv, OverlapInv, RestInv, NoticeInv, [Next]_vars
             PROVE  NoticeInv'
  OBVIOUS
<1>0. now \in Int
  BY DEF IInv
<1>1. CASE UNCHANGED vars \/ Tick
  <2>1. UNCHANGED <<db, op, spoilt>> /\ now' \in Int /\ now <= now'
    BY <1>0, <1>1 DEF vars, Tick
  <2>2. CASE Callers = {}
    BY <1>0, <2>1, <2>2 DEF NoticeInv, NoticesOK, Apart
  <2>3. CASE Callers # {}
    BY <2>1, <2>3, NoticesKept
  <2>4. QED BY <2>2, <2>3
<1>2. ASSUME NEW p \in Callers, Requests(p)
      PROVE  NoticeInv'
  <2>1. PICK new : Begin(p, new) /\ NewOp(new)
    BY <1>2, RequestBegins
  <2>2. /\ op'[p] = new /\ \A q \in Callers \ {p} : op'[q] = op[q]
        /\ UNCHANGED <<db, now>> /\ spoilt \subseteq spoilt'
    BY <2>1, BeginMoves
  <2>3. op'[p].step # "notify"
    BY <2>1, <2>2 DEF NewOp, CommentSteps
  <2>4. QED BY <1>0, <2>2, <2>3, NoticesKept
<1>3. ASSUME NEW p \in Callers, Continues(p), ~Check(p), ~Notify(p)
      PROVE  NoticeInv'
  <2>1. db'.notices = db.notices
    <3>1. CASE CommentStep(p)
      <4>1. DOMAIN db = Fields
        BY DatabaseFields
      <4>2. QED
        BY <3>1, <4>1 DEF CommentStep, InsertComment, LogComment, EditComment, RemoveComment,
                    StampMark, MarkRead, Commits, Reads, Fields
    <3>2. CASE ~CommentStep(p)
      <4>1. Kept(db, db')
        BY <1>3, <3>2, StepsKeepRest DEF Continues, StepsOnTasks
      <4>2. QED BY <4>1 DEF Kept
    <3>3. QED BY <3>1, <3>2
  <2>2. /\ \A q \in Callers \ {p} : op'[q] = op[q]
        /\ spoilt \subseteq spoilt' /\ op'[p].step # "notify"
    BY <1>3, ContinuesOnward
  <2>3. now' = now
    BY <1>3 DEF Continues, Reread, LogCreated, LogAssigned, Read, WriteStatus, LogStatus, WriteUpdate,
       LogUpdated, WriteAssign, ReadItem, WriteItem, CommitBatch, Crash, CommentStep,
       InsertComment, LogComment, EditComment, RemoveComment, StampMark, MarkRead, Clock
  <2>4. QED BY <1>0, <2>1, <2>2, <2>3, NoticesKept
<1>4. ASSUME NEW p \in Callers, Insert(p)
      PROVE  NoticeInv'
  <2>1. Kept(db, db') /\ now' = now
    BY <1>4, StepsKeepRest DEF StepsOnTasks, Insert
  <2>2. /\ \A q \in Callers \ {p} : op'[q] = op[q]
        /\ spoilt \subseteq spoilt' /\ op'[p].step # "notify"
    BY <1>4, InsertMoves, Idle
  <2>3. QED BY <1>0, <2>1, <2>2, NoticesKept DEF Kept
<1>5. ASSUME NEW p \in Callers, Check(p) \/ Notify(p)
      PROVE  NoticeInv'
  BY <1>5, CheckKeepsNotices, NotifyKeepsNotices
<1>6. QED BY <1>1, <1>2, <1>3, <1>4, <1>5 DEF Next, Step, Continues

\* Two notices of one task to one address are the rate limit apart, whatever
\* other operations, crashes and batches run, unless some of them met on the task.
THEOREM NoticesSpaced == Spec => []NoticesAreSpaced
<1>1. Init => NoticeInv
  <2>1. SUFFICES ASSUME Init
                 PROVE  NoticeInv
    OBVIOUS
  <2>2. /\ IsDatabase(db) /\ now = 0
        /\ \A i, j \in DOMAIN db.notices : i < j => Apart(db.notices[i], db.notices[j])
        /\ \A i \in DOMAIN db.notices : db.notices[i].at <= 0
    BY <2>1, DatabasesAssumption DEF Init
  <2>3. db.notices \in Seq(Notices)
    BY <2>2 DEF IsDatabase
  <2>4. \A i \in DOMAIN db.notices : db.notices[i].at \in Int
    <3>1. \A i \in DOMAIN db.notices : db.notices[i] \in Notices
      BY <2>3
    <3>2. QED BY <3>1 DEF Notices
  <2>5. NoticesOK(db.notices)
    BY <2>2, <2>3, <2>4 DEF NoticesOK, IsSeq
  <2>6. \A p \in Callers : op[p].step = "idle"
    BY <2>1, Idle DEF Init
  <2>7. QED BY <2>5, <2>6 DEF NoticeInv, NoticeOK
<1>2. NoticeInv => NoticesAreSpaced
  BY DEF NoticeInv, NoticesOK, NoticesAreSpaced
<1>3. QED BY <1>1, <1>2, NextKeepsNotices, Invariant, Overlaps, RestIsKept, PTL DEF Spec

-----------------------------------------------------------------------------
(* Comments are gone when a row tells it.                                    *)

RemovalInv ==
  /\ RemovalsTold(db) /\ IsSeq(db.removals)
  /\ \A k \in DOMAIN db.removals : db.removals[k] \in DOMAIN db.comments
  /\ \A p \in Callers : op[p].step = "remove" => op[p].comment \in DOMAIN db.comments

\* No comment is lost, and p's operation removes one that is there to remove.
LEMMA RemovalsKept ==
  ASSUME RemovalInv, NEW p \in Callers, \A q \in Callers \ {p} : op'[q] = op[q],
         op'[p].step # "remove", DOMAIN db.comments \subseteq DOMAIN db'.comments,
         RemovalsTold(db'), IsSeq(db'.removals),
         \A k \in DOMAIN db'.removals : db'.removals[k] \in DOMAIN db'.comments
  PROVE  RemovalInv'
<1>1. ASSUME NEW q \in Callers, op'[q].step = "remove"
      PROVE  op'[q].comment \in DOMAIN db'.comments
  BY <1>1 DEF RemovalInv
<1>2. RemovalsTold(db)'
  BY DEF RemovalsTold
<1>3. QED BY <1>1, <1>2 DEF RemovalInv

LEMMA SameRemovals ==
  ASSUME RemovalInv, NEW p \in Callers, \A q \in Callers \ {p} : op'[q] = op[q],
         op'[p].step # "remove", db'.comments = db.comments, db'.removals = db.removals
  PROVE  RemovalInv'
<1>1. RemovalsTold(db') /\ IsSeq(db'.removals)
  BY DEF RemovalInv, RemovalsTold
<1>2. \A k \in DOMAIN db'.removals : db'.removals[k] \in DOMAIN db'.comments
  BY DEF RemovalInv
<1>3. QED BY <1>1, <1>2, RemovalsKept

LEMMA RemoveKeepsRemovals ==
  ASSUME IInv, RemovalInv, NEW p \in Callers, RemoveComment(p)
  PROVE  RemovalInv'
<1>1. PICK c, rs, cs : c = op[p].comment /\ rs = db.removals /\ cs = db.comments
  OBVIOUS
<1>2. c \in DOMAIN cs
  BY <1>1 DEF RemoveComment, At, RemovalInv
<1>3. /\ IsSeq(rs) /\ CommentsOK(cs) /\ DOMAIN db = Fields
      /\ \A k \in DOMAIN rs : rs[k] \in DOMAIN cs
  BY <1>1 DEF RemovalInv, IInv, Good
<1> DEFINE ds == [cs EXCEPT ![c] = [cs[c] EXCEPT !.there = FALSE]]
           ss == Append(rs, c)
<1>4. db'.comments = ds /\ db'.removals = ss
  BY <1>1, <1>3 DEF RemoveComment, Commits, Fields
<1>5. IsComment(cs[c])
  BY <1>2, <1>3 DEF CommentsOK
<1>6. /\ DOMAIN ds = DOMAIN cs /\ ds[c].there = FALSE
      /\ \A d \in DOMAIN cs : d # c => ds[d] = cs[d]
  BY <1>2, <1>5 DEF IsComment
<1>7. /\ IsSeq(ss) /\ Len(rs) \in Nat /\ DOMAIN rs = 1..Len(rs)
      /\ DOMAIN ss = 1..(Len(rs) + 1)
      /\ \A k \in DOMAIN rs : ss[k] = rs[k]
      /\ ss[Len(rs) + 1] = c
  BY <1>3, AppendTo
<1> HIDE DEF ds, ss
<1>8. Len(rs) + 1 \in DOMAIN ss /\ \A k \in DOMAIN ss : k \in DOMAIN rs \/ k = Len(rs) + 1
  BY <1>7
<1>9. \A k \in DOMAIN rs : k \in DOMAIN ss
  BY <1>7
<1>10. \A d \in DOMAIN cs : cs[d].there <=> \A k \in DOMAIN rs : rs[k] # d
  BY <1>1 DEF RemovalInv, RemovalsTold
<1>11. ASSUME NEW d \in DOMAIN ds
       PROVE  ds[d].there <=> \A k \in DOMAIN ss : ss[k] # d
  <2>1. CASE d = c
    BY <1>6, <1>7, <1>8, <2>1
  <2>2. CASE d # c
    <3>1. ds[d] = cs[d] /\ d \in DOMAIN cs
      BY <1>6, <2>2
    <3>2. (\A k \in DOMAIN ss : ss[k] # d) <=> \A k \in DOMAIN rs : rs[k] # d
      BY <1>7, <1>8, <1>9, <2>2
    <3>3. QED BY <1>10, <3>1, <3>2
  <2>3. QED BY <2>1, <2>2
<1>12. RemovalsTold(db')
  BY <1>4, <1>11 DEF RemovalsTold
<1>13. \A k \in DOMAIN ss : ss[k] \in DOMAIN ds
  BY <1>2, <1>3, <1>6, <1>7, <1>8
<1>14. op'[p].step # "remove" /\ \A q \in Callers \ {p} : op'[q] = op[q]
  BY FinishMoves, Idle DEF RemoveComment
<1>15. DOMAIN db.comments \subseteq DOMAIN db'.comments
  BY <1>1, <1>4, <1>6
<1>16. IsSeq(db'.removals) /\ \A k \in DOMAIN db'.removals : db'.removals[k] \in DOMAIN db'.comments
  BY <1>4, <1>7, <1>13
<1>17. QED BY <1>12, <1>14, <1>15, <1>16, RemovalsKept

LEMMA InsertKeepsRemovals ==
  ASSUME IInv, RemovalInv, NEW p \in Callers, InsertComment(p)
  PROVE  RemovalInv'
<1>1. PICK c, cs, rs :
        /\ c = [task |-> op[p].id, author |-> op[p].who, updated |-> op[p].at, there |-> TRUE]
        /\ cs = db.comments /\ rs = db.removals
  OBVIOUS
<1> DEFINE ds == Append(cs, c)
<1>2. IsSeq(cs) /\ DOMAIN db = Fields /\ \A k \in DOMAIN rs : rs[k] \in DOMAIN cs
  BY <1>1 DEF RemovalInv, IInv, Good, CommentsOK
<1>3. db'.comments = ds /\ db'.removals = rs
  BY <1>1, <1>2 DEF InsertComment, Commits, Fields
<1>4. /\ Len(cs) \in Nat /\ DOMAIN cs = 1..Len(cs)
      /\ DOMAIN ds = 1..(Len(cs) + 1)
      /\ \A d \in DOMAIN cs : ds[d] = cs[d]
      /\ ds[Len(cs) + 1] = c
  BY <1>2, AppendTo
<1> HIDE DEF ds
<1>5. \A d \in DOMAIN cs : d \in DOMAIN ds
  BY <1>4
<1>6. \A d \in DOMAIN ds : d \in DOMAIN cs \/ d = Len(cs) + 1
  BY <1>4
<1>7. Len(cs) + 1 \notin DOMAIN cs
  BY <1>4
<1>8. c.there
  BY <1>1
<1>9. \A d \in DOMAIN cs : cs[d].there <=> \A k \in DOMAIN rs : rs[k] # d
  BY <1>1 DEF RemovalInv, RemovalsTold
<1>10. ASSUME NEW d \in DOMAIN ds
       PROVE  ds[d].there <=> \A k \in DOMAIN rs : rs[k] # d
  <2>1. CASE d \in DOMAIN cs
    BY <1>4, <1>9, <2>1
  <2>2. CASE d = Len(cs) + 1
    <3>1. \A k \in DOMAIN rs : rs[k] # d
      BY <1>2, <1>7, <2>2
    <3>2. QED BY <1>4, <1>8, <2>2, <3>1
  <2>3. QED BY <1>6, <2>1, <2>2
<1>11. RemovalsTold(db')
  BY <1>3, <1>10 DEF RemovalsTold
<1>12. /\ DOMAIN db.comments \subseteq DOMAIN db'.comments /\ IsSeq(db'.removals)
       /\ \A k \in DOMAIN db'.removals : db'.removals[k] \in DOMAIN db'.comments
  BY <1>1, <1>2, <1>3, <1>5 DEF RemovalInv
<1>13. op'[p].step # "remove" /\ \A q \in Callers \ {p} : op'[q] = op[q]
  BY GotoMoves DEF InsertComment, Moved
<1>14. QED BY <1>11, <1>12, <1>13, RemovalsKept

LEMMA EditKeepsRemovals ==
  ASSUME IInv, RemovalInv, NEW p \in Callers, EditComment(p)
  PROVE  RemovalInv'
<1>1. op'[p].step # "remove" /\ \A q \in Callers \ {p} : op'[q] = op[q]
  BY FinishMoves, Idle DEF EditComment
<1>2. CASE Reads
  BY <1>1, <1>2, SameRemovals DEF Reads
<1>3. CASE ~Reads
  <2>1. PICK c, cs, t : c = op[p].comment /\ cs = db.comments /\ t = Edited(cs[c], op[p].at)
    OBVIOUS
  <2> DEFINE ds == [cs EXCEPT ![c] = t]
  <2>2. CommentsOK(cs) /\ DOMAIN db = Fields
    BY <2>1 DEF IInv, Good
  <2>3. db'.comments = ds /\ db'.removals = db.removals
    BY <1>3, <2>1, <2>2 DEF EditComment, Commits, Fields
  <2>4. IsSeq(cs)
    BY <2>2 DEF CommentsOK
  <2>5. DOMAIN ds = DOMAIN cs /\ \A d \in DOMAIN cs : ds[d] = IF d = c THEN t ELSE cs[d]
    BY <2>4, SetElement
  <2> HIDE DEF ds
  <2>6. c \in DOMAIN cs => t.there = cs[c].there
    <3>1. c \in DOMAIN cs => IsComment(cs[c])
      BY <2>2 DEF CommentsOK
    <3>2. QED BY <2>1, <3>1 DEF IsComment, Edited
  <2>7. \A d \in DOMAIN cs : ds[d].there = cs[d].there
    BY <2>5, <2>6
  <2>8. RemovalsTold(db')
    BY <2>1, <2>3, <2>5, <2>7 DEF RemovalInv, RemovalsTold
  <2>9. /\ DOMAIN db.comments \subseteq DOMAIN db'.comments /\ IsSeq(db'.removals)
        /\ \A k \in DOMAIN db'.removals : db'.removals[k] \in DOMAIN db'.comments
    BY <2>1, <2>3, <2>5 DEF RemovalInv
  <2>10. QED BY <1>1, <2>8, <2>9, RemovalsKept
<1>4. QED BY <1>2, <1>3

LEMMA NextKeepsRemovals == IInv /\ RestInv /\ RemovalInv /\ [Next]_vars => RemovalInv'
<1> SUFFICES ASSUME IInv, RestInv, RemovalInv, [Next]_vars
             PROVE  RemovalInv'
  OBVIOUS
<1>0. DOMAIN db = Fields
  BY DatabaseFields
<1>1. CASE UNCHANGED vars \/ Tick
  BY <1>1 DEF vars, Tick, RemovalInv, RemovalsTold
<1>2. ASSUME NEW p \in Callers, Requests(p)
      PROVE  RemovalInv'
  <2>1. PICK new : Begin(p, new) /\ NewOp(new)
    BY <1>2, RequestBegins
  <2>2. op'[p] = new /\ (\A q \in Callers \ {p} : op'[q] = op[q]) /\ db' = db
    BY <2>1, BeginMoves
  <2>3. op'[p].step = "remove" => op'[p].comment \in DOMAIN db'.comments
    BY <2>1, <2>2 DEF NewOp
  <2>4. QED BY <2>2, <2>3 DEF RemovalInv, RemovalsTold
<1>3. ASSUME NEW p \in Callers, Notify(p) \/ LogComment(p) \/ StampMark(p) \/ MarkRead(p)
      PROVE  RemovalInv'
  <2>1. db'.comments = db.comments /\ db'.removals = db.removals
    BY <1>0, <1>3 DEF Notify, LogComment, StampMark, MarkRead, Commits, Reads, WithLog, Fields
  <2>2. op'[p].step # "remove" /\ \A q \in Callers \ {p} : op'[q] = op[q]
    BY <1>3, ContinuesOnward DEF Continues, CommentStep
  <2>3. QED BY <2>1, <2>2, SameRemovals
<1>4. ASSUME NEW p \in Callers, StepsOnTasks(p)
      PROVE  RemovalInv'
  <2>1. db'.comments = db.comments /\ db'.removals = db.removals
    BY <1>4, StepsKeepRest DEF Kept
  <2>2. op'[p].step # "remove" /\ \A q \in Callers \ {p} : op'[q] = op[q]
    BY <1>4, ContinuesOnward, InsertMoves, Idle DEF Continues, StepsOnTasks
  <2>3. QED BY <2>1, <2>2, SameRemovals
<1>5. ASSUME NEW p \in Callers, InsertComment(p) \/ EditComment(p) \/ RemoveComment(p)
      PROVE  RemovalInv'
  BY <1>5, InsertKeepsRemovals, EditKeepsRemovals, RemoveKeepsRemovals
<1>6. QED
  BY <1>1, <1>2, <1>3, <1>4, <1>5 DEF Next, Step, StepsOnTasks, CommentStep

LEMMA RemovalsAreTold == Spec => []RemovalInv
<1>1. Init => RemovalInv
  <2>1. SUFFICES ASSUME Init
                 PROVE  RemovalInv
    OBVIOUS
  <2>2. IsDatabase(db) /\ RemovalsTold(db)
    BY <2>1, DatabasesAssumption DEF Init
  <2>3. db.removals \in Seq(DOMAIN db.comments)
    BY <2>2 DEF IsDatabase
  <2>4. \A k \in DOMAIN db.removals : db.removals[k] \in DOMAIN db.comments
    BY <2>3
  <2>5. \A p \in Callers : op[p].step = "idle"
    BY <2>1, Idle DEF Init
  <2>6. QED BY <2>2, <2>3, <2>4, <2>5 DEF RemovalInv, IsSeq
<1>2. QED BY <1>1, NextKeepsRemovals, Invariant, RestIsKept, PTL DEF Spec

-----------------------------------------------------------------------------
(* What one more row tells *)

\* The log longer is log and the row e.
AndRow(log, longer, e) ==
  \E n \in Nat :
    /\ DOMAIN log = 1..n /\ DOMAIN longer = 1..(n + 1)
    /\ \A k \in 1..n : longer[k] = log[k]
    /\ longer[n + 1] = e

ToldRows == StatusRows \cup AssigneeRows
NoRows(log, i) == \A k \in DOMAIN log : ~RowOf(log[k], i, ToldRows)

\* The rows of task i tell the same in both.
SameStory(log, longer, i) ==
  /\ \A s : StatusTold(log, i, s) => StatusTold(longer, i, s)
  /\ \A a : AssigneeTold(log, i, a) => AssigneeTold(longer, i, a)
  /\ Chain(log, i) => Chain(longer, i)
  /\ NoRows(log, i) => NoRows(longer, i)

LEMMA RowAdded ==
  ASSUME NEW log, IsSeq(log), NEW e
  PROVE  AndRow(log, log \o <<e>>, e)
<1>1. PICK S : log \in Seq(S)
  BY DEF IsSeq
<1>2. PICK n \in Nat : n = Len(log)
  BY <1>1
<1>3. DOMAIN log = 1..n
  BY <1>1, <1>2
<1>4. log \in Seq(S \cup {e}) /\ <<e>> \in Seq(S \cup {e}) /\ Len(<<e>>) = 1 /\ <<e>>[1] = e
  BY <1>1
<1>5. /\ DOMAIN (log \o <<e>>) = 1..(n + 1) /\ (log \o <<e>>)[n + 1] = e
      /\ \A k \in 1..n : (log \o <<e>>)[k] = log[k]
  BY <1>2, <1>3, <1>4
<1>6. QED BY <1>3, <1>5 DEF AndRow

LEMMA TwoRows ==
  ASSUME NEW log, IsSeq(log), NEW d, NEW e
  PROVE  \E mid : AndRow(log, mid, d) /\ AndRow(mid, log \o <<d, e>>, e)
<1>1. PICK S : log \in Seq(S)
  BY DEF IsSeq
<1>2. PICK n \in Nat : n = Len(log)
  BY <1>1
<1>3. DOMAIN log = 1..n
  BY <1>1, <1>2
<1>4. PICK T : T = S \cup {d, e}
  OBVIOUS
<1>5. log \in Seq(T) /\ <<d, e>> \in Seq(T)
  BY <1>1, <1>4
<1>6. Len(<<d, e>>) = 2 /\ <<d, e>>[1] = d /\ <<d, e>>[2] = e
  OBVIOUS
<1>7. /\ DOMAIN (log \o <<d, e>>) = 1..(n + 2)
      /\ \A k \in 1..n : (log \o <<d, e>>)[k] = log[k]
      /\ (log \o <<d, e>>)[n + 1] = d /\ (log \o <<d, e>>)[(n + 1) + 1] = e
  BY <1>2, <1>3, <1>5, <1>6
<1>8. PICK mid : mid = [k \in 1..(n + 1) |-> (log \o <<d, e>>)[k]]
  OBVIOUS
<1>9. AndRow(log, mid, d)
  BY <1>3, <1>7, <1>8 DEF AndRow
<1>10. n + 1 \in Nat /\ (n + 1) + 1 = n + 2
  OBVIOUS
<1>11. AndRow(mid, log \o <<d, e>>, e)
  BY <1>7, <1>8, <1>10 DEF AndRow
<1>12. QED BY <1>9, <1>11

\* A row that tells nothing of the task.
LEMMA OtherRow ==
  ASSUME NEW log, NEW longer, NEW e, AndRow(log, longer, e), NEW i,
         ~RowOf(e, i, ToldRows)
  PROVE  SameStory(log, longer, i)
<1>1. PICK n \in Nat :
        /\ DOMAIN log = 1..n /\ DOMAIN longer = 1..(n + 1)
        /\ \A k \in 1..n : longer[k] = log[k]
        /\ longer[n + 1] = e
  BY DEF AndRow
<1>2. /\ \A k \in DOMAIN log : k \in DOMAIN longer /\ longer[k] = log[k]
      /\ \A k \in DOMAIN longer : RowOf(longer[k], i, ToldRows) => k \in DOMAIN log
  BY <1>1
<1>3. \A r, S : RowOf(r, i, S) /\ S \subseteq ToldRows => RowOf(r, i, ToldRows)
  BY DEF RowOf
<1>4. StatusRows \subseteq ToldRows /\ AssigneeRows \subseteq ToldRows /\ {"status"} \subseteq ToldRows
      /\ {"status"} \subseteq StatusRows
  BY DEF ToldRows, StatusRows, AssigneeRows
<1>5. ASSUME NEW S, S \subseteq ToldRows, NEW k \in DOMAIN log, IsLast(log, k, i, S)
      PROVE  k \in DOMAIN longer /\ longer[k] = log[k] /\ IsLast(longer, k, i, S)
  BY <1>2, <1>3, <1>5 DEF IsLast
<1>6. ASSUME NEW s, StatusTold(log, i, s)
      PROVE  StatusTold(longer, i, s)
  BY <1>4, <1>5, <1>6 DEF StatusTold
<1>7. ASSUME NEW a, AssigneeTold(log, i, a)
      PROVE  AssigneeTold(longer, i, a)
  BY <1>4, <1>5, <1>7 DEF AssigneeTold
<1>8. ASSUME Chain(log, i)
      PROVE  Chain(longer, i)
  <2>1. ASSUME NEW k \in DOMAIN longer, RowOf(longer[k], i, {"status"})
        PROVE  /\ Allowed(longer[k].from, longer[k].status)
               /\ \E j \in DOMAIN longer :
                    /\ j < k /\ RowOf(longer[j], i, StatusRows) /\ longer[j].status = longer[k].from
                    /\ \A m \in DOMAIN longer : RowOf(longer[m], i, StatusRows) => m <= j \/ k <= m
    <3>1. k \in DOMAIN log /\ longer[k] = log[k]
      BY <1>2, <1>3, <1>4, <2>1
    <3>2. /\ Allowed(log[k].from, log[k].status)
          /\ \E j \in DOMAIN log :
               /\ j < k /\ RowOf(log[j], i, StatusRows) /\ log[j].status = log[k].from
               /\ \A m \in DOMAIN log : RowOf(log[m], i, StatusRows) => m <= j \/ k <= m
      BY <1>8, <2>1, <3>1 DEF Chain
    <3>3. PICK j \in DOMAIN log :
            /\ j < k /\ RowOf(log[j], i, StatusRows) /\ log[j].status = log[k].from
            /\ \A m \in DOMAIN log : RowOf(log[m], i, StatusRows) => m <= j \/ k <= m
      BY <3>2
    <3>4. \A m \in DOMAIN longer : RowOf(longer[m], i, StatusRows) => m <= j \/ k <= m
      BY <1>2, <1>3, <1>4, <3>3
    <3>5. QED BY <1>2, <3>1, <3>2, <3>3, <3>4
  <2>2. QED BY <2>1 DEF Chain
<1>9. ASSUME NoRows(log, i)
      PROVE  NoRows(longer, i)
  BY <1>2, <1>9 DEF NoRows
<1>10. QED BY <1>6, <1>7, <1>8, <1>9 DEF SameStory

\* A row of some actions S leaves alone what rows of other actions tell.
LEMMA RowTellsStatus ==
  ASSUME NEW log, NEW longer, NEW e, AndRow(log, longer, e), NEW i,
         RowOf(e, i, StatusRows)
  PROVE  /\ StatusTold(longer, i, e.status)
         /\ \A a : AssigneeTold(log, i, a) => AssigneeTold(longer, i, a)
         /\ e.action # "status" /\ Chain(log, i) => Chain(longer, i)
         /\ StatusTold(log, i, e.from) /\ Allowed(e.from, e.status) /\ Chain(log, i)
              => Chain(longer, i)
<1>1. PICK n \in Nat :
        /\ DOMAIN log = 1..n /\ DOMAIN longer = 1..(n + 1)
        /\ \A k \in 1..n : longer[k] = log[k]
        /\ longer[n + 1] = e
  BY DEF AndRow
<1>2. /\ \A k \in DOMAIN log : k \in DOMAIN longer /\ longer[k] = log[k] /\ k < n + 1
      /\ \A k \in DOMAIN longer : k \in DOMAIN log \/ k = n + 1
      /\ \A k \in DOMAIN longer : k <= n + 1
      /\ n + 1 \in DOMAIN longer
  BY <1>1
<1>3. ~RowOf(e, i, AssigneeRows)
  BY DEF RowOf, StatusRows, AssigneeRows
<1>4. StatusTold(longer, i, e.status)
  BY <1>1, <1>2 DEF StatusTold, IsLast
<1>5. ASSUME NEW a, AssigneeTold(log, i, a)
      PROVE  AssigneeTold(longer, i, a)
  <2>1. PICK k \in DOMAIN log : IsLast(log, k, i, AssigneeRows) /\ log[k].assignee = a
    BY <1>5 DEF AssigneeTold
  <2>2. IsLast(longer, k, i, AssigneeRows)
    BY <1>1, <1>2, <1>3, <2>1 DEF IsLast
  <2>3. QED BY <1>2, <2>1, <2>2 DEF AssigneeTold
<1>6. ASSUME Chain(log, i), NEW k \in DOMAIN log, RowOf(longer[k], i, {"status"})
      PROVE  /\ Allowed(longer[k].from, longer[k].status)
             /\ \E j \in DOMAIN longer :
                  /\ j < k /\ RowOf(longer[j], i, StatusRows) /\ longer[j].status = longer[k].from
                  /\ \A m \in DOMAIN longer : RowOf(longer[m], i, StatusRows) => m <= j \/ k <= m
  <2>1. RowOf(log[k], i, {"status"})
    BY <1>2, <1>6
  <2>2. /\ Allowed(log[k].from, log[k].status)
        /\ \E j \in DOMAIN log :
             /\ j < k /\ RowOf(log[j], i, StatusRows) /\ log[j].status = log[k].from
             /\ \A m \in DOMAIN log : RowOf(log[m], i, StatusRows) => m <= j \/ k <= m
    BY <1>6, <2>1 DEF Chain
  <2>3. PICK j \in DOMAIN log :
          /\ j < k /\ RowOf(log[j], i, StatusRows) /\ log[j].status = log[k].from
          /\ \A m \in DOMAIN log : RowOf(log[m], i, StatusRows) => m <= j \/ k <= m
    BY <2>2
  <2>4. k <= n + 1
    BY <1>2
  <2>5. \A m \in DOMAIN longer : RowOf(longer[m], i, StatusRows) => m <= j \/ k <= m
    BY <1>2, <2>3, <2>4
  <2>6. j \in DOMAIN longer /\ longer[j] = log[j] /\ longer[k] = log[k]
    BY <1>2
  <2>7. QED BY <2>2, <2>3, <2>5, <2>6
<1>7. ASSUME e.action # "status", Chain(log, i)
      PROVE  Chain(longer, i)
  <2>1. ~RowOf(longer[n + 1], i, {"status"})
    BY <1>1, <1>7 DEF RowOf
  <2>2. \A k \in DOMAIN longer : RowOf(longer[k], i, {"status"}) => k \in DOMAIN log
    BY <1>2, <2>1
  <2>3. QED BY <1>6, <1>7, <2>2 DEF Chain
<1>8. ASSUME StatusTold(log, i, e.from), Allowed(e.from, e.status), Chain(log, i)
      PROVE  Chain(longer, i)
  <2>1. PICK j \in DOMAIN log : IsLast(log, j, i, StatusRows) /\ log[j].status = e.from
    BY <1>8 DEF StatusTold
  <2>2. /\ j \in DOMAIN longer /\ j < n + 1 /\ longer[j] = log[j]
        /\ RowOf(longer[j], i, StatusRows) /\ longer[j].status = longer[n + 1].from
    BY <1>1, <1>2, <2>1 DEF IsLast
  <2>3. \A m \in DOMAIN longer : RowOf(longer[m], i, StatusRows) => m <= j \/ n + 1 <= m
    BY <1>1, <1>2, <2>1 DEF IsLast
  <2>4. Allowed(longer[n + 1].from, longer[n + 1].status)
    BY <1>1, <1>8
  <2>5. QED BY <1>2, <1>6, <1>8, <2>2, <2>3, <2>4 DEF Chain
<1>9. QED BY <1>4, <1>5, <1>7, <1>8

LEMMA RowTellsAssignee ==
  ASSUME NEW log, NEW longer, NEW e, AndRow(log, longer, e), NEW i,
         RowOf(e, i, AssigneeRows)
  PROVE  /\ AssigneeTold(longer, i, e.assignee)
         /\ \A s : StatusTold(log, i, s) => StatusTold(longer, i, s)
         /\ Chain(log, i) => Chain(longer, i)
<1>1. PICK n \in Nat :
        /\ DOMAIN log = 1..n /\ DOMAIN longer = 1..(n + 1)
        /\ \A k \in 1..n : longer[k] = log[k]
        /\ longer[n + 1] = e
  BY DEF AndRow
<1>2. /\ \A k \in DOMAIN log : k \in DOMAIN longer /\ longer[k] = log[k]
      /\ \A k \in DOMAIN longer : k <= n + 1 /\ (k \in DOMAIN log \/ k = n + 1)
      /\ n + 1 \in DOMAIN longer
  BY <1>1
<1>3. ~RowOf(e, i, StatusRows) /\ ~RowOf(e, i, {"status"})
  BY DEF RowOf, StatusRows, AssigneeRows
<1>4. AssigneeTold(longer, i, e.assignee)
  BY <1>1, <1>2 DEF AssigneeTold, IsLast
<1>5. ASSUME NEW s, StatusTold(log, i, s)
      PROVE  StatusTold(longer, i, s)
  <2>1. PICK k \in DOMAIN log : IsLast(log, k, i, StatusRows) /\ log[k].status = s
    BY <1>5 DEF StatusTold
  <2>2. IsLast(longer, k, i, StatusRows)
    BY <1>1, <1>2, <1>3, <2>1 DEF IsLast
  <2>3. QED BY <1>2, <2>1, <2>2 DEF StatusTold
<1>6. ASSUME Chain(log, i), NEW k \in DOMAIN longer, RowOf(longer[k], i, {"status"})
      PROVE  /\ Allowed(longer[k].from, longer[k].status)
             /\ \E j \in DOMAIN longer :
                  /\ j < k /\ RowOf(longer[j], i, StatusRows) /\ longer[j].status = longer[k].from
                  /\ \A m \in DOMAIN longer : RowOf(longer[m], i, StatusRows) => m <= j \/ k <= m
  <2>1. k \in DOMAIN log /\ longer[k] = log[k]
    BY <1>1, <1>2, <1>3, <1>6
  <2>2. /\ Allowed(log[k].from, log[k].status)
        /\ \E j \in DOMAIN log :
             /\ j < k /\ RowOf(log[j], i, StatusRows) /\ log[j].status = log[k].from
             /\ \A m \in DOMAIN log : RowOf(log[m], i, StatusRows) => m <= j \/ k <= m
    BY <1>6, <2>1 DEF Chain
  <2>3. PICK j \in DOMAIN log :
          /\ j < k /\ RowOf(log[j], i, StatusRows) /\ log[j].status = log[k].from
          /\ \A m \in DOMAIN log : RowOf(log[m], i, StatusRows) => m <= j \/ k <= m
    BY <2>2
  <2>4. \A m \in DOMAIN longer : RowOf(longer[m], i, StatusRows) => m <= j \/ k <= m
    BY <1>1, <1>2, <1>3, <2>3
  <2>5. j \in DOMAIN longer /\ longer[j] = log[j]
    BY <1>2
  <2>6. QED BY <2>1, <2>2, <2>3, <2>4, <2>5
<1>7. Chain(log, i) => Chain(longer, i)
  BY <1>6 DEF Chain
<1>8. QED BY <1>4, <1>5, <1>7

-----------------------------------------------------------------------------
(* What the log tells: all of a task, unless an operation is amid writing it. *)

Known(log, ids) ==
  \A k \in DOMAIN log : log[k].action \in ToldRows => log[k].id \in ids

Sound(d, i) ==
  /\ StatusTold(d.log, i, d.tasks[i].status)
  /\ AssigneeTold(d.log, i, d.tasks[i].assignee)
  /\ Chain(d.log, i)

SoundBoard(d, except) ==
  Known(d.log, DOMAIN d.tasks) /\ \A i \in DOMAIN d.tasks \ except : Sound(d, i)

\* Operation o has written task i and not yet the log rows that tell it.
LogSteps == {"reread", "logStatus", "logUpdated", "logCreated", "logAssigned"}
Amid(o, i) == o.id = i /\ o.step \in LogSteps

\* What operation o knows of the task it is about to write, and what it still
\* owes the log.
Owed(o, d) ==
  LET task == d.tasks[o.id]
      new == Merged(o.seen, o.asked) IN
  /\ o.step = "write" =>
       /\ o.seen.status = task.status /\ o.seen.assignee = task.assignee
       /\ o.kind = "transition" => Allowed(o.seen.status, o.asked.status)
  /\ o.step = "logStatus" =>
       /\ StatusTold(d.log, o.id, o.seen.status)
       /\ AssigneeTold(d.log, o.id, task.assignee)
       /\ task.status = o.asked.status /\ Allowed(o.seen.status, o.asked.status)
  /\ o.step = "logUpdated" \/ (o.step = "reread" /\ o.kind # "create") =>
       /\ StatusTold(d.log, o.id, o.seen.status)
       /\ AssigneeTold(d.log, o.id, o.seen.assignee)
       /\ task.status = new.status /\ task.assignee = new.assignee
  /\ o.step = "logCreated" \/ (o.step = "reread" /\ o.kind = "create") =>
       NoRows(d.log, o.id)
  /\ o.step \in {"logCreated", "logUpdated"} => task.status = o.row.status
  /\ o.step \in {"logCreated", "logUpdated", "logAssigned"} => task.assignee = o.row.assignee
  /\ o.step = "logAssigned" => StatusTold(d.log, o.id, task.status)
  /\ o.step \in LogSteps => Chain(d.log, o.id)

\* An item that is to be written was found as the task still is.
ItemSeen(o, v) ==
  o.step = "writeItem" /\ o.found =>
    o.seen.status = v.tasks[o.id].status /\ o.seen.assignee = v.tasks[o.id].assignee

AuditInv ==
  /\ Known(db.log, DOMAIN db.tasks)
  /\ \A i \in DOMAIN db.tasks \ spoilt : (\A q \in Callers : ~Amid(op[q], i)) => Sound(db, i)
  /\ \A p \in Callers : lock = p => SoundBoard(draft, spoilt)
  /\ \A p \in Callers : op[p].id \notin spoilt =>
       /\ op[p].step \in TaskSteps => Owed(op[p], db)
       /\ ItemSeen(op[p], View(p))

LEMMA AuditOf ==
  ASSUME NEW d, NEW e, NEW i, d.tasks[i].status = e.tasks[i].status,
         d.tasks[i].assignee = e.tasks[i].assignee, SameStory(d.log, e.log, i)
  PROVE  /\ Sound(d, i) => Sound(e, i)
         /\ \A o : o.id = i /\ Owed(o, d) => Owed(o, e)
BY DEF SameStory, Sound, Owed

LEMMA SameLog ==
  ASSUME NEW log, NEW i
  PROVE  SameStory(log, log, i)
BY DEF SameStory

LEMMA LaterStory ==
  ASSUME NEW l, NEW m, NEW n, NEW i, SameStory(l, m, i), SameStory(m, n, i)
  PROVE  SameStory(l, n, i)
BY DEF SameStory

\* The steps of p leave the transactions of the others.
OthersHold(p) ==
  /\ \A q \in Callers \ {p} : op'[q] = op[q]
  /\ spoilt \subseteq spoilt'
  /\ \A q \in Callers \ {p} : (lock' = q <=> lock = q) /\ (lock = q => draft' = draft)

\* What p's step owes the invariant for the operation it leaves.
OwnAudit(p) ==
  /\ lock' = p => SoundBoard(draft', spoilt')
  /\ op'[p].id \notin spoilt' =>
       /\ op'[p].step \in TaskSteps => Owed(op'[p], db')
       /\ ItemSeen(op'[p], IF lock' = p THEN draft' ELSE db')

LEMMA DraftsHold ==
  ASSUME AuditInv, NEW p \in Callers, OthersHold(p), OwnAudit(p)
  PROVE  \A q \in Callers : lock' = q => SoundBoard(draft', spoilt')
<1>1. ASSUME NEW q \in Callers \ {p}, lock' = q
      PROVE  SoundBoard(draft', spoilt')
  <2>1. lock = q /\ draft' = draft
    BY <1>1 DEF OthersHold
  <2>2. SoundBoard(draft, spoilt)
    BY <2>1 DEF AuditInv
  <2>3. QED BY <2>1, <2>2 DEF SoundBoard, OthersHold
<1>2. QED BY <1>1 DEF OwnAudit

\* Steps that write no task and tell nothing new.
LEMMA AsideKeepsAudit ==
  ASSUME IInv, AuditInv, NEW p \in Callers, OthersHold(p), OwnAudit(p),
         db'.tasks = db.tasks, \A j : SameStory(db.log, db'.log, j),
         Known(db'.log, DOMAIN db.tasks),
         \A j : Amid(op[p], j) => j \in spoilt'
  PROVE  AuditInv'
<1>1. Known(db.log, DOMAIN db.tasks)'
  BY DEF Known, ToldRows, StatusRows, AssigneeRows
<1>2. ASSUME NEW i \in DOMAIN db'.tasks \ spoilt', \A q \in Callers : ~Amid(op'[q], i)
      PROVE  Sound(db', i)
  <2>1. \A q \in Callers : ~Amid(op[q], i)
    BY <1>2 DEF OthersHold
  <2>2. Sound(db, i)
    BY <1>2, <2>1 DEF AuditInv, OthersHold
  <2>3. QED BY <2>2, AuditOf
<1>3. ASSUME NEW q \in Callers, op'[q].id \notin spoilt'
      PROVE  /\ op'[q].step \in TaskSteps => Owed(op'[q], db')
             /\ ItemSeen(op'[q], IF lock' = q THEN draft' ELSE db')
  <2>1. CASE q = p
    BY <1>3, <2>1 DEF OwnAudit
  <2>2. CASE q # p
    <3>1. op'[q] = op[q] /\ op[q].id \notin spoilt
      BY <1>3, <2>2 DEF OthersHold
    <3>2. /\ op[q].step \in TaskSteps => Owed(op[q], db)
          /\ ItemSeen(op[q], View(q))
      BY <3>1 DEF AuditInv
    <3>3. Owed(op[q], db) => Owed(op[q], db')
      BY AuditOf
    <3>4. View(q).tasks = (IF lock' = q THEN draft' ELSE db').tasks
      BY <2>2 DEF View, OthersHold
    <3>5. ItemSeen(op[q], IF lock' = q THEN draft' ELSE db')
      BY <3>2, <3>4 DEF ItemSeen
    <3>6. QED BY <3>1, <3>2, <3>3, <3>5
  <2>3. QED BY <2>1, <2>2
<1>4. \A q \in Callers : lock' = q => SoundBoard(draft', spoilt')
  BY DraftsHold
<1>5. \A i \in DOMAIN db'.tasks \ spoilt' :
        (\A q \in Callers : ~Amid(op[q], i)') => Sound(db, i)'
  BY <1>2 DEF Amid, LogSteps, Sound
<1>6. \A q \in Callers : (lock = q => SoundBoard(draft, spoilt))'
  BY <1>4 DEF SoundBoard
<1>7. \A q \in Callers : op'[q].id \notin spoilt' =>
        /\ op'[q].step \in TaskSteps => Owed(op[q], db)'
        /\ ItemSeen(op[q], View(q))'
  BY <1>3 DEF ItemSeen, View, Owed, LogSteps
<1>8. QED BY <1>1, <1>5, <1>6, <1>7 DEF AuditInv

-----------------------------------------------------------------------------
(* Steps of an operation on its own task *)

\* The others that touch the task have spoilt it.
LEMMA Alone ==
  ASSUME OverlapInv, NEW p \in Callers, op[p].step \in TaskSteps
  PROVE  \A q \in Callers \ {p} : op[p].id \in Touched(op[q]) => op[p].id \in spoilt
<1>1. KindOK(op[p])
  BY DEF OverlapInv
<1>2. Touched(op[p]) = {op[p].id}
  BY <1>1, TouchedOf DEF TaskSteps, InBatch
<1>3. QED BY <1>2 DEF OverlapInv

\* p has written the task i, or rows about it.
WroteOn(p, i) ==
  /\ lock = "free" \/ db' = db
  /\ UNCHANGED <<lock, draft>>
  /\ DOMAIN db.tasks \subseteq DOMAIN db'.tasks /\ DOMAIN db'.tasks \subseteq DOMAIN db.tasks \cup {i}
  /\ \A j \in DOMAIN db.tasks \ {i} : db'.tasks[j].status = db.tasks[j].status
                                     /\ db'.tasks[j].assignee = db.tasks[j].assignee
  /\ \A j : j # i => SameStory(db.log, db'.log, j)
  /\ Known(db'.log, DOMAIN db'.tasks)
  /\ i \in Ids /\ \A q \in Callers \ {p} : i \in Touched(op[q]) => i \in spoilt'

LEMMA OthersOwe ==
  ASSUME IInv, OverlapInv, AuditInv, NEW p \in Callers, OthersHold(p), NEW i, WroteOn(p, i),
         NEW q \in Callers \ {p}, op[q].id \notin spoilt'
  PROVE  /\ op[q].step \in TaskSteps => Owed(op[q], db')
         /\ ItemSeen(op[q], IF lock' = q THEN draft' ELSE db')
<1>1. KindOK(op[q]) /\ TaskOp(op[q], View(q))
  BY DEF OverlapInv, IInv
<1>2. /\ op[q].step \in TaskSteps => Owed(op[q], db)
      /\ ItemSeen(op[q], View(q))
  BY DEF AuditInv, OthersHold
<1>3. lock' = lock /\ draft' = draft
  BY DEF WroteOn
<1>4. ASSUME op[q].step \in TaskSteps
      PROVE  Owed(op[q], db')
  <2>1. op[q].id \in Touched(op[q])
    BY <1>1, <1>4, TouchedOf DEF InBatch, TaskSteps
  <2>2. op[q].id # i /\ op[q].id \in DOMAIN db.tasks
    BY <1>4, <2>1, RowIsTask DEF WroteOn
  <2>3. /\ db'.tasks[op[q].id].status = db.tasks[op[q].id].status
        /\ db'.tasks[op[q].id].assignee = db.tasks[op[q].id].assignee
        /\ SameStory(db.log, db'.log, op[q].id)
    BY <2>2 DEF WroteOn
  <2>4. QED BY <1>2, <1>4, <2>3, AuditOf
<1>5. ItemSeen(op[q], IF lock' = q THEN draft' ELSE db')
  <2>1. CASE lock = q \/ db' = db
    BY <1>2, <1>3, <2>1 DEF View, ItemSeen
  <2>2. CASE lock # q /\ lock = "free"
    <3>1. SUFFICES ASSUME op[q].step = "writeItem", op[q].found
                   PROVE  /\ op[q].seen.status = db'.tasks[op[q].id].status
                          /\ op[q].seen.assignee = db'.tasks[op[q].id].assignee
      BY <1>3, <2>2 DEF ItemSeen
    <3>2. i \in Touched(op[q])
      BY <1>1, <3>1, TouchedOf DEF InBatch, WroteOn
    <3>3. op[q].id # i
      BY <3>2 DEF WroteOn
    <3>4. View(q) = db /\ op[q].id \in DOMAIN db.tasks
      BY <1>1, <2>2, <3>1 DEF View, TaskOp
    <3>5. QED BY <1>2, <3>1, <3>3, <3>4 DEF ItemSeen, WroteOn
  <2>3. QED BY <2>1, <2>2 DEF WroteOn
<1>6. QED BY <1>4, <1>5

LEMMA StepKeepsAudit ==
  ASSUME IInv, OverlapInv, AuditInv, NEW p \in Callers, OthersHold(p), OwnAudit(p), NEW i,
         WroteOn(p, i), \A j : Amid(op[p], j) => j = i \/ j \in spoilt',
         i \in DOMAIN db'.tasks \ spoilt' /\ ~Amid(op'[p], i) => Sound(db', i)
  PROVE  AuditInv'
<1>1. ASSUME NEW j \in DOMAIN db'.tasks \ spoilt', \A q \in Callers : ~Amid(op'[q], j)
      PROVE  Sound(db', j)
  <2>1. CASE j = i
    BY <1>1, <2>1
  <2>2. CASE j # i
    <3>1. j \in DOMAIN db.tasks \ spoilt /\ \A q \in Callers : ~Amid(op[q], j)
      BY <1>1, <2>2 DEF WroteOn, OthersHold
    <3>2. Sound(db, j)
      BY <3>1 DEF AuditInv
    <3>3. /\ db'.tasks[j].status = db.tasks[j].status
          /\ db'.tasks[j].assignee = db.tasks[j].assignee
          /\ SameStory(db.log, db'.log, j)
      BY <2>2, <3>1 DEF WroteOn
    <3>4. QED BY <3>2, <3>3, AuditOf
  <2>3. QED BY <2>1, <2>2
<1>2. ASSUME NEW q \in Callers, op'[q].id \notin spoilt'
      PROVE  /\ op'[q].step \in TaskSteps => Owed(op'[q], db')
             /\ ItemSeen(op'[q], IF lock' = q THEN draft' ELSE db')
  <2>1. CASE q = p
    BY <1>2, <2>1 DEF OwnAudit
  <2>2. CASE q # p
    <3>1. op'[q] = op[q]
      BY <2>2 DEF OthersHold
    <3>2. QED BY <1>2, <2>2, <3>1, OthersOwe
  <2>3. QED BY <2>1, <2>2
<1>3. \A q \in Callers : lock' = q => SoundBoard(draft', spoilt')
  BY DraftsHold
<1>4. Known(db.log, DOMAIN db.tasks)'
  <2>1. Known(db'.log, DOMAIN db'.tasks)
    BY DEF WroteOn
  <2>2. QED BY <2>1 DEF Known, ToldRows, StatusRows, AssigneeRows
<1>5. \A j \in DOMAIN db'.tasks \ spoilt' :
        (\A q \in Callers : ~Amid(op[q], j)') => Sound(db, j)'
  BY <1>1 DEF Amid, LogSteps, Sound
<1>6. \A q \in Callers : (lock = q => SoundBoard(draft, spoilt))'
  BY <1>3 DEF SoundBoard
<1>7. \A q \in Callers : op'[q].id \notin spoilt' =>
        /\ op'[q].step \in TaskSteps => Owed(op[q], db)'
        /\ ItemSeen(op[q], View(q))'
  BY <1>2 DEF ItemSeen, View, Owed, LogSteps
<1>8. QED BY <1>4, <1>5, <1>6, <1>7 DEF AuditInv

LEMMA KnownStill ==
  ASSUME NEW log, NEW longer, NEW e, AndRow(log, longer, e), NEW ids, NEW more,
         Known(log, ids), ids \subseteq more, e.action \in ToldRows => e.id \in more
  PROVE  Known(longer, more)
<1>1. PICK n \in Nat :
        /\ DOMAIN log = 1..n /\ DOMAIN longer = 1..(n + 1)
        /\ \A k \in 1..n : longer[k] = log[k]
        /\ longer[n + 1] = e
  BY DEF AndRow
<1>2. ASSUME NEW k \in DOMAIN longer, longer[k].action \in ToldRows
      PROVE  longer[k].id \in more
  <2>1. CASE k \in 1..n
    BY <1>1, <1>2, <2>1 DEF Known
  <2>2. CASE k = n + 1
    BY <1>1, <1>2, <2>2
  <2>3. QED BY <1>1, <2>1, <2>2
<1>3. QED BY <1>2 DEF Known

\* A step of an operation that has its task.
LEMMA TaskStepKeepsAudit ==
  ASSUME IInv, OverlapInv, AuditInv, NEW p \in Callers, op[p].step \in TaskSteps,
         Onward(op[p], op'[p]), \A q \in Callers \ {p} : op'[q] = op[q], spoilt' = spoilt,
         lock = "free" \/ db' = db, UNCHANGED <<lock, draft>>,
         DOMAIN db'.tasks = DOMAIN db.tasks,
         \A j \in DOMAIN db.tasks \ {op[p].id} : db'.tasks[j] = db.tasks[j],
         \A j : j # op[p].id => SameStory(db.log, db'.log, j),
         Known(db'.log, DOMAIN db.tasks),
         op[p].id \notin spoilt =>
           /\ op'[p].step \in TaskSteps => Owed(op'[p], db')
           /\ ~Amid(op'[p], op[p].id) => Sound(db', op[p].id)
  PROVE  AuditInv'
<1>1. PICK i : i = op[p].id
  OBVIOUS
<1>2. i \in DOMAIN db.tasks /\ ~InBatch(op[p]) /\ DOMAIN db.tasks \subseteq Ids
  BY <1>1, RowIsTask DEF IInv, Good, TasksOK
<1>3. lock # p
  BY <1>2 DEF IInv, Transaction
<1>4. op'[p].step \notin {"writeItem"} /\ (op'[p].step \in TaskSteps => op'[p].id = i)
  BY <1>1, <1>2, Idle DEF Onward, CommentSteps, TaskSteps
<1>5. OwnAudit(p)
  <2>1. lock' # p
    BY <1>3
  <2>2. ItemSeen(op'[p], IF lock' = p THEN draft' ELSE db')
    BY <1>4 DEF ItemSeen
  <2>3. QED BY <1>1, <1>4, <2>1, <2>2 DEF OwnAudit
<1>6. OthersHold(p)
  BY DEF OthersHold
<1>7. WroteOn(p, i)
  BY <1>1, <1>2, Alone DEF WroteOn
<1>8. \A j : Amid(op[p], j) => j = i
  BY <1>1 DEF Amid
<1>9. QED BY <1>1, <1>5, <1>6, <1>7, <1>8, StepKeepsAudit

\* A row committed by itself.
LEMMA RowCommitted ==
  ASSUME IInv, NEW e, Commits(WithLog(db, <<e>>))
  PROVE  /\ AndRow(db.log, db'.log, e) /\ db'.tasks = db.tasks
         /\ lock = "free" /\ UNCHANGED <<lock, draft>>
<1>1. DOMAIN db = Fields /\ IsSeq(db.log)
  BY DEF IInv, Good, LogOK
<1>2. db'.log = db.log \o <<e>> /\ db'.tasks = db.tasks
  BY <1>1, RowsKeep DEF Commits
<1>3. QED BY <1>1, <1>2, RowAdded DEF Commits

\* Such a row about p's task.
LEMMA RowKeepsAudit ==
  ASSUME IInv, OverlapInv, AuditInv, NEW p \in Callers, op[p].step \in TaskSteps,
         Onward(op[p], op'[p]), \A q \in Callers \ {p} : op'[q] = op[q], spoilt' = spoilt,
         NEW e, e.id = op[p].id, Commits(WithLog(db, <<e>>)),
         op[p].id \notin spoilt =>
           /\ op'[p].step \in TaskSteps => Owed(op'[p], db')
           /\ ~Amid(op'[p], op[p].id) => Sound(db', op[p].id)
  PROVE  AuditInv'
<1>1. /\ AndRow(db.log, db'.log, e) /\ db'.tasks = db.tasks
      /\ lock = "free" /\ UNCHANGED <<lock, draft>>
  BY RowCommitted
<1>2. op[p].id \in DOMAIN db.tasks
  BY RowIsTask
<1>3. \A j : j # op[p].id => SameStory(db.log, db'.log, j)
  BY <1>1, OtherRow DEF RowOf
<1>4. Known(db'.log, DOMAIN db.tasks)
  BY <1>1, <1>2, KnownStill DEF AuditInv
<1>5. QED BY <1>1, <1>3, <1>4, TaskStepKeepsAudit

-----------------------------------------------------------------------------
(* The steps of operations on one task *)

LEMMA EntryIs ==
  ASSUME NEW action, NEW id, NEW task, NEW from, NEW batch
  PROVE  LET e == Entry(action, id, task, from, batch) IN
         /\ e.action = action /\ e.id = id /\ e.status = task.status /\ e.from = from
         /\ e.assignee = task.assignee
BY DEF Entry

\* Before p has written its task, the log tells all of it.
LEMMA SoundAlone ==
  ASSUME IInv, OverlapInv, AuditInv, NEW p \in Callers, op[p].step \in TaskSteps \ LogSteps,
         op[p].id \notin spoilt
  PROVE  Sound(db, op[p].id)
<1>1. ASSUME NEW q \in Callers, Amid(op[q], op[p].id)
      PROVE  FALSE
  <2>1. q # p /\ op[q].step \in TaskSteps
    BY <1>1 DEF Amid, LogSteps, TaskSteps
  <2>2. KindOK(op[q])
    BY DEF OverlapInv
  <2>3. op[p].id \in Touched(op[q])
    BY <1>1, <2>1, <2>2, TouchedOf DEF Amid, InBatch, TaskSteps
  <2>4. QED BY <2>1, <2>3, Alone
<1>2. op[p].id \in DOMAIN db.tasks
  BY RowIsTask
<1>3. QED BY <1>1, <1>2 DEF AuditInv

LEMMA OwedNow ==
  ASSUME AuditInv, NEW p \in Callers, op[p].step \in TaskSteps, op[p].id \notin spoilt
  PROVE  Owed(op[p], db)
BY DEF AuditInv

LEMMA RereadKeepsAudit ==
  ASSUME IInv, OverlapInv, AuditInv, NEW p \in Callers, Reread(p)
  PROVE  AuditInv'
<1>1. op[p].step = "reread" /\ spoilt' = spoilt /\ Reads
  BY DEF Reread, At, Clock
<1>2. PICK t, i, step : /\ t = Row(p) /\ i = op[p].id
                        /\ step = IF op[p].kind = "create" THEN "logCreated" ELSE "logUpdated"
  OBVIOUS
<1>3. t = db.tasks[i]
  BY <1>1, <1>2, RowIsTask DEF TaskSteps
<1>4. Onward(op[p], op'[p]) /\ \A q \in Callers \ {p} : op'[q] = op[q]
  BY ContinuesOnward DEF Continues
<1>5. Moved(p, {"row", "step"}) /\ op'[p].step = step /\ op'[p].row = t
  <2>1. op' = [op EXCEPT ![p].row = t, ![p].step = step]
    BY <1>2 DEF Reread
  <2>2. QED BY <2>1, RowMoves
<1>6. op'[p].id = i /\ op'[p].seen = op[p].seen /\ op'[p].asked = op[p].asked
  BY <1>2, <1>5 DEF Moved, OpFields
<1>7. ASSUME i \notin spoilt
      PROVE  Owed(op'[p], db')
  <2>1. Owed(op[p], db)
    BY <1>1, <1>2, <1>7, OwedNow DEF TaskSteps
  <2>2. db' = db
    BY <1>1 DEF Reads
  <2>3. CASE op[p].kind = "create"
    BY <1>1, <1>2, <1>3, <1>5, <1>6, <2>1, <2>2, <2>3 DEF Owed, LogSteps
  <2>4. CASE op[p].kind # "create"
    BY <1>1, <1>2, <1>3, <1>5, <1>6, <2>1, <2>2, <2>4 DEF Owed, LogSteps
  <2>5. QED BY <2>3, <2>4
<1>8. Amid(op'[p], i)
  BY <1>2, <1>5, <1>6 DEF Amid, LogSteps
<1>9. (\A j : SameStory(db.log, db'.log, j)) /\ Known(db'.log, DOMAIN db.tasks)
  BY <1>1, SameLog DEF Reads, AuditInv
<1>10. QED
  BY <1>1, <1>2, <1>4, <1>7, <1>8, <1>9, TaskStepKeepsAudit DEF TaskSteps, Reads

LEMMA LogCreatedKeepsAudit ==
  ASSUME IInv, OverlapInv, AuditInv, NEW p \in Callers, LogCreated(p)
  PROVE  AuditInv'
<1>1. op[p].step = "logCreated" /\ Goto(p, "logAssigned") /\ spoilt' = spoilt
  BY DEF LogCreated, At, Clock
<1>2. PICK e, i : e = Entry("created", op[p].id, op[p].row, op[p].row.status, 0)
                  /\ i = op[p].id
  OBVIOUS
<1>3. e.action = "created" /\ e.id = i /\ e.status = op[p].row.status
  BY <1>2, EntryIs
<1>4. Commits(WithLog(db, <<e>>))
  BY <1>2 DEF LogCreated
<1>5. AndRow(db.log, db'.log, e) /\ db'.tasks = db.tasks
  BY <1>4, RowCommitted
<1>6. Onward(op[p], op'[p]) /\ \A q \in Callers \ {p} : op'[q] = op[q]
  BY ContinuesOnward DEF Continues
<1>7. op'[p].step = "logAssigned" /\ op'[p].id = i /\ op'[p].row = op[p].row
  BY <1>1, <1>2, GotoMoves DEF Moved, OpFields
<1>8. ASSUME i \notin spoilt
      PROVE  Owed(op'[p], db')
  <2>1. /\ db.tasks[i].status = op[p].row.status /\ db.tasks[i].assignee = op[p].row.assignee
        /\ Chain(db.log, i)
    BY <1>1, <1>2, <1>8, OwedNow DEF Owed, TaskSteps, LogSteps
  <2>2. StatusTold(db'.log, i, op[p].row.status) /\ Chain(db'.log, i)
    BY <1>3, <1>5, <2>1, RowTellsStatus DEF RowOf, StatusRows
  <2>3. QED BY <1>5, <1>7, <2>1, <2>2 DEF Owed
<1>9. Amid(op'[p], i)
  BY <1>7 DEF Amid, LogSteps
<1>10. QED BY <1>1, <1>2, <1>3, <1>4, <1>6, <1>8, <1>9, RowKeepsAudit DEF TaskSteps

LEMMA LogAssignedKeepsAudit ==
  ASSUME IInv, OverlapInv, AuditInv, NEW p \in Callers, LogAssigned(p)
  PROVE  AuditInv'
<1>1. op[p].step = "logAssigned" /\ (Goto(p, "check") \/ Finish(p)) /\ spoilt' = spoilt
  BY DEF LogAssigned, At, Clock
<1>2. PICK e, i : e = Entry("assigned", op[p].id, op[p].row, op[p].row.status, 0)
                  /\ i = op[p].id
  OBVIOUS
<1>3. e.action = "assigned" /\ e.id = i /\ e.assignee = op[p].row.assignee
  BY <1>2, EntryIs
<1>4. Commits(WithLog(db, <<e>>))
  BY <1>2 DEF LogAssigned
<1>5. AndRow(db.log, db'.log, e) /\ db'.tasks = db.tasks
  BY <1>4, RowCommitted
<1>6. Onward(op[p], op'[p]) /\ \A q \in Callers \ {p} : op'[q] = op[q]
  BY ContinuesOnward DEF Continues
<1>7. op'[p].step \in {"check", "idle"}
  BY <1>1, GotoMoves, FinishMoves, Idle
<1>8. ASSUME i \notin spoilt
      PROVE  Sound(db', i)
  <2>1. /\ StatusTold(db.log, i, db.tasks[i].status) /\ Chain(db.log, i)
        /\ db.tasks[i].assignee = op[p].row.assignee
    BY <1>1, <1>2, <1>8, OwedNow DEF Owed, TaskSteps, LogSteps
  <2>2. /\ AssigneeTold(db'.log, i, op[p].row.assignee) /\ Chain(db'.log, i)
        /\ StatusTold(db'.log, i, db.tasks[i].status)
    BY <1>3, <1>5, <2>1, RowTellsAssignee DEF RowOf, AssigneeRows
  <2>3. QED BY <1>5, <2>1, <2>2 DEF Sound
<1>9. Owed(op'[p], db')
  BY <1>7 DEF Owed, LogSteps
<1>10. QED BY <1>1, <1>2, <1>3, <1>4, <1>6, <1>8, <1>9, RowKeepsAudit DEF TaskSteps

LEMMA LogStatusKeepsAudit ==
  ASSUME IInv, OverlapInv, AuditInv, NEW p \in Callers, LogStatus(p)
  PROVE  AuditInv'
<1>1. op[p].step = "logStatus" /\ Finish(p) /\ spoilt' = spoilt
  BY DEF LogStatus, At, Clock
<1>2. PICK t, e, i : /\ t = [op[p].seen EXCEPT !.status = op[p].asked.status]
                     /\ e = Entry("status", op[p].id, t, op[p].seen.status, 0)
                     /\ i = op[p].id
  OBVIOUS
<1>3. t.status = op[p].asked.status
  BY <1>2 DEF IInv, TaskOp, IsTask
<1>4. e.action = "status" /\ e.id = i /\ e.status = op[p].asked.status /\ e.from = op[p].seen.status
  <2>1. PICK from : from = op[p].seen.status
    OBVIOUS
  <2>2. e = Entry("status", i, t, from, 0)
    BY <1>2, <2>1
  <2>3. e.action = "status" /\ e.id = i /\ e.status = t.status /\ e.from = from
    BY <2>2, EntryIs
  <2>4. QED BY <1>3, <2>1, <2>3
<1>5. Commits(WithLog(db, <<e>>))
  BY <1>2 DEF LogStatus
<1>6. AndRow(db.log, db'.log, e) /\ db'.tasks = db.tasks
  BY <1>5, RowCommitted
<1>7. Onward(op[p], op'[p]) /\ \A q \in Callers \ {p} : op'[q] = op[q]
  BY ContinuesOnward DEF Continues
<1>8. op'[p].step = "idle"
  BY <1>1, FinishMoves, Idle
<1>9. ASSUME i \notin spoilt
      PROVE  Sound(db', i)
  <2>1. /\ StatusTold(db.log, i, e.from) /\ AssigneeTold(db.log, i, db.tasks[i].assignee)
        /\ db.tasks[i].status = e.status /\ Allowed(e.from, e.status) /\ Chain(db.log, i)
    BY <1>1, <1>2, <1>4, <1>9, OwedNow DEF Owed, TaskSteps, LogSteps
  <2>2. /\ StatusTold(db'.log, i, e.status) /\ Chain(db'.log, i)
        /\ AssigneeTold(db'.log, i, db.tasks[i].assignee)
    BY <1>4, <1>6, <2>1, RowTellsStatus DEF RowOf, StatusRows
  <2>3. QED BY <1>6, <2>1, <2>2 DEF Sound
<1>10. Owed(op'[p], db')
  BY <1>8 DEF Owed, LogSteps
<1>11. QED BY <1>1, <1>2, <1>4, <1>5, <1>7, <1>9, <1>10, RowKeepsAudit DEF TaskSteps

LEMMA MergedOf ==
  ASSUME NEW seen, NEW asked, IsTask(seen)
  PROVE  LET new == Merged(seen, asked) IN
         /\ IsTask(new)
         /\ new = seen => new.status = seen.status /\ new.assignee = seen.assignee
BY DEF Merged, IsTask

LEMMA LogUpdatedKeepsAudit ==
  ASSUME IInv, OverlapInv, AuditInv, NEW p \in Callers, LogUpdated(p)
  PROVE  AuditInv'
<1>1. op[p].step = "logUpdated" /\ spoilt' = spoilt
  BY DEF LogUpdated, At, Clock
<1>2. PICK t, new, e, i :
        /\ t = op[p].row /\ new = Merged(op[p].seen, op[p].asked) /\ i = op[p].id
        /\ e = Entry("updated", i, t, t.status, 0)
  OBVIOUS
<1>3. e.action = "updated" /\ e.id = i /\ e.status = t.status
  BY <1>2, EntryIs
<1>4. i \in DOMAIN db.tasks
  BY <1>1, <1>2, RowIsTask DEF TaskSteps
<1>5. IF new # op[p].seen THEN Commits(WithLog(db, <<e>>)) ELSE Reads
  BY <1>2 DEF LogUpdated
<1>6. Onward(op[p], op'[p]) /\ \A q \in Callers \ {p} : op'[q] = op[q]
  BY ContinuesOnward DEF Continues
<1>7. IF t.assignee # op[p].seen.assignee
        THEN op'[p].step = "logAssigned" /\ op'[p].row = t /\ op'[p].id = i
        ELSE op'[p].step = "idle"
  <2>1. CASE t.assignee # op[p].seen.assignee
    <3>1. Goto(p, "logAssigned")
      BY <1>2, <2>1 DEF LogUpdated
    <3>2. Moved(p, {"step"}) /\ op'[p].step = "logAssigned"
      BY <3>1, GotoMoves
    <3>3. op'[p].row = t /\ op'[p].id = i
      BY <1>2, <3>2 DEF Moved, OpFields
    <3>4. QED BY <2>1, <3>2, <3>3
  <2>2. CASE t.assignee = op[p].seen.assignee
    <3>1. Finish(p)
      BY <1>2, <2>2 DEF LogUpdated
    <3>2. QED BY <2>2, <3>1, FinishMoves, Idle
  <2>3. QED BY <2>1, <2>2
<1>8. ASSUME i \notin spoilt
      PROVE  /\ StatusTold(db'.log, i, t.status) /\ Chain(db'.log, i)
             /\ t.assignee = op[p].seen.assignee => AssigneeTold(db'.log, i, t.assignee)
             /\ db'.tasks = db.tasks
             /\ t.status = db.tasks[i].status /\ t.assignee = db.tasks[i].assignee
  <2>1. /\ StatusTold(db.log, i, op[p].seen.status)
        /\ AssigneeTold(db.log, i, op[p].seen.assignee)
        /\ t.status = new.status /\ t.assignee = new.assignee /\ Chain(db.log, i)
        /\ t.status = db.tasks[i].status /\ t.assignee = db.tasks[i].assignee
    <3>1. Owed(op[p], db)
      BY <1>1, <1>2, <1>8, OwedNow DEF TaskSteps
    <3>2. QED BY <1>1, <1>2, <3>1 DEF Owed, LogSteps
  <2>2. CASE new = op[p].seen
    BY <1>5, <2>1, <2>2 DEF Reads
  <2>3. CASE new # op[p].seen
    <3>1. AndRow(db.log, db'.log, e) /\ db'.tasks = db.tasks
      BY <1>5, <2>3, RowCommitted
    <3>2. /\ StatusTold(db'.log, i, t.status) /\ Chain(db'.log, i)
          /\ AssigneeTold(db'.log, i, op[p].seen.assignee)
      BY <1>3, <2>1, <3>1, RowTellsStatus DEF RowOf, StatusRows
    <3>3. QED BY <2>1, <3>1, <3>2
  <2>4. QED BY <2>2, <2>3
<1>9. ASSUME i \notin spoilt
      PROVE  /\ op'[p].step \in TaskSteps => Owed(op'[p], db')
             /\ ~Amid(op'[p], i) => Sound(db', i)
  <2>1. CASE t.assignee # op[p].seen.assignee
    <3>1. Amid(op'[p], i)
      BY <1>7, <2>1 DEF Amid, LogSteps
    <3>2. Owed(op'[p], db')
      BY <1>4, <1>7, <1>8, <1>9, <2>1 DEF Owed
    <3>3. QED BY <3>1, <3>2
  <2>2. CASE t.assignee = op[p].seen.assignee
    <3>1. op'[p].step \notin TaskSteps
      BY <1>7, <2>2 DEF TaskSteps
    <3>2. Sound(db', i)
      BY <1>4, <1>8, <1>9, <2>2 DEF Sound
    <3>3. QED BY <3>1, <3>2
  <2>3. QED BY <2>1, <2>2
<1>10. CASE new # op[p].seen
  BY <1>1, <1>2, <1>3, <1>5, <1>6, <1>9, <1>10, RowKeepsAudit DEF TaskSteps
<1>11. CASE new = op[p].seen
  <2>1. db' = db /\ UNCHANGED <<lock, draft>>
    BY <1>5, <1>11 DEF Reads
  <2>2. \A j : SameStory(db.log, db'.log, j)
    BY <2>1, SameLog
  <2>3. Known(db'.log, DOMAIN db.tasks)
    BY <2>1 DEF AuditInv
  <2>4. QED BY <1>1, <1>2, <1>6, <1>9, <2>1, <2>2, <2>3, TaskStepKeepsAudit DEF TaskSteps
<1>12. QED BY <1>10, <1>11

\* A step that writes no task and tells nothing of any.
LEMMA UntoldKeepsAudit ==
  ASSUME IInv, OverlapInv, AuditInv, NEW p \in Callers, op[p].step \in TaskSteps \ LogSteps,
         Onward(op[p], op'[p]), \A q \in Callers \ {p} : op'[q] = op[q], spoilt' = spoilt,
         lock = "free" \/ db' = db, UNCHANGED <<lock, draft>>, db'.tasks = db.tasks,
         \/ db'.log = db.log
         \/ \E e : AndRow(db.log, db'.log, e) /\ e.action \notin ToldRows,
         op'[p].step \in TaskSteps => Owed(op'[p], db')
  PROVE  AuditInv'
<1>1. \A j : SameStory(db.log, db'.log, j)
  BY SameLog, OtherRow DEF RowOf
<1>2. Known(db'.log, DOMAIN db.tasks)
  BY KnownStill DEF AuditInv
<1>3. op[p].id \notin spoilt => Sound(db', op[p].id)
  BY <1>1, SoundAlone, AuditOf
<1>4. QED BY <1>1, <1>2, <1>3, TaskStepKeepsAudit

LEMMA ReadKeepsAudit ==
  ASSUME IInv, OverlapInv, AuditInv, NEW p \in Callers, Read(p)
  PROVE  AuditInv'
<1>1. op[p].step = "read" /\ spoilt' = spoilt /\ Reads
  BY DEF Read, At, Clock
<1>2. PICK t : t = Row(p)
  OBVIOUS
<1>3. t = db.tasks[op[p].id]
  BY <1>1, <1>2, RowIsTask DEF TaskSteps
<1>4. Onward(op[p], op'[p]) /\ \A q \in Callers \ {p} : op'[q] = op[q]
  BY ContinuesOnward DEF Continues
<1>5. op'[p].step \in TaskSteps => Owed(op'[p], db')
  <2>1. CASE Finish(p)
    <3>1. op'[p].step = "idle"
      BY <2>1, FinishMoves, Idle
    <3>2. QED BY <3>1 DEF TaskSteps
  <2>2. CASE ~Finish(p)
    <3>1. op' = [op EXCEPT ![p].seen = t, ![p].step = "write"]
      BY <1>2, <2>2 DEF Read
    <3>2. Moved(p, {"seen", "step"}) /\ op'[p].step = "write" /\ op'[p].seen = t
      BY <3>1, SeenMoves
    <3>3. op'[p].id = op[p].id /\ op'[p].kind = op[p].kind /\ op'[p].asked = op[p].asked
      BY <3>2 DEF Moved, OpFields
    <3>4. op[p].kind = "transition" => Allowed(t.status, op[p].asked.status)
      BY <1>2, <2>2 DEF Read
    <3>5. QED BY <1>1, <1>3, <3>2, <3>3, <3>4 DEF Owed, LogSteps, Reads
  <2>3. QED BY <2>1, <2>2
<1>6. QED BY <1>1, <1>4, <1>5, UntoldKeepsAudit DEF TaskSteps, LogSteps, Reads

LEMMA CheckKeepsAudit ==
  ASSUME IInv, OverlapInv, AuditInv, NEW p \in Callers, Check(p)
  PROVE  AuditInv'
<1>1. op[p].step = "check" /\ spoilt' = spoilt
  BY DEF Check, At, Clock
<1>2. PICK t, e : t = Row(p) /\ e = Entry("limited", op[p].id, t, t.status, 0)
  OBVIOUS
<1>3. Reads \/ Commits(WithLog(db, <<e>>))
  BY <1>2 DEF Check
<1>4. e.action \notin ToldRows
  BY <1>2, EntryIs DEF ToldRows, StatusRows, AssigneeRows
<1>5. Onward(op[p], op'[p]) /\ \A q \in Callers \ {p} : op'[q] = op[q]
  BY ContinuesOnward DEF Continues
<1>6. op'[p].step \in {"notify", "idle"}
  <2>1. CASE Finish(p)
    BY <2>1, FinishMoves, Idle
  <2>2. CASE op' = [op EXCEPT ![p].seen = t, ![p].at = now, ![p].step = "notify"]
    BY <2>2, NotifyMoves
  <2>3. QED BY <1>2, <2>1, <2>2 DEF Check
<1>7. Owed(op'[p], db')
  BY <1>6 DEF Owed, LogSteps
<1>8. CASE Reads
  BY <1>1, <1>5, <1>7, <1>8, UntoldKeepsAudit DEF TaskSteps, LogSteps, Reads
<1>9. CASE Commits(WithLog(db, <<e>>))
  <2>1. /\ AndRow(db.log, db'.log, e) /\ db'.tasks = db.tasks
        /\ lock = "free" /\ UNCHANGED <<lock, draft>>
    BY <1>9, RowCommitted
  <2>2. QED BY <1>1, <1>4, <1>5, <1>7, <2>1, UntoldKeepsAudit DEF TaskSteps, LogSteps
<1>10. QED BY <1>3, <1>8, <1>9

LEMMA NotifyKeepsAudit ==
  ASSUME IInv, OverlapInv, AuditInv, NEW p \in Callers, Notify(p)
  PROVE  AuditInv'
<1>1. op[p].step = "notify" /\ Finish(p) /\ spoilt' = spoilt
  BY DEF Notify, At, Clock
<1>2. PICK ns, e :
        /\ e = Entry("notified", op[p].id, op[p].seen, op[p].seen.status, 0)
        /\ ns = Append(db.notices,
                       [id |-> op[p].id, to |-> op[p].seen.email, at |-> op[p].at])
  OBVIOUS
<1>3. Commits(WithLog([db EXCEPT !.notices = ns], <<e>>))
  BY <1>2 DEF Notify
<1>4. e.action \notin ToldRows
  BY <1>2, EntryIs DEF ToldRows, StatusRows, AssigneeRows
<1>5. DOMAIN db = Fields /\ IsSeq(db.log)
  BY DEF IInv, Good, LogOK
<1>6. db'.tasks = db.tasks /\ db'.log = db.log \o <<e>>
  BY <1>3, <1>5 DEF Commits, WithLog, Fields
<1>7. AndRow(db.log, db'.log, e)
  BY <1>5, <1>6, RowAdded
<1>8. Onward(op[p], op'[p]) /\ \A q \in Callers \ {p} : op'[q] = op[q]
  BY ContinuesOnward DEF Continues
<1>9. op'[p].step = "idle"
  BY <1>1, FinishMoves, Idle
<1>10. lock = "free" /\ UNCHANGED <<lock, draft>>
  BY <1>3 DEF Commits
<1>11. QED
  BY <1>1, <1>4, <1>6, <1>7, <1>8, <1>9, <1>10, UntoldKeepsAudit DEF TaskSteps, LogSteps

\* A task set by itself.
LEMMA TaskCommitted ==
  ASSUME IInv, NEW i \in DOMAIN db.tasks, NEW t,
         Commits([db EXCEPT !.tasks = [db.tasks EXCEPT ![i] = t]])
  PROVE  /\ DOMAIN db'.tasks = DOMAIN db.tasks /\ db'.tasks[i] = t
         /\ \A j \in DOMAIN db.tasks \ {i} : db'.tasks[j] = db.tasks[j]
         /\ db'.log = db.log /\ lock = "free" /\ UNCHANGED <<lock, draft>>
<1> DEFINE ts == [db.tasks EXCEPT ![i] = t]
<1>1. DOMAIN db = Fields /\ IsSeq(db.tasks)
  BY DEF IInv, Good, TasksOK
<1>2. /\ DOMAIN ts = DOMAIN db.tasks
      /\ \A j \in DOMAIN db.tasks : ts[j] = IF j = i THEN t ELSE db.tasks[j]
  BY <1>1, SetElement
<1> HIDE DEF ts
<1>3. db'.tasks = ts /\ db'.log = db.log /\ lock = "free" /\ UNCHANGED <<lock, draft>>
  BY <1>1, TasksKeep DEF Commits, ts
<1>4. QED BY <1>2, <1>3

LEMMA WriteStatusKeepsAudit ==
  ASSUME IInv, OverlapInv, AuditInv, NEW p \in Callers, WriteStatus(p)
  PROVE  AuditInv'
<1>1. /\ op[p].step = "write" /\ op[p].kind = "transition" /\ spoilt' = spoilt
      /\ Goto(p, "logStatus")
  BY DEF WriteStatus, At, Clock
<1>2. PICK i, t : i = op[p].id /\ t = [db.tasks[i] EXCEPT !.status = op[p].asked.status]
  OBVIOUS
<1>3. i \in DOMAIN db.tasks /\ IsTask(db.tasks[i])
  BY <1>1, <1>2, RowIsTask DEF TaskSteps
<1>4. t.status = op[p].asked.status /\ t.assignee = db.tasks[i].assignee
  BY <1>2, <1>3 DEF IsTask
<1>5. Commits([db EXCEPT !.tasks = [db.tasks EXCEPT ![i] = t]])
  BY <1>2 DEF WriteStatus
<1>6. /\ DOMAIN db'.tasks = DOMAIN db.tasks /\ db'.tasks[i] = t
      /\ \A j \in DOMAIN db.tasks \ {i} : db'.tasks[j] = db.tasks[j]
      /\ db'.log = db.log /\ lock = "free" /\ UNCHANGED <<lock, draft>>
  BY <1>3, <1>5, TaskCommitted
<1>7. Onward(op[p], op'[p]) /\ \A q \in Callers \ {p} : op'[q] = op[q]
  BY ContinuesOnward DEF Continues
<1>8. Moved(p, {"step"}) /\ op'[p].step = "logStatus"
  BY <1>1, GotoMoves
<1>9. op'[p].id = i /\ op'[p].seen = op[p].seen /\ op'[p].asked = op[p].asked
  BY <1>2, <1>8 DEF Moved, OpFields
<1>10. ASSUME i \notin spoilt
       PROVE  Owed(op'[p], db')
  <2>1. Sound(db, i)
    BY <1>1, <1>2, <1>10, SoundAlone DEF TaskSteps, LogSteps
  <2>2. /\ op[p].seen.status = db.tasks[i].status
        /\ Allowed(op[p].seen.status, op[p].asked.status)
    BY <1>1, <1>2, <1>10, OwedNow DEF Owed, TaskSteps
  <2>3. QED BY <1>4, <1>6, <1>8, <1>9, <2>1, <2>2 DEF Sound, Owed, LogSteps
<1>11. Amid(op'[p], i)
  BY <1>8, <1>9 DEF Amid, LogSteps
<1>12. \A j : SameStory(db.log, db'.log, j)
  BY <1>6, SameLog
<1>13. Known(db'.log, DOMAIN db.tasks)
  BY <1>6 DEF AuditInv
<1>14. QED
  BY <1>1, <1>2, <1>6, <1>7, <1>10, <1>11, <1>12, <1>13, TaskStepKeepsAudit DEF TaskSteps

LEMMA WriteUpdateKeepsAudit ==
  ASSUME IInv, OverlapInv, AuditInv, NEW p \in Callers, WriteUpdate(p)
  PROVE  AuditInv'
<1>1. op[p].step = "write" /\ op[p].kind = "update" /\ spoilt' = spoilt
  BY DEF WriteUpdate, At, Clock
<1>2. Onward(op[p], op'[p]) /\ \A q \in Callers \ {p} : op'[q] = op[q]
  BY ContinuesOnward DEF Continues
<1>3. CASE Reads /\ Finish(p)
  <2>1. op'[p].step = "idle"
    BY <1>3, FinishMoves, Idle
  <2>2. QED
    BY <1>1, <1>2, <1>3, <2>1, UntoldKeepsAudit DEF TaskSteps, LogSteps, Reads
<1>4. CASE ~(Reads /\ Finish(p))
  <2>1. PICK i, new, t : /\ i = op[p].id /\ new = Merged(op[p].seen, op[p].asked)
                         /\ t = Updated(Row(p), new)
    OBVIOUS
  <2>2. i \in DOMAIN db.tasks
    BY <1>1, <2>1, RowIsTask DEF TaskSteps
  <2>3. t.status = new.status /\ t.assignee = new.assignee
    <3>1. IsTask(op[p].seen)
      BY DEF IInv, TaskOp
    <3>2. IsTask(new)
      BY <2>1, <3>1 DEF Merged, IsTask
    <3>3. QED BY <2>1, <3>2 DEF Updated, IsTask
  <2>4. /\ Commits([db EXCEPT !.tasks = [db.tasks EXCEPT ![i] = t]])
        /\ Goto(p, "reread")
    BY <1>4, <2>1 DEF WriteUpdate
  <2>5. /\ DOMAIN db'.tasks = DOMAIN db.tasks /\ db'.tasks[i] = t
        /\ \A j \in DOMAIN db.tasks \ {i} : db'.tasks[j] = db.tasks[j]
        /\ db'.log = db.log /\ lock = "free" /\ UNCHANGED <<lock, draft>>
    BY <2>2, <2>4, TaskCommitted
  <2>6. Moved(p, {"step"}) /\ op'[p].step = "reread"
    BY <2>4, GotoMoves
  <2>7. /\ op'[p].id = i /\ op'[p].seen = op[p].seen /\ op'[p].asked = op[p].asked
        /\ op'[p].kind = "update"
    BY <1>1, <2>1, <2>6 DEF Moved, OpFields
  <2>8. ASSUME i \notin spoilt
        PROVE  Owed(op'[p], db')
    <3>1. Sound(db, i)
      BY <1>1, <2>1, <2>8, SoundAlone DEF TaskSteps, LogSteps
    <3>2. /\ op[p].seen.status = db.tasks[i].status
          /\ op[p].seen.assignee = db.tasks[i].assignee
      BY <1>1, <2>1, <2>8, OwedNow DEF Owed, TaskSteps
    <3>3. new = Merged(op'[p].seen, op'[p].asked)
      BY <2>1, <2>7
    <3>4. QED BY <2>3, <2>5, <2>6, <2>7, <3>1, <3>2, <3>3 DEF Sound, Owed, LogSteps
  <2>9. Amid(op'[p], i)
    BY <2>6, <2>7 DEF Amid, LogSteps
  <2>10. (\A j : SameStory(db.log, db'.log, j)) /\ Known(db'.log, DOMAIN db.tasks)
    BY <2>5, SameLog DEF AuditInv
  <2>11. QED
    BY <1>1, <1>2, <2>1, <2>5, <2>8, <2>9, <2>10, TaskStepKeepsAudit DEF TaskSteps
<1>5. QED BY <1>3, <1>4

LEMMA WriteAssignKeepsAudit ==
  ASSUME IInv, OverlapInv, AuditInv, NEW p \in Callers, WriteAssign(p)
  PROVE  AuditInv'
<1>1. op[p].step = "write" /\ spoilt' = spoilt /\ Goto(p, "check")
  BY DEF WriteAssign, At, Clock
<1>2. PICK i, t, e :
        /\ i = op[p].id
        /\ t = [Row(p) EXCEPT !.assignee = op[p].asked.assignee, !.email = op[p].asked.email]
        /\ e = Entry("assigned", i, t, t.status, 0)
  OBVIOUS
<1>3. i \in DOMAIN db.tasks /\ Row(p) = db.tasks[i] /\ IsTask(db.tasks[i])
  BY <1>1, <1>2, RowIsTask DEF TaskSteps
<1>4. t.status = db.tasks[i].status
  BY <1>2, <1>3 DEF IsTask
<1>5. e.action = "assigned" /\ e.id = i /\ e.assignee = t.assignee
  <2>1. PICK s : s = t.status
    OBVIOUS
  <2>2. e = Entry("assigned", i, t, s, 0)
    BY <1>2, <2>1
  <2>3. QED BY <2>2, EntryIs
<1> DEFINE ts == [db.tasks EXCEPT ![i] = t]
<1>6. Commits(WithLog([db EXCEPT !.tasks = ts], <<e>>))
  BY <1>2 DEF WriteAssign
<1>7. DOMAIN db = Fields /\ IsSeq(db.log) /\ IsSeq(db.tasks)
  BY DEF IInv, Good, LogOK, TasksOK
<1>8. /\ DOMAIN ts = DOMAIN db.tasks
      /\ \A j \in DOMAIN db.tasks : ts[j] = IF j = i THEN t ELSE db.tasks[j]
  BY <1>7, SetElement
<1> HIDE DEF ts
<1>9. /\ db'.tasks = ts /\ db'.log = db.log \o <<e>>
      /\ lock = "free" /\ UNCHANGED <<lock, draft>>
  BY <1>6, <1>7, BothKeep DEF Commits
<1>10. AndRow(db.log, db'.log, e)
  BY <1>7, <1>9, RowAdded
<1>11. Onward(op[p], op'[p]) /\ \A q \in Callers \ {p} : op'[q] = op[q]
  BY ContinuesOnward DEF Continues
<1>12. op'[p].step = "check"
  BY <1>1, GotoMoves
<1>13. Owed(op'[p], db')
  BY <1>12 DEF Owed, LogSteps
<1>14. ASSUME i \notin spoilt
       PROVE  Sound(db', i)
  <2>1. Sound(db, i)
    BY <1>1, <1>2, <1>14, SoundAlone DEF TaskSteps, LogSteps
  <2>2. /\ AssigneeTold(db'.log, i, t.assignee) /\ Chain(db'.log, i)
        /\ StatusTold(db'.log, i, t.status)
    BY <1>4, <1>5, <1>10, <2>1, RowTellsAssignee DEF RowOf, AssigneeRows, Sound
  <2>3. db'.tasks[i] = t
    BY <1>3, <1>8, <1>9
  <2>4. QED BY <2>2, <2>3 DEF Sound
<1>15. \A j : j # i => SameStory(db.log, db'.log, j)
  BY <1>5, <1>10, OtherRow DEF RowOf
<1>16. Known(db'.log, DOMAIN db.tasks)
  BY <1>3, <1>5, <1>10, KnownStill DEF AuditInv
<1>17. op[p].step \in TaskSteps /\ DOMAIN db'.tasks = DOMAIN db.tasks
  BY <1>1, <1>8, <1>9 DEF TaskSteps
<1>18. \A j \in DOMAIN db.tasks \ {i} : db'.tasks[j] = db.tasks[j]
  BY <1>8, <1>9
<1>19. QED
  BY <1>1, <1>2, <1>9, <1>11, <1>13, <1>14, <1>15, <1>16, <1>17, <1>18, TaskStepKeepsAudit

-----------------------------------------------------------------------------
(* The other steps *)

LEMMA InsertKeepsAudit ==
  ASSUME IInv, OverlapInv, AuditInv, NEW p \in Callers, Insert(p)
  PROVE  AuditInv'
<1>1. /\ op[p].step = "insert" /\ lock = "free" /\ p # "free"
      /\ (\A q \in Callers \ {p} : op'[q] = op[q]) /\ spoilt \subseteq spoilt'
  BY InsertMoves, TaskBoardAssumption DEF Insert
<1>2. \A j : ~Amid(op[p], j)
  BY <1>1 DEF Amid, LogSteps
<1>3. CASE op'[p] = NoOp /\ Reads
  <2>1. UNCHANGED <<db, draft, lock>> /\ op'[p].step = "idle"
    BY <1>3, Idle DEF Reads
  <2>2. OthersHold(p) /\ OwnAudit(p)
    BY <1>1, <2>1 DEF OthersHold, OwnAudit, ItemSeen, TaskSteps
  <2>3. (\A j : SameStory(db.log, db'.log, j)) /\ Known(db'.log, DOMAIN db.tasks)
    BY <2>1, SameLog DEF AuditInv
  <2>4. QED BY <1>2, <2>1, <2>2, <2>3, AsideKeepsAudit
<1>4. CASE ~(op'[p] = NoOp /\ Reads)
  <2>1. PICK i, t : i = Len(db.tasks) + 1 /\ t = op[p].asked
    OBVIOUS
  <2>2. /\ op'[p].step = "reread" /\ op'[p].id = i /\ op'[p].kind = "create"
        /\ Commits([db EXCEPT !.tasks = Append(db.tasks, t)])
        /\ \A q \in Callers \ {p} : i \in Touched(op[q]) => i \in spoilt'
    <3>1. op[p].kind = "create"
      BY <1>1 DEF OverlapInv, KindOK
    <3>2. QED BY <1>4, <2>1, <3>1, InsertMoves DEF Moved, OpFields
  <2>3. DOMAIN db = Fields /\ IsSeq(db.tasks)
    BY DEF IInv, Good, TasksOK
  <2>4. /\ db'.tasks = Append(db.tasks, t) /\ db'.log = db.log
        /\ UNCHANGED <<lock, draft>>
    BY <2>2, <2>3, TasksKeep DEF Commits
  <2>5. /\ Len(db.tasks) \in Nat /\ DOMAIN db.tasks = 1..Len(db.tasks)
        /\ DOMAIN db'.tasks = 1..(Len(db.tasks) + 1)
        /\ \A j \in DOMAIN db.tasks : db'.tasks[j] = db.tasks[j]
        /\ db'.tasks[i] = t
    BY <2>1, <2>3, <2>4, AppendTo
  <2>6. i \in DOMAIN db'.tasks /\ i \notin DOMAIN db.tasks
    BY <2>1, <2>5
  <2>7. i \in Ids
    <3>1. ~Finish(p)
      BY <2>2, FinishMoves, Idle
    <3>2. i <= MaxTasks
      BY <2>1, <3>1 DEF Insert
    <3>3. QED BY <2>1, <2>5, <3>2, TaskBoardAssumption DEF Ids
  <2>8. WroteOn(p, i)
    <3>1. Known(db'.log, DOMAIN db'.tasks)
      BY <2>4, <2>5 DEF AuditInv, Known
    <3>2. \A j : SameStory(db.log, db'.log, j)
      BY <2>4, SameLog
    <3>3. DOMAIN db'.tasks \subseteq DOMAIN db.tasks \cup {i}
      BY <2>1, <2>5
    <3>4. DOMAIN db.tasks \subseteq DOMAIN db'.tasks
      BY <2>5
    <3>5. QED BY <1>1, <2>2, <2>4, <2>5, <2>7, <3>1, <3>2, <3>3, <3>4 DEF WroteOn
  <2>9. NoRows(db'.log, i) /\ Chain(db'.log, i)
    <3>1. NoRows(db'.log, i)
      BY <2>4, <2>6 DEF AuditInv, Known, NoRows, RowOf
    <3>2. \A k \in DOMAIN db'.log : ~RowOf(db'.log[k], i, {"status"})
      BY <3>1 DEF NoRows, RowOf, ToldRows, StatusRows
    <3>3. QED BY <3>1, <3>2 DEF Chain
  <2>10. Owed(op'[p], db')
    BY <2>2, <2>5, <2>9 DEF Owed, LogSteps
  <2>11. OwnAudit(p) /\ OthersHold(p)
    BY <1>1, <2>2, <2>4, <2>10 DEF OwnAudit, OthersHold, ItemSeen
  <2>12. Amid(op'[p], i)
    BY <2>2 DEF Amid, LogSteps
  <2>13. QED BY <1>2, <2>8, <2>11, <2>12, StepKeepsAudit
<1>5. QED BY <1>3, <1>4

LEMMA RequestsKeepAudit ==
  ASSUME IInv, AuditInv, NEW p \in Callers, Requests(p)
  PROVE  AuditInv'
<1>1. PICK new : Begin(p, new) /\ NewOp(new)
  BY RequestBegins
<1>2. /\ op'[p] = new /\ (\A q \in Callers \ {p} : op'[q] = op[q])
      /\ op[p].step = "idle" /\ UNCHANGED <<db, draft, lock>> /\ spoilt \subseteq spoilt'
  BY <1>1, BeginMoves
<1>3. lock # p
  BY <1>2 DEF IInv, Transaction, InBatch
<1>4. op'[p].step \notin {"write", "writeItem"} \cup LogSteps
  BY <1>1, <1>2 DEF NewOp, LogSteps, CommentSteps
<1>5. OthersHold(p) /\ OwnAudit(p)
  BY <1>2, <1>3, <1>4 DEF OthersHold, OwnAudit, ItemSeen, Owed, LogSteps
<1>6. (\A j : SameStory(db.log, db'.log, j)) /\ Known(db'.log, DOMAIN db.tasks)
  BY <1>2, SameLog DEF AuditInv
<1>7. \A j : ~Amid(op[p], j)
  BY <1>2 DEF Amid, LogSteps
<1>8. QED BY <1>2, <1>5, <1>6, <1>7, AsideKeepsAudit

LEMMA CommentStepsKeepAudit ==
  ASSUME IInv, OverlapInv, AuditInv, NEW p \in Callers, CommentStep(p)
  PROVE  AuditInv'
<1>1. DOMAIN db = Fields
  BY DEF IInv, Good
<1>2. db'.tasks = db.tasks /\ db'.log = db.log
  BY <1>1 DEF CommentStep, InsertComment, LogComment, EditComment, RemoveComment,
              StampMark, MarkRead, Commits, Reads, Fields
<1>3. UNCHANGED <<lock, draft, spoilt>>
  BY DEF CommentStep, InsertComment, LogComment, EditComment, RemoveComment,
         StampMark, MarkRead, Commits, Reads, Clock
<1>4. op[p].step \in CommentSteps
  BY DEF CommentStep, InsertComment, LogComment, EditComment, RemoveComment,
         StampMark, MarkRead, At, CommentSteps
<1>5. Onward(op[p], op'[p]) /\ \A q \in Callers \ {p} : op'[q] = op[q]
  BY ContinuesOnward DEF Continues
<1>6. op'[p].step \notin {"writeItem"} \cup TaskSteps
  BY <1>4, <1>5, Idle DEF Onward, CommentSteps, TaskSteps, InBatch
<1>7. lock # p
  BY <1>4 DEF IInv, Transaction, InBatch, CommentSteps
<1>8. OthersHold(p) /\ OwnAudit(p)
  BY <1>3, <1>5, <1>6, <1>7 DEF OthersHold, OwnAudit, ItemSeen
<1>9. (\A j : SameStory(db.log, db'.log, j)) /\ Known(db'.log, DOMAIN db.tasks)
  BY <1>2, SameLog DEF AuditInv
<1>10. \A j : ~Amid(op[p], j)
  BY <1>4 DEF Amid, LogSteps, CommentSteps
<1>11. QED BY <1>2, <1>8, <1>9, <1>10, AsideKeepsAudit

\* The operation ends, and its transaction is undone.
LEMMA UndoneKeepsAudit ==
  ASSUME IInv, OverlapInv, AuditInv, NEW p \in Callers, Rollback(p), Finish(p),
         spoilt \subseteq spoilt', op[p].kind # "batch" => Touched(op[p]) \subseteq spoilt'
  PROVE  AuditInv'
<1>1. op'[p].step = "idle" /\ \A q \in Callers \ {p} : op'[q] = op[q]
  BY FinishMoves, Idle
<1>2. /\ db' = db /\ lock' # p
      /\ \A q \in Callers \ {p} : (lock' = q <=> lock = q) /\ (lock = q => draft' = draft)
  <2>1. \A q \in Callers : q # "free"
    BY TaskBoardAssumption
  <2>2. QED BY <2>1 DEF Rollback
<1>3. OthersHold(p) /\ OwnAudit(p)
  BY <1>1, <1>2 DEF OthersHold, OwnAudit, ItemSeen, TaskSteps
<1>4. (\A j : SameStory(db.log, db'.log, j)) /\ Known(db'.log, DOMAIN db.tasks)
  BY <1>2, SameLog DEF AuditInv
<1>5. ASSUME NEW j, Amid(op[p], j)
      PROVE  j \in spoilt'
  <2>1. KindOK(op[p]) /\ op[p].step \in TaskSteps
    BY <1>5 DEF OverlapInv, Amid, LogSteps, TaskSteps
  <2>2. op[p].kind # "batch" /\ Touched(op[p]) = {op[p].id}
    BY <2>1, TouchedOf DEF KindOK, InBatch, TaskSteps
  <2>3. QED BY <1>5, <2>2 DEF Amid
<1>6. QED BY <1>2, <1>3, <1>4, <1>5, AsideKeepsAudit

LEMMA CrashKeepsAudit ==
  ASSUME IInv, OverlapInv, AuditInv, NEW p \in Callers, Crash(p)
  PROVE  AuditInv'
BY UndoneKeepsAudit DEF Crash

-----------------------------------------------------------------------------
(* Batches *)

BatchStep == {"readItem", "writeItem", "commit"}

\* While a batch runs, what it sees is told, but for tasks that are spoilt.
LEMMA ViewIsSound ==
  ASSUME IInv, OverlapInv, AuditInv, NEW p \in Callers, InBatch(op[p])
  PROVE  SoundBoard(View(p), spoilt)
<1>1. CASE lock = p
  BY <1>1 DEF View, AuditInv
<1>2. CASE lock # p
  <2>1. View(p) = db
    BY <1>2 DEF View
  <2>2. ASSUME NEW i \in DOMAIN db.tasks \ spoilt
        PROVE  Sound(db, i)
    <3>1. ASSUME NEW q \in Callers, Amid(op[q], i)
          PROVE  FALSE
      <4>1. op[q].step \in TaskSteps /\ op[q].id = i
        BY <3>1 DEF Amid, LogSteps, TaskSteps
      <4>2. q # p /\ KindOK(op[q]) /\ KindOK(op[p])
        BY <4>1 DEF OverlapInv, InBatch, TaskSteps
      <4>3. i \in Touched(op[q]) /\ Touched(op[p]) = Ids
        BY <4>1, <4>2, TouchedOf DEF InBatch, TaskSteps
      <4>4. i \in Ids
        BY DEF IInv, Good, TasksOK
      <4>5. QED BY <4>2, <4>3, <4>4 DEF OverlapInv
    <3>2. QED BY <3>1 DEF AuditInv
  <2>3. QED BY <2>1, <2>2 DEF SoundBoard, AuditInv
<1>3. QED BY <1>1, <1>2

LEMMA ReadItemKeepsAudit ==
  ASSUME IInv, OverlapInv, AuditInv, NEW p \in Callers, ReadItem(p)
  PROVE  AuditInv'
<1>1. op[p].step = "readItem" /\ spoilt' = spoilt
  BY DEF ReadItem, At, Clock
<1>2. CASE Rollback(p) /\ Finish(p)
  <2>1. op[p].kind = "batch"
    BY <1>1 DEF OverlapInv, KindOK, InBatch
  <2>2. QED BY <1>1, <1>2, <2>1, UndoneKeepsAudit
<1>3. CASE ~(Rollback(p) /\ Finish(p))
  <2>1. PICK v, named : v = View(p) /\ named = Named(v, Head(op[p].items))
    OBVIOUS
  <2>2. PICK f, i, t :
          /\ op' = [op EXCEPT ![p].step = "writeItem", ![p].found = f,
                              ![p].id = i, ![p].seen = t]
          /\ named = {} => f = FALSE
          /\ i = IF named = {} THEN MaxTasks ELSE CHOOSE k \in named : TRUE
          /\ t = IF named = {} THEN NewTask
                 ELSE v.tasks[CHOOSE k \in named : TRUE]
    BY <1>3, <2>1 DEF ReadItem
  <2>3. UNCHANGED <<db, draft, lock>>
    BY <1>3 DEF ReadItem, Reads
  <2>4. op' = [op EXCEPT ![p].step = "writeItem", ![p].found = f,
                         ![p].id = i, ![p].seen = t]
    BY <2>2
  <2>5. /\ Moved(p, {"step", "found", "id", "seen"})
        /\ op'[p].step = "writeItem" /\ op'[p].found = f /\ op'[p].id = i
        /\ op'[p].seen = t
    <3>1. Moved(p, {"step", "found", "id", "seen"})
      BY <2>4, FoundMoves
    <3>2. op'[p].step = "writeItem"
      BY <2>4, FoundMoves
    <3>3. op'[p].found = f
      BY <2>4, FoundMoves
    <3>4. op'[p].id = i
      BY <2>4, FoundMoves
    <3>5. op'[p].seen = t
      BY <2>4, OpsAre DEF OpFields
    <3>6. QED BY <3>1, <3>2, <3>3, <3>4, <3>5
  <2>6. f # FALSE => t = v.tasks[i]
    <3>1. PICK x : x = CHOOSE k \in named : TRUE
      OBVIOUS
    <3>2. named # {} => i = x
      BY <2>2, <3>1
    <3>3. named # {} => t = v.tasks[x]
      BY <2>2, <3>1
    <3>4. QED BY <2>2, <3>2, <3>3
  <2>7. ItemSeen(op'[p], v)
    <3>1. op'[p].found => op'[p].found # FALSE
      OBVIOUS
    <3>2. QED BY <2>5, <2>6, <3>1 DEF ItemSeen
  <2>8. (IF lock' = p THEN draft' ELSE db') = v
    BY <2>1, <2>3 DEF View
  <2>9. lock' = p => SoundBoard(draft', spoilt')
    BY <1>1, <2>3 DEF AuditInv
  <2>10. OthersHold(p) /\ OwnAudit(p)
    BY <1>1, <2>3, <2>5, <2>7, <2>8, <2>9 DEF OthersHold, OwnAudit, Moved, TaskSteps
  <2>11. (\A j : SameStory(db.log, db'.log, j)) /\ Known(db'.log, DOMAIN db.tasks)
    BY <2>3, SameLog DEF AuditInv
  <2>12. \A j : ~Amid(op[p], j)
    BY <1>1 DEF Amid, LogSteps
  <2>13. QED BY <2>3, <2>10, <2>11, <2>12, AsideKeepsAudit
<1>4. QED BY <1>2, <1>3

\* What the rows of an item tell.
LEMMA ItemTold ==
  ASSUME NEW log, IsSeq(log), NEW p, NEW i, NEW new, NEW ids, NEW more,
         Known(log, ids), ids \subseteq more, i \in more
  PROVE  LET longer == log \o ItemLog(p, i, new) IN
         /\ Known(longer, more)
         /\ \A j : j # i => SameStory(log, longer, j)
         /\ /\ op[p].found => /\ StatusTold(log, i, op[p].seen.status)
                              /\ AssigneeTold(log, i, op[p].seen.assignee)
            /\ Chain(log, i)
            => /\ StatusTold(longer, i, new.status) /\ AssigneeTold(longer, i, new.assignee)
               /\ Chain(longer, i)
<1>1. PICK c, a, u, s, b :
        /\ s = new.status /\ b = op[p].batch
        /\ c = Entry("created", i, new, s, b)
        /\ a = Entry("assigned", i, new, s, b)
        /\ u = Entry("updated", i, new, s, b)
  OBVIOUS
<1>2. /\ c.action = "created" /\ c.id = i /\ c.status = new.status
      /\ a.action = "assigned" /\ a.id = i /\ a.assignee = new.assignee
      /\ u.action = "updated" /\ u.id = i /\ u.status = new.status
  BY <1>1, EntryIs
<1> DEFINE longer == log \o ItemLog(p, i, new)
           Told(l) == /\ StatusTold(l, i, new.status) /\ AssigneeTold(l, i, new.assignee)
                      /\ Chain(l, i)
           Before == /\ op[p].found => /\ StatusTold(log, i, op[p].seen.status)
                                       /\ AssigneeTold(log, i, op[p].seen.assignee)
                     /\ Chain(log, i)
           Goal(l) == /\ Known(l, more) /\ (\A j : j # i => SameStory(log, l, j))
                      /\ Before => Told(l)
\* The row of the status, after which the assignee is told.
<1>3. ASSUME NEW mid, NEW e \in {c, u}, AndRow(log, mid, e)
      PROVE  /\ Known(mid, more) /\ \A j : j # i => SameStory(log, mid, j)
             /\ Chain(log, i) => StatusTold(mid, i, new.status) /\ Chain(mid, i)
             /\ \A x : AssigneeTold(log, i, x) => AssigneeTold(mid, i, x)
  <2>1. RowOf(e, i, StatusRows) /\ e.action # "status" /\ e.status = new.status
    BY <1>2 DEF RowOf, StatusRows
  <2>2. Known(mid, more)
    BY <1>2, <1>3, KnownStill
  <2>3. \A j : j # i => SameStory(log, mid, j)
    BY <1>2, <1>3, OtherRow DEF RowOf
  <2>4. QED BY <1>3, <2>1, <2>2, <2>3, RowTellsStatus
<1>4. ASSUME NEW mid, NEW e \in {c, u}, NEW l, AndRow(log, mid, e), AndRow(mid, l, a)
      PROVE  Goal(l)
  <2>1. /\ Known(mid, more) /\ \A j : j # i => SameStory(log, mid, j)
        /\ Chain(log, i) => StatusTold(mid, i, new.status) /\ Chain(mid, i)
    BY <1>3, <1>4
  <2>2. Known(l, more)
    BY <1>2, <1>4, <2>1, KnownStill
  <2>3. \A j : j # i => SameStory(log, l, j)
    BY <1>2, <1>4, <2>1, OtherRow, LaterStory DEF RowOf
  <2>4. Chain(log, i) => Told(l)
    <3>1. RowOf(a, i, AssigneeRows)
      BY <1>2 DEF RowOf, AssigneeRows
    <3>2. QED BY <1>2, <1>4, <2>1, <3>1, RowTellsAssignee
  <2>5. QED BY <2>2, <2>3, <2>4
<1>5. CASE ~op[p].found
  <2>1. ItemLog(p, i, new) = <<c, a>>
    BY <1>1, <1>5 DEF ItemLog
  <2>2. PICK mid : AndRow(log, mid, c) /\ AndRow(mid, longer, a)
    BY <2>1, TwoRows
  <2>3. QED BY <1>4, <2>2
<1>6. CASE op[p].found /\ new # op[p].seen /\ new.assignee # op[p].seen.assignee
  <2>1. ItemLog(p, i, new) = <<u>> \o <<a>>
    BY <1>1, <1>6 DEF ItemLog
  <2>2. <<u>> \o <<a>> = <<u, a>>
    <3>1. PICK S : S = {u, a}
      OBVIOUS
    <3>2. <<u>> \in Seq(S) /\ <<a>> \in Seq(S) /\ <<u, a>> \in Seq(S)
      BY <3>1
    <3>3. /\ Len(<<u>>) = 1 /\ Len(<<a>>) = 1 /\ Len(<<u, a>>) = 2
          /\ <<u>>[1] = u /\ <<a>>[1] = a /\ <<u, a>>[1] = u /\ <<u, a>>[2] = a
      OBVIOUS
    <3>4. /\ <<u>> \o <<a>> \in Seq(S) /\ Len(<<u>> \o <<a>>) = 2
          /\ (<<u>> \o <<a>>)[1] = u /\ (<<u>> \o <<a>>)[2] = a
      BY <3>2, <3>3
    <3>5. /\ <<u>> \o <<a>> = [k \in 1..2 |-> (<<u>> \o <<a>>)[k]]
          /\ <<u, a>> = [k \in 1..2 |-> <<u, a>>[k]]
      BY <3>2, <3>3, <3>4
    <3>6. \A k \in 1..2 : (<<u>> \o <<a>>)[k] = <<u, a>>[k]
      BY <3>3, <3>4
    <3>7. QED BY <3>5, <3>6
  <2>3. PICK mid : AndRow(log, mid, u) /\ AndRow(mid, longer, a)
    BY <2>1, <2>2, TwoRows
  <2>4. QED BY <1>4, <2>3
<1>7. CASE op[p].found /\ new # op[p].seen /\ new.assignee = op[p].seen.assignee
  <2>1. ItemLog(p, i, new) = <<u>> \o <<>>
    BY <1>1, <1>7 DEF ItemLog
  <2>2. <<u>> \o <<>> = <<u>>
    OBVIOUS
  <2>3. AndRow(log, longer, u)
    BY <2>1, <2>2, RowAdded
  <2>4. QED BY <1>3, <1>7, <2>3
<1>8. CASE op[p].found /\ new = op[p].seen
  <2>1. ItemLog(p, i, new) = <<>> \o <<>>
    BY <1>1, <1>8 DEF ItemLog
  <2>2. <<>> \o <<>> = <<>> /\ log \o <<>> = log
    <3>1. PICK S : log \in Seq(S)
      BY DEF IsSeq
    <3>2. QED BY <3>1
  <2>3. longer = log
    BY <2>1, <2>2
  <2>4. Known(log, more) /\ \A j : SameStory(log, log, j)
    BY SameLog DEF Known
  <2>5. QED BY <1>8, <2>3, <2>4
<1>9. QED BY <1>5, <1>6, <1>7, <1>8

LEMMA WriteItemKeepsAudit ==
  ASSUME IInv, OverlapInv, AuditInv, NEW p \in Callers, WriteItem(p)
  PROVE  AuditInv'
<1>1. /\ op[p].step = "writeItem" /\ spoilt' = spoilt /\ InBatch(op[p])
      /\ lock \in {p, "free"}
  BY DEF WriteItem, At, Clock, InBatch
<1>2. CASE Rollback(p) /\ Finish(p)
  <2>1. op[p].kind = "batch"
    BY <1>1 DEF OverlapInv, KindOK
  <2>2. QED BY <1>1, <1>2, <2>1, UndoneKeepsAudit
<1>3. CASE ~(Rollback(p) /\ Finish(p))
  <2>1. PICK v, new, i, found :
          /\ v = View(p) /\ new = ItemTask(p, Head(op[p].items))
          /\ found = op[p].found
          /\ i = IF op[p].found THEN op[p].id ELSE Len(v.tasks) + 1
    OBVIOUS
  <2>2. PICK ts, es :
          /\ ts = IF op[p].found THEN [v.tasks EXCEPT ![i] = Updated(v.tasks[i], new)]
                  ELSE Append(v.tasks, new)
          /\ es = ItemLog(p, i, new)
    OBVIOUS
  <2>3. Drafts(p, WithLog([v EXCEPT !.tasks = ts], es))
    BY <1>3, <2>1, <2>2 DEF WriteItem
  <2> DEFINE items == Tail(op[p].items)
             step == IF Len(op[p].items) = 1 THEN "commit" ELSE "readItem"
  <2>4. op' = [op EXCEPT ![p].items = items, ![p].step = step] /\ step \in {"commit", "readItem"}
    BY <1>3 DEF WriteItem
  <2> HIDE DEF items, step
  <2>5. Moved(p, {"items", "step"}) /\ op'[p].step \in {"commit", "readItem"}
    BY <2>4, ItemsMove
  <2>6. Good(v, op[p].batch) /\ SoundBoard(v, spoilt)
    BY <1>1, <2>1, ViewOfBatch, ViewIsSound
  <2>7. DOMAIN v = Fields /\ IsSeq(v.log) /\ IsSeq(v.tasks)
    BY <2>6 DEF Good, LogOK, TasksOK
  <2>8. /\ lock' = p /\ db' = db
        /\ draft'.tasks = ts /\ draft'.log = v.log \o es
    BY <2>3, <2>7, BothKeep DEF Drafts
  <2>9. new.status = Head(op[p].items).status /\ IsTask(new)
    <3>1. PICK t : t = IF op[p].found THEN op[p].seen ELSE NewTask
      OBVIOUS
    <3>2. IsTask(t)
      BY <3>1, NewTaskIsTask DEF IInv, TaskOp
    <3>3. PICK item, e : /\ item = Head(op[p].items)
                         /\ e = IF item.external = NoExternalId THEN t.external
                                ELSE item.external
      OBVIOUS
    <3>4. new = [t EXCEPT !.external = e, !.status = item.status,
                          !.assignee = item.assignee]
      BY <2>1, <3>1, <3>3 DEF ItemTask
    <3>5. QED BY <3>2, <3>3, <3>4 DEF IsTask
  <2>10. /\ DOMAIN ts = DOMAIN v.tasks \cup {i}
         /\ \A j \in DOMAIN v.tasks \ {i} : ts[j] = v.tasks[j]
         /\ ts[i].status = new.status /\ ts[i].assignee = new.assignee
         /\ op[p].found => i \in DOMAIN v.tasks
    <3>1. CASE op[p].found
      <4>1. PICK t : t = Updated(v.tasks[i], new)
        OBVIOUS
      <4>2. t.status = new.status /\ t.assignee = new.assignee
        BY <2>9, <4>1 DEF Updated, IsTask
      <4>3. ts = [v.tasks EXCEPT ![i] = t]
        BY <2>2, <3>1, <4>1
      <4>4. i \in DOMAIN v.tasks
        BY <1>1, <2>1, <3>1 DEF IInv, TaskOp
      <4>5. /\ DOMAIN ts = DOMAIN v.tasks
            /\ \A j \in DOMAIN v.tasks : ts[j] = IF j = i THEN t ELSE v.tasks[j]
        BY <2>7, <4>3, SetElement
      <4>6. QED BY <4>2, <4>4, <4>5
    <3>2. CASE ~op[p].found
      <4>1. ts = Append(v.tasks, new) /\ i = Len(v.tasks) + 1
        BY <2>1, <2>2, <3>2
      <4>2. /\ Len(v.tasks) \in Nat /\ DOMAIN v.tasks = 1..Len(v.tasks)
            /\ DOMAIN ts = 1..(Len(v.tasks) + 1)
            /\ \A j \in DOMAIN v.tasks : ts[j] = v.tasks[j]
            /\ ts[i] = new
        BY <2>7, <4>1, AppendTo
      <4>3. 1..(Len(v.tasks) + 1) = 1..Len(v.tasks) \cup {i}
        BY <4>1, <4>2
      <4>4. QED BY <3>2, <4>2, <4>3
    <3>3. QED BY <3>1, <3>2
  <2>11. PICK ids, more : ids = DOMAIN v.tasks /\ more = DOMAIN ts
    OBVIOUS
  <2>12. Known(v.log, ids) /\ ids \subseteq more /\ i \in more
    BY <2>6, <2>10, <2>11 DEF SoundBoard
  <2>13. PICK longer : longer = v.log \o es
    OBVIOUS
  <2>14. /\ Known(longer, more)
         /\ \A j : j # i => SameStory(v.log, longer, j)
         /\ /\ op[p].found => /\ StatusTold(v.log, i, op[p].seen.status)
                              /\ AssigneeTold(v.log, i, op[p].seen.assignee)
            /\ Chain(v.log, i)
            => /\ StatusTold(longer, i, new.status) /\ AssigneeTold(longer, i, new.assignee)
               /\ Chain(longer, i)
    <3>1. PICK log : log = v.log
      OBVIOUS
    <3>2. IsSeq(log) /\ Known(log, ids)
      BY <2>7, <2>12, <3>1
    <3>3. longer = log \o ItemLog(p, i, new)
      BY <2>2, <2>13, <3>1
    <3>4. QED BY <2>12, <3>1, <3>2, <3>3, ItemTold
  <2>15. ASSUME i \notin spoilt
         PROVE  Sound(draft', i)
    <3>1. CASE op[p].found
      <4>1. op[p].id = i /\ i \in DOMAIN v.tasks
        BY <2>1, <2>10, <3>1
      <4>2. /\ op[p].seen.status = v.tasks[i].status
            /\ op[p].seen.assignee = v.tasks[i].assignee
        BY <1>1, <2>1, <2>15, <3>1, <4>1 DEF AuditInv, ItemSeen
      <4>3. Sound(v, i)
        BY <2>6, <2>15, <4>1 DEF SoundBoard
      <4>4. QED BY <2>8, <2>10, <2>13, <2>14, <4>2, <4>3 DEF Sound
    <3>2. CASE ~op[p].found
      <4>1. i \notin DOMAIN v.tasks
        <5>1. i = Len(v.tasks) + 1
          BY <2>1, <3>2
        <5>2. Len(v.tasks) \in Nat /\ DOMAIN v.tasks = 1..Len(v.tasks)
          BY <2>7, AppendTo
        <5>3. QED BY <5>1, <5>2
      <4>2. \A k \in DOMAIN v.log : ~RowOf(v.log[k], i, {"status"})
        BY <2>11, <2>12, <4>1 DEF Known, RowOf, ToldRows, StatusRows
      <4>3. Chain(v.log, i)
        BY <4>2 DEF Chain
      <4>4. QED BY <2>8, <2>10, <2>13, <2>14, <3>2, <4>3 DEF Sound
    <3>3. QED BY <3>1, <3>2
  <2>16. ASSUME NEW j \in DOMAIN draft'.tasks \ spoilt
         PROVE  Sound(draft', j)
    <3>1. CASE j = i
      BY <2>15, <2>16, <3>1
    <3>2. CASE j # i
      <4>1. j \in DOMAIN v.tasks \ spoilt /\ ts[j] = v.tasks[j]
        BY <2>8, <2>10, <2>16, <3>2
      <4>2. Sound(v, j) /\ SameStory(v.log, longer, j)
        BY <2>6, <2>14, <3>2, <4>1 DEF SoundBoard
      <4>3. draft'.tasks[j] = v.tasks[j] /\ draft'.log = longer
        BY <2>8, <2>13, <4>1
      <4>4. QED BY <4>2, <4>3, AuditOf
    <3>3. QED BY <3>1, <3>2
  <2>17. SoundBoard(draft', spoilt')
    BY <1>1, <2>8, <2>11, <2>13, <2>14, <2>16 DEF SoundBoard
  <2>18. \A q \in Callers : q # "free"
    BY TaskBoardAssumption
  <2>19. OthersHold(p) /\ OwnAudit(p)
    BY <1>1, <2>5, <2>8, <2>17, <2>18 DEF OthersHold, OwnAudit, Moved, ItemSeen, TaskSteps
  <2>20. (\A j : SameStory(db.log, db'.log, j)) /\ Known(db'.log, DOMAIN db.tasks)
    BY <2>8, SameLog DEF AuditInv
  <2>21. \A j : ~Amid(op[p], j)
    BY <1>1 DEF Amid, LogSteps
  <2>22. QED BY <2>8, <2>19, <2>20, <2>21, AsideKeepsAudit
<1>4. QED BY <1>2, <1>3

LEMMA CommitBatchKeepsAudit ==
  ASSUME IInv, OverlapInv, AuditInv, NEW p \in Callers, CommitBatch(p)
  PROVE  AuditInv'
<1>1. /\ op[p].step = "commit" /\ spoilt' = spoilt /\ Finish(p) /\ lock' = "free"
      /\ lock = p
  BY DEF CommitBatch, At, Clock, IInv
<1>2. PICK d, e : /\ d = draft
                  /\ e = Entry("synced", op[p].id, op[p].seen, op[p].seen.status, op[p].batch)
  OBVIOUS
<1>3. Good(d, op[p].batch) /\ SoundBoard(d, spoilt)
  BY <1>1, <1>2 DEF IInv, Transaction, AuditInv
<1>4. db' = WithLog(d, <<e>>)
  BY <1>2 DEF CommitBatch
<1>5. DOMAIN d = Fields /\ IsSeq(d.log)
  BY <1>3 DEF Good, LogOK
<1>6. db'.tasks = d.tasks /\ db'.log = d.log \o <<e>>
  BY <1>4, <1>5, RowsKeep
<1>7. AndRow(d.log, db'.log, e)
  BY <1>5, <1>6, RowAdded
<1>8. e.action \notin ToldRows
  <2>1. PICK s, b, t : s = op[p].seen.status /\ b = op[p].batch /\ t = op[p].seen
    OBVIOUS
  <2>2. e = Entry("synced", op[p].id, t, s, b)
    BY <1>2, <2>1
  <2>3. QED BY <2>2, EntryIs DEF ToldRows, StatusRows, AssigneeRows
<1>9. Known(db'.log, DOMAIN db'.tasks)
  BY <1>3, <1>6, <1>7, <1>8, KnownStill DEF SoundBoard
<1>10. ASSUME NEW i \in DOMAIN db'.tasks \ spoilt
       PROVE  Sound(db', i)
  <2>1. Sound(d, i)
    BY <1>3, <1>6, <1>10 DEF SoundBoard
  <2>2. SameStory(d.log, db'.log, i)
    BY <1>7, <1>8, OtherRow DEF RowOf
  <2>3. QED BY <1>6, <2>1, <2>2, AuditOf
<1>11. op'[p].step = "idle" /\ \A q \in Callers \ {p} : op'[q] = op[q]
  BY <1>1, FinishMoves, Idle
\* The batch touched every task: the others' are spoilt.
<1>12. ASSUME NEW q \in Callers \ {p}, op[q].id \notin spoilt
       PROVE  op[q].step \notin TaskSteps /\ ~(op[q].step = "writeItem" /\ op[q].found)
  <2>1. KindOK(op[p]) /\ KindOK(op[q]) /\ Touched(op[p]) \cap Touched(op[q]) \subseteq spoilt
    BY DEF OverlapInv
  <2>2. Touched(op[p]) = Ids
    BY <1>1, <2>1, TouchedOf DEF InBatch
  <2>3. lock # q
    BY <1>1
  <2>4. op[q].step \in TaskSteps \/ (op[q].step = "writeItem" /\ op[q].found) => op[q].id \in Ids
    <3>1. TaskOp(op[q], db)
      BY <2>3 DEF IInv, View
    <3>2. DOMAIN db.tasks \subseteq Ids
      BY DEF IInv, Good, TasksOK
    <3>3. QED BY <3>1, <3>2 DEF TaskOp
  <2>5. op[q].step \in TaskSteps => Touched(op[q]) = {op[q].id}
    BY <2>1, TouchedOf DEF InBatch, TaskSteps
  <2>6. op[q].step = "writeItem" => Touched(op[q]) = Ids
    BY <2>1, TouchedOf DEF InBatch
  <2>7. QED BY <1>12, <2>1, <2>2, <2>4, <2>5, <2>6
<1>13. ASSUME NEW q \in Callers, op'[q].id \notin spoilt'
       PROVE  /\ op'[q].step \in TaskSteps => Owed(op'[q], db')
              /\ ItemSeen(op'[q], IF lock' = q THEN draft' ELSE db')
  <2>1. CASE q = p
    BY <1>11, <2>1 DEF ItemSeen, TaskSteps
  <2>2. CASE q # p
    BY <1>1, <1>11, <1>12, <1>13, <2>2 DEF ItemSeen
  <2>3. QED BY <2>1, <2>2
<1>14. \A q \in Callers : q # "free"
  BY TaskBoardAssumption
<1>15. Known(db.log, DOMAIN db.tasks)'
  BY <1>9 DEF Known, ToldRows, StatusRows, AssigneeRows
<1>16. \A i \in DOMAIN db'.tasks \ spoilt' : Sound(db, i)'
  BY <1>1, <1>10 DEF Sound
<1>17. \A q \in Callers : op'[q].id \notin spoilt' =>
         /\ op'[q].step \in TaskSteps => Owed(op[q], db)'
         /\ ItemSeen(op[q], View(q))'
  BY <1>13 DEF ItemSeen, View, Owed, LogSteps
<1>18. QED BY <1>1, <1>14, <1>15, <1>16, <1>17 DEF AuditInv

-----------------------------------------------------------------------------
(* The log follows the tasks. *)

LEMMA NextKeepsAudit == IInv /\ OverlapInv /\ AuditInv /\ [Next]_vars => AuditInv'
<1> SUFFICES ASSUME IInv, OverlapInv, AuditInv, [Next]_vars
             PROVE  AuditInv'
  OBVIOUS
<1>1. CASE UNCHANGED vars \/ Tick
  <2>1. UNCHANGED <<db, draft, lock, op, spoilt>>
    BY <1>1 DEF vars, Tick
  <2>2. QED
    BY <2>1 DEF AuditInv, Known, ToldRows, StatusRows, AssigneeRows, Amid, LogSteps, Sound,
                SoundBoard, Owed, ItemSeen, View
<1>2. ASSUME NEW p \in Callers, Requests(p) \/ CommentStep(p) \/ Crash(p)
      PROVE  AuditInv'
  BY <1>2, RequestsKeepAudit, CommentStepsKeepAudit, CrashKeepsAudit
<1>3. ASSUME NEW p \in Callers, Step(p)
      PROVE  AuditInv'
  BY <1>3, InsertKeepsAudit, RereadKeepsAudit, LogCreatedKeepsAudit, LogAssignedKeepsAudit, ReadKeepsAudit,
     WriteStatusKeepsAudit, LogStatusKeepsAudit, WriteUpdateKeepsAudit, LogUpdatedKeepsAudit,
     WriteAssignKeepsAudit, CheckKeepsAudit, NotifyKeepsAudit, ReadItemKeepsAudit,
     WriteItemKeepsAudit, CommitBatchKeepsAudit DEF Step
<1>4. QED BY <1>1, <1>2, <1>3 DEF Next

LEMMA Audit == Spec => []AuditInv
<1>1. Init => AuditInv
  <2>1. SUFFICES ASSUME Init
                 PROVE  AuditInv
    OBVIOUS
  <2>2. PICK d \in Databases : d = db
    BY <2>1 DEF Init
  <2>3. /\ \A k \in DOMAIN db.log : db.log[k].id \in DOMAIN db.tasks
        /\ \A i \in DOMAIN db.tasks : Sound(db, i)
    BY <2>2, DatabasesAssumption DEF Sound
  <2>4. lock = "free" /\ \A p \in Callers : p # "free" /\ op[p].step = "idle"
    BY <2>1, Idle, TaskBoardAssumption DEF Init
  <2>5. Known(db.log, DOMAIN db.tasks)
    BY <2>3 DEF Known
  <2>6. QED BY <2>3, <2>4, <2>5 DEF AuditInv, ItemSeen, TaskSteps
<1>2. QED BY <1>1, NextKeepsAudit, Invariant, Overlaps, PTL DEF Spec

\* No operation is amid a task that none touches.
LEMMA QuietIsSound ==
  ASSUME OverlapInv, AuditInv, NEW i \in DOMAIN db.tasks, Quiet(i)
  PROVE  Sound(db, i)
<1>1. ASSUME NEW q \in Callers, Amid(op[q], i)
      PROVE  FALSE
  <2>1. op[q].step \in TaskSteps /\ op[q].id = i /\ KindOK(op[q])
    BY <1>1 DEF Amid, LogSteps, TaskSteps, OverlapInv
  <2>2. i \in Touched(op[q])
    BY <2>1, TouchedOf DEF InBatch, TaskSteps
  <2>3. QED BY <2>2 DEF Quiet
<1>2. QED BY <1>1 DEF AuditInv, Quiet

\* Once no operation on a task runs, and none was overlapped or cut short, the
\* last log rows tell the status and the assignee it has; a comment is gone
\* exactly when a row tells it (create_task, transition_task_status, upsert_task,
\* update_task_assignment, sync_tasks and their _log rows).
THEOREM AuditFollows == Spec => []AuditFollowsTasks
<1>1. OverlapInv /\ AuditInv /\ RemovalInv => AuditFollowsTasks
  BY QuietIsSound DEF AuditFollowsTasks, RemovalInv, Sound
<1>2. QED BY <1>1, Overlaps, Audit, RemovalsAreTold, PTL

\* The logged transitions of such a task form a chain of allowed ones, each from
\* the status the row before tells (_validate_task_transition, and the row
\* task_status_changed of transition_task_status).
THEOREM TransitionsChain == Spec => []TransitionsFormAChain
<1>1. OverlapInv /\ AuditInv => TransitionsFormAChain
  BY QuietIsSound DEF TransitionsFormAChain, Sound
<1>2. QED BY <1>1, Overlaps, Audit, PTL

==============================================================================
