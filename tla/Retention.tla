------------------------------ MODULE Retention ------------------------------
(***************************************************************************)
(* enforce_data_retention beside the operations whose rows it deletes:     *)
(* those of Applications, mail and its engagement events, done tasks and   *)
(* generated documents with their files.                                   *)
(*                                                                         *)
(* A run takes its date, selects the expired rows table by table, writes   *)
(* them to an archive file named after the second of its date, deletes in  *)
(* one transaction, and then unlinks the documents' files.  Dates are told *)
(* apart by the tick, which is shorter than a second; names by the second. *)
(* Audit rows are treated like attempts and left out; a task's comments go *)
(* with it (ON DELETE CASCADE) and are in no archive.  The mode that       *)
(* archives nothing, and the dry run, are left out.                        *)
(***************************************************************************)
EXTENDS Applications

CONSTANTS Mails, Tasks, Docs,
          Keep,    \* Keep[k]: the policy's days for the rows of kind k, in ticks
          Second   \* Second[t]: the second that tick t is in

RowKinds == {"opportunity", "attempt", "mail", "task", "document"}

ASSUME RetentionAssumption ==
  /\ Keep \in [RowKinds -> Nat]
  /\ Second \in [0..MaxTime -> 0..MaxTime]

VARIABLES
  mails,    \* mails[m]: a communication and the number of its outreach_events
  tasks,    \* tasks[t]: a task, at the time of its last update
  docs,     \* docs[d]: a row of documents, with the second its file is named for
  files,    \* the document files there are, by that second
  archive,  \* archive[s]: the rows in the archive file of second s
  work      \* work[p]: what p's retention run selected, or the document it makes

retentionVars == <<mails, tasks, docs, files, archive, work>>
allVars == <<vars, retentionVars>>

\* late (ghost): the events recorded between a run's SELECT and its DELETE.
NoMail == [state |-> "none", at |-> 0, events |-> 0, late |-> 0]
NoTask == [state |-> "open", at |-> 0]
NoDoc == [state |-> "none", at |-> 0, path |-> 0]

\* by (ghost): the process that wrote the file last.
NoFile == [rows |-> {}, by |-> {}]

\* asOf: the run's date; rows: what it read for the archive; mails: the ids of
\* the communications it deletes; paths: the files it unlinks.
NoWork == [asOf |-> 0, rows |-> {}, mails |-> {}, paths |-> {},
           drawing |-> {}, path |-> 0]

RetentionInit ==
  /\ Init
  /\ mails = [m \in Mails |-> NoMail]
  /\ tasks = [t \in Tasks |-> NoTask]
  /\ docs = [d \in Docs |-> NoDoc]
  /\ files = {}
  /\ archive = [s \in 0..MaxTime |-> NoFile]
  /\ work = [p \in Callers |-> NoWork]

-----------------------------------------------------------------------------
(* The rows' own operations: each a transaction of some process.           *)

Starts ==
  /\ started < MaxOps
  /\ started' = started + 1
  /\ UNCHANGED <<opps, apps, attempts, portal, op, now, finds, crashes, archive>>

\* send_outreach: the communication and its event "sent".
SendMail(m) ==
  /\ Starts /\ mails[m].state = "none"
  /\ mails' = [mails EXCEPT ![m] = [state |-> "stored", at |-> now,
                                    events |-> 1, late |-> 0]]
  /\ UNCHANGED <<tasks, docs, files, work>>

\* A run that will delete m has read its events.
Selected(m) ==
  \E p \in Callers : op[p].step \in {"write", "delete"} /\ m \in work[p].mails

RecordEvent(m) ==
  /\ Starts /\ mails[m].state = "stored"
  /\ mails' = [mails EXCEPT ![m].events = @ + 1,
                            ![m].late = IF Selected(m) THEN @ + 1 ELSE 0]
  /\ UNCHANGED <<tasks, docs, files, work>>

\* A transition to done, or an update of a task that is done.
UpdateTask(t) ==
  /\ Starts /\ tasks[t].state # "deleted"
  /\ tasks' = [tasks EXCEPT ![t] = [state |-> "done", at |-> now]]
  /\ UNCHANGED <<mails, docs, files, work>>

Free(p) == At(p, "idle") /\ work[p] = NoWork

\* generate_document writes the file, ...
Draw(p) ==
  /\ Free(p) /\ Starts
  /\ \E d \in Docs :
       /\ docs[d].state = "none" /\ \A q \in Callers : d \notin work[q].drawing
       /\ work' = [work EXCEPT ![p].drawing = {d}, ![p].path = Second[now]]
  /\ files' = files \cup {Second[now]}
  /\ UNCHANGED <<mails, tasks, docs>>

\* ... and then commits the row.
Store(p) ==
  /\ \E d \in work[p].drawing :
       docs' = [docs EXCEPT ![d] = [state |-> "stored", at |-> now,
                                    path |-> work[p].path]]
  /\ work' = [work EXCEPT ![p] = NoWork]
  /\ UNCHANGED <<vars, mails, tasks, files, archive>>

-----------------------------------------------------------------------------
(* enforce_data_retention: its date, and the SELECTs in their order        *)

Enforce(p) ==
  /\ Free(p)
  /\ Enter(p, [NoOp EXCEPT !.kind = "retain", !.step = "mail"])
  /\ work' = [work EXCEPT ![p].asOf = now]
  /\ UNCHANGED <<mails, tasks, docs, files, archive>>

Expired(at, kind, asOf) == at < asOf - Keep[kind]

ExpiredMails(asOf) ==
  {m \in Mails : mails[m].state = "stored" /\ Expired(mails[m].at, "mail", asOf)}
ExpiredDocs(asOf) ==
  {d \in Docs : docs[d].state = "stored" /\ Expired(docs[d].at, "document", asOf)}
ExpiredTasks(asOf) ==
  {t \in Tasks : tasks[t].state = "done" /\ Expired(tasks[t].at, "task", asOf)}
ExpiredAttempts(asOf) ==
  {x \in Opps \X (0..MaxTime) :
     /\ Expired(x[2], "attempt", asOf)
     /\ \E a \in attempts[x[1]] : a.at = x[2]}
\* An opportunity with an application stays.
ExpiredOpps(asOf) ==
  {o \in Opps : Stored(o) /\ ~Applied(o) /\ Expired(opps[o].at, "opportunity", asOf)}

Reads(p, step, rows, next) ==
  /\ At(p, step)
  /\ work' = [work EXCEPT ![p].rows = @ \cup rows]
  /\ Goto(p, next)
  /\ UNCHANGED <<opps, apps, attempts, portal, mails, tasks, docs, files, archive>>
  /\ Rest

\* The ids first; the communications' rows are read again with their events.
SelectMails(p) ==
  /\ At(p, "mail")
  /\ work' = [work EXCEPT ![p].mails = ExpiredMails(work[p].asOf)]
  /\ Goto(p, "document")
  /\ UNCHANGED <<opps, apps, attempts, portal, mails, tasks, docs, files, archive>>
  /\ Rest

\* Of a document the id and the path, and nothing else.
SelectDocs(p) ==
  Reads(p, "document",
    {<<"document", d, docs[d].path>> : d \in ExpiredDocs(work[p].asOf)}, "attempt")

SelectAttempts(p) ==
  Reads(p, "attempt",
    {<<"attempt", x[1], x[2]>> : x \in ExpiredAttempts(work[p].asOf)}, "task")

SelectTasks(p) ==
  Reads(p, "task",
    {<<"task", t, tasks[t].at>> : t \in ExpiredTasks(work[p].asOf)}, "opportunity")

SelectOpps(p) ==
  Reads(p, "opportunity",
    {<<"opportunity", o, opps[o].at>> : o \in ExpiredOpps(work[p].asOf)}, "event")

SelectEvents(p) ==
  Reads(p, "event",
    {<<"mail", m, mails[m].events>> : m \in ExpiredMails(work[p].asOf)}, "write")

Select(p) == \/ SelectMails(p) \/ SelectDocs(p) \/ SelectAttempts(p)
             \/ SelectTasks(p) \/ SelectOpps(p) \/ SelectEvents(p)

-----------------------------------------------------------------------------
(* enforce_data_retention: the archive file, the DELETEs, the files         *)

FileOf(p) == Second[work[p].asOf]

\* The archive file; one of the same second is replaced.
Write(p) ==
  /\ At(p, "write")
  /\ archive' = [archive EXCEPT ![FileOf(p)] = [rows |-> work[p].rows, by |-> {p}]]
  /\ Goto(p, "delete")
  /\ UNCHANGED <<opps, apps, attempts, portal, mails, tasks, docs, files, work>>
  /\ Rest

\* Mutant: the date is taken again for the deletion.
DeletedByLater(p) == now

\* Attempts, tasks and documents are deleted by the dates of the selection,
\* opportunities and mail by the keys selected.
DeletedBy(p) == work[p].asOf
SelectedOpps(p) ==
  {o \in Opps : \E at \in 0..MaxTime : <<"opportunity", o, at>> \in work[p].rows}
SelectedPaths(p) ==
  {x \in 0..MaxTime : \E d \in Docs : <<"document", d, x>> \in work[p].rows}

\* Mutant: no foreign key.
BlockedNever(p) == FALSE

\* An opportunity that has an application by now breaks the foreign key.
Blocked(p) == \E o \in SelectedOpps(p) : Applied(o)

Delete(p) ==
  LET asOf == DeletedBy(p) IN
  /\ At(p, "delete") /\ ~Blocked(p)
  /\ attempts' = [o \in Opps |->
       {a \in attempts[o] : ~Expired(a.at, "attempt", asOf)}]
  /\ opps' = [o \in Opps |-> IF o \in SelectedOpps(p) THEN NoOpp ELSE opps[o]]
  /\ mails' = [m \in Mails |-> IF m \in work[p].mails
                 THEN [mails[m] EXCEPT !.state = "deleted"] ELSE mails[m]]
  /\ tasks' = [t \in Tasks |-> IF t \in ExpiredTasks(asOf)
                 THEN [tasks[t] EXCEPT !.state = "deleted"] ELSE tasks[t]]
  /\ docs' = [d \in Docs |-> IF d \in ExpiredDocs(asOf)
                THEN [docs[d] EXCEPT !.state = "deleted"] ELSE docs[d]]
  /\ work' = [work EXCEPT ![p] = [NoWork EXCEPT !.paths = SelectedPaths(p)]]
  /\ Finish(p)
  /\ UNCHANGED <<apps, portal, files, archive>> /\ Rest

\* The file cannot be written, its upload to S3 fails, or the foreign key does
\* not let go: the run ends, has deleted nothing and unlinks no document.
DeleteFails(p) ==
  /\ op[p].step \in {"write", "delete"}
  /\ work' = [work EXCEPT ![p] = NoWork]
  /\ Finish(p)
  /\ UNCHANGED <<opps, apps, attempts, portal, mails, tasks, docs, files, archive>>
  /\ Rest

\* Mutant: the files are unlinked before the transaction.
ToUnlinkFirst(p) == work[p].paths \cup SelectedPaths(p)

\* Once the transaction is over, the files of the documents selected.
ToUnlink(p) == IF At(p, "idle") THEN work[p].paths ELSE {}

Unlink(p) ==
  /\ \E path \in ToUnlink(p) :
       /\ files' = files \ {path}
       /\ work' = [work EXCEPT ![p].paths = @ \ {path}]
  /\ UNCHANGED <<vars, mails, tasks, docs, archive>>

-----------------------------------------------------------------------------
\* Killed in an operation of Applications, a retention run or a document.
Killed(p) ==
  /\ crashes < MaxCrashes /\ ~Free(p)
  /\ crashes' = crashes + 1
  /\ Finish(p)
  /\ work' = [work EXCEPT ![p] = NoWork]
  /\ UNCHANGED <<opps, apps, attempts, portal, now, started, finds,
                 mails, tasks, docs, files, archive>>

Operate ==
  \/ \E p \in Callers : (Free(p) /\ Begin(p)) \/ Step(p)
  \/ \E o \in Opps : Discover(o)
  \/ Tick

RetentionNext ==
  \/ Operate /\ UNCHANGED retentionVars
  \/ \E m \in Mails : SendMail(m) \/ RecordEvent(m)
  \/ \E t \in Tasks : UpdateTask(t)
  \/ \E p \in Callers : \/ Draw(p) \/ Store(p)
                        \/ Enforce(p) \/ Select(p) \/ Write(p)
                        \/ Delete(p) \/ DeleteFails(p) \/ Unlink(p) \/ Killed(p)

RetentionSpec == RetentionInit /\ [][RetentionNext]_allVars
-----------------------------------------------------------------------------
(* Properties *)

Archived == UNION {archive[s].rows : s \in 0..MaxTime}

\* A run that deletes after another has written over its archive file.
Replaced(p) == At(p, "delete") /\ archive[FileOf(p)].by # {p}

\* Each table's deleted rows are in an archive file as they were selected, though
\* a run selects one table after the other, then writes and then deletes, some
\* rows by date and some by key: rows stored, aged, updated or submitted in
\* between stay.  Of a document the archive has its id and path only.  Excepted
\* are the events that are recorded after their SELECT, which are deleted
\* unarchived; an opportunity that another run deletes and a discovery stores
\* again in between; and a run whose file another of the same second replaced.
DeletedIsArchived ==
  [][\/ \E p \in Callers : Replaced(p) /\ op'[p].step = "idle"
     \/ /\ \A o \in Opps :
             /\ \A a \in attempts[o] \ attempts'[o] :
                  <<"attempt", o, a.at>> \in Archived
             /\ Stored(o) /\ opps'[o] = NoOpp =>
                  \/ <<"opportunity", o, opps[o].at>> \in Archived
                  \/ \E p \in Callers : At(p, "delete") /\ ~op[p].alone
        /\ \A m \in Mails : mails[m].state = "stored" /\ mails'[m].state = "deleted" =>
             \E n \in (mails[m].events - mails[m].late)..mails[m].events :
               <<"mail", m, n>> \in Archived
        /\ \A t \in Tasks : tasks[t].state = "done" /\ tasks'[t].state = "deleted" =>
             <<"task", t, tasks[t].at>> \in Archived
        /\ \A d \in Docs : docs[d].state = "stored" /\ docs'[d].state = "deleted" =>
             <<"document", d, docs[d].path>> \in Archived]_allVars

\* A document that is listed has its file: the file is written before the row
\* and unlinked after it is gone, also when the deletion is rolled back or the
\* process dies in between.  Documents of one kind and second share a file,
\* which goes with the first of them.
DocumentsHaveFiles ==
  \A d \in Docs : docs[d].state = "stored" =>
    \/ docs[d].path \in files
    \/ \E e \in Docs : docs[e].state = "deleted" /\ docs[e].path = docs[d].path
=============================================================================
