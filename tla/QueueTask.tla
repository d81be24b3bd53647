------------------------------ MODULE QueueTask ------------------------------
(***************************************************************************)
(* The queue task runner: FundingBot.execute_queue_task and what it calls  *)
(* (record_task_run, _record_task_history, request_task_run_shutdown,      *)
(* GracefulShutdownController, QueueTaskContext).  Each worker is a Celery *)
(* worker process with a FundingBot and an SQLite connection of its own;   *)
(* the tables task_runs, task_history and dead_letter_queue are shared.    *)
(*                                                                         *)
(* Atomicity is that of SQLite: a statement that reads is a step, a        *)
(* statement that writes is a step together with the commit that follows   *)
(* it, and a worker that has written without committing (the history row)  *)
(* holds the write lock.  A signal handler may run between any two steps.  *)
(***************************************************************************)
EXTENDS Naturals, FiniteSets

CONSTANTS Workers,      \* worker processes
          Keys,         \* idempotency keys, i.e. distinct (task name, payload)
          RetryLimit,   \* FUNDING_BOT_TASK_RETRY_LIMIT
          MaxRequests,  \* bound: requests sent for one key
          MaxSignals,   \* bound: SIGTERM/SIGINT deliveries
          MaxCrashes    \* bound: worker processes killed

ASSUME ConstantsAssumption ==
  /\ Keys # {}
  /\ RetryLimit \in Nat
  /\ MaxRequests \in Nat
  /\ MaxSignals \in Nat
  /\ MaxCrashes \in Nat

VARIABLES
  queue,      \* queue[k]: requests for k waiting on the broker
  sent,       \* sent[k]: requests ever sent for k
  row,        \* task_runs, one row per key; status "absent" when there is none
  history,    \* task_history, committed rows
  dlq,        \* dead_letter_queue, keys with a row
  pc,         \* what each worker does next
  key,        \* the key it works for
  seen,       \* the row execute_queue_task read first (existing_task_run)
  base,       \* what record_task_run's own SELECT read (existing)
  attempt,    \* attempt_number
  outcome,    \* how the current attempt ended
  event,      \* the controller's _shutdown_event
  pending,    \* history rows inserted and not yet committed
  signals, crashes,
  ran,        \* ghost: runs that have begun the work of each key
  prevented   \* ghost: requests of k answered as duplicates

local == <<pc, key, seen, base, attempt, outcome, event, pending>>
tables == <<row, history, dlq>>
vars == <<queue, sent, tables, local, signals, crashes, ran, prevented>>

Terminal == {"completed", "failed", "cancelled"}
Statuses == {"absent", "running"} \cup Terminal
Outcomes == Terminal \cup {"retry_scheduled"}
Attempts == 1..(RetryLimit + 1)

Rows == [status : Statuses, attempts : 0..(RetryLimit + 1), dead : BOOLEAN,
         dup : Nat, shutdown : BOOLEAN]
Absent == [status |-> "absent", attempts |-> 0, dead |-> FALSE,
           dup |-> 0, shutdown |-> FALSE]
HistoryRows == [key : Keys, worker : Workers, attempt : Attempts, status : Outcomes]

\* record_task_run reads, then writes: the pc of the write that follows a read.
WriteAfter == [dup_read |-> "dup_write", start_read |-> "start_write",
               progress1_read |-> "progress1_write",
               progress2_read |-> "progress2_write",
               record_read |-> "record_write"]
ReadPcs == DOMAIN WriteAfter
\* The controller is installed from install to restore.
InstalledPcs == {"start_read", "start_write", "begin", "progress1_read",
                 "progress1_write", "check1", "work", "progress2_read",
                 "progress2_write", "check2", "history", "record_read",
                 "record_write", "sleep", "dead_letter", "finish"}
Pcs == {"idle", "lookup", "dup_read", "dup_write", "install"} \cup InstalledPcs

AnyKey == CHOOSE k \in Keys : TRUE

TypeOK ==
  /\ queue \in [Keys -> Nat] /\ sent \in [Keys -> Nat]
  /\ row \in [Keys -> Rows]
  /\ history \in SUBSET HistoryRows
  /\ dlq \in SUBSET Keys
  /\ pc \in [Workers -> Pcs]
  /\ key \in [Workers -> Keys]
  /\ seen \in [Workers -> Rows]
  /\ base \in [Workers -> [dup : Nat, shutdown : BOOLEAN]]
  /\ attempt \in [Workers -> Attempts]
  /\ outcome \in [Workers -> Outcomes]
  /\ event \in [Workers -> BOOLEAN]
  /\ pending \in [Workers -> SUBSET HistoryRows]
  /\ signals \in Nat /\ crashes \in Nat
  /\ ran \in [Keys -> Nat]
  /\ prevented \in [Keys -> Nat]

Init ==
  /\ queue = [k \in Keys |-> 0] /\ sent = [k \in Keys |-> 0]
  /\ row = [k \in Keys |-> Absent]
  /\ history = {} /\ dlq = {}
  /\ pc = [w \in Workers |-> "idle"]
  /\ key = [w \in Workers |-> AnyKey]
  /\ seen = [w \in Workers |-> Absent]
  /\ base = [w \in Workers |-> [dup |-> 0, shutdown |-> FALSE]]
  /\ attempt = [w \in Workers |-> 1]
  /\ outcome = [w \in Workers |-> "completed"]
  /\ event = [w \in Workers |-> FALSE]
  /\ pending = [w \in Workers |-> {}]
  /\ signals = 0 /\ crashes = 0
  /\ ran = [k \in Keys |-> 0]
  /\ prevented = [k \in Keys |-> 0]

-----------------------------------------------------------------------------
Goto(w, next) == pc' = [pc EXCEPT ![w] = next]

\* SQLite's single write lock: no other connection is inside a transaction.
CanWrite(w) == \A v \in Workers \ {w} : pending[v] = {}

Larger(a, b) == IF a < b THEN b ELSE a

\* The upsert of _record_task_run_impl and its commit.  Everything the caller
\* passes replaces the row, except that duplicate_requests and
\* shutdown_requested are not lowered below what the SELECT before it returned.
Upsert(w, status, attempts, dead, dup, shutdown) ==
  /\ CanWrite(w)
  /\ row' = [row EXCEPT ![key[w]] =
       [status |-> status, attempts |-> attempts, dead |-> dead,
        dup |-> Larger(dup, base[w].dup),
        shutdown |-> shutdown \/ base[w].shutdown]]
  /\ history' = history \cup pending[w]
  /\ pending' = [pending EXCEPT ![w] = {}]
  /\ UNCHANGED dlq

\* The worker process has nothing in hand any more.
Reset(w) ==
  /\ Goto(w, "idle")
  /\ key' = [key EXCEPT ![w] = AnyKey]
  /\ seen' = [seen EXCEPT ![w] = Absent]
  /\ base' = [base EXCEPT ![w] = [dup |-> 0, shutdown |-> FALSE]]
  /\ attempt' = [attempt EXCEPT ![w] = 1]
  /\ outcome' = [outcome EXCEPT ![w] = "completed"]
  /\ event' = [event EXCEPT ![w] = FALSE]
  /\ pending' = [pending EXCEPT ![w] = {}]

-----------------------------------------------------------------------------
(* The broker (Celery, default settings: a task is acknowledged when it is   *)
(* handed to a worker, so a started task is never delivered again).          *)

\* A dispatch_* call, a CLI command or a beat occurrence sends a request; the
\* key is a function of the task name and payload alone.
Enqueue(k) ==
  /\ sent[k] < MaxRequests
  /\ sent' = [sent EXCEPT ![k] = @ + 1]
  /\ queue' = [queue EXCEPT ![k] = @ + 1]
  /\ UNCHANGED <<tables, local, signals, crashes, ran, prevented>>

Receive(w, k) ==
  /\ pc[w] = "idle"
  /\ queue[k] > 0
  /\ queue' = [queue EXCEPT ![k] = @ - 1]
  /\ key' = [key EXCEPT ![w] = k]
  /\ Goto(w, "lookup")
  /\ UNCHANGED <<sent, tables, seen, base, attempt, outcome, event, pending,
                 signals, crashes, ran, prevented>>

-----------------------------------------------------------------------------
(* execute_queue_task                                                        *)

\* Mutant: only a running or completed row makes a request a duplicate.
LookupForgetsFailures(w) ==
  /\ pc[w] = "lookup"
  /\ seen' = [seen EXCEPT ![w] = row[key[w]]]
  /\ Goto(w, IF row[key[w]].status \in {"running", "completed"}
             THEN "dup_read" ELSE "install")
  /\ UNCHANGED <<queue, sent, tables, key, base, attempt, outcome, event,
                 pending, signals, crashes, ran, prevented>>

\* existing_task_run = get_task_run(key)
Lookup(w) ==
  /\ pc[w] = "lookup"
  /\ seen' = [seen EXCEPT ![w] = row[key[w]]]
  /\ Goto(w, IF row[key[w]].status = "absent" THEN "install" ELSE "dup_read")
  /\ UNCHANGED <<queue, sent, tables, key, base, attempt, outcome, event,
                 pending, signals, crashes, ran, prevented>>

\* The SELECT at the top of _record_task_run_impl, in whichever caller.
ReadExisting(w) ==
  /\ pc[w] \in ReadPcs
  /\ base' = [base EXCEPT ![w] = [dup |-> row[key[w]].dup,
                                  shutdown |-> row[key[w]].shutdown]]
  /\ Goto(w, WriteAfter[pc[w]])
  /\ UNCHANGED <<queue, sent, tables, key, seen, attempt, outcome, event,
                 pending, signals, crashes, ran, prevented>>

\* Mutant: the row is written back as it was read.
PreventUncounted(w) ==
  /\ pc[w] = "dup_write"
  /\ Upsert(w, seen[w].status, seen[w].attempts, seen[w].dead,
            seen[w].dup, seen[w].shutdown)
  /\ prevented' = [prevented EXCEPT ![key[w]] = @ + 1]
  /\ Reset(w)
  /\ UNCHANGED <<queue, sent, signals, crashes, ran>>

\* A duplicate: the row read by Lookup is written back with one more
\* duplicate_requests, and the stored run is returned.
PreventDuplicate(w) ==
  /\ pc[w] = "dup_write"
  /\ Upsert(w, seen[w].status, seen[w].attempts, seen[w].dead,
            seen[w].dup + 1, seen[w].shutdown)
  /\ prevented' = [prevented EXCEPT ![key[w]] = @ + 1]
  /\ Reset(w)
  /\ UNCHANGED <<queue, sent, signals, crashes, ran>>

\* The controller is created, its handlers installed, and it is registered.
InstallController(w) ==
  /\ pc[w] = "install"
  /\ event' = [event EXCEPT ![w] = FALSE]
  /\ Goto(w, "start_read")
  /\ UNCHANGED <<queue, sent, tables, key, seen, base, attempt, outcome,
                 pending, signals, crashes, ran, prevented>>

RecordStart(w) ==
  /\ pc[w] = "start_write"
  /\ Upsert(w, "running", 0, FALSE, 0, FALSE)
  /\ attempt' = [attempt EXCEPT ![w] = 1]
  /\ Goto(w, "begin")
  /\ UNCHANGED <<queue, sent, key, seen, base, outcome, event, signals,
                 crashes, ran, prevented>>

\* A checkpoint: go on when no shutdown is requested, else the attempt ends
\* as cancelled (GracefulShutdownRequested).
Checkpoint(w, at, next) ==
  /\ pc[w] = at
  /\ IF event[w]
     THEN /\ outcome' = [outcome EXCEPT ![w] = "cancelled"]
          /\ Goto(w, "history")
     ELSE next
  /\ UNCHANGED <<queue, sent, tables, key, seen, base, attempt, event, pending,
                 signals, crashes, ran, prevented>>

\* The checkpoint before the callable, and the call.
BeginAttempt(w) ==
  Checkpoint(w, "begin", Goto(w, "progress1_read") /\ UNCHANGED outcome)

\* Every task of task_queue.py reports progress before and after its work;
\* update_progress leaves attempt_number at its default, 0.
UpdateProgress(w) ==
  /\ \/ pc[w] = "progress1_write" /\ Goto(w, "check1")
     \/ pc[w] = "progress2_write" /\ Goto(w, "check2")
  /\ Upsert(w, "running", 0, FALSE, 0, FALSE)
  /\ UNCHANGED <<queue, sent, key, seen, base, attempt, outcome, event,
                 signals, crashes, ran, prevented>>

CheckBeforeWork(w) ==
  Checkpoint(w, "check1", Goto(w, "work") /\ UNCHANGED outcome)

\* Mutant: one retry too few.
RetryOneLess(w) == attempt[w] < RetryLimit

\* should_retry
ShouldRetry(w) == attempt[w] <= RetryLimit

\* The work itself: it returns, or it raises.
Work(w) ==
  /\ pc[w] = "work"
  /\ ran' = [ran EXCEPT ![key[w]] = IF attempt[w] = 1 THEN @ + 1 ELSE @]
  /\ \/ Goto(w, "progress2_read") /\ UNCHANGED outcome
     \/ /\ outcome' = [outcome EXCEPT ![w] =
             IF ShouldRetry(w) THEN "retry_scheduled" ELSE "failed"]
        /\ Goto(w, "history")
  /\ UNCHANGED <<queue, sent, tables, key, seen, base, attempt, event, pending,
                 signals, crashes, prevented>>

\* The last checkpoint of the task and the one that follows its return.
CheckAfterWork(w) ==
  Checkpoint(w, "check2", /\ outcome' = [outcome EXCEPT ![w] = "completed"]
                          /\ Goto(w, "history"))

\* Mutant: the attempt leaves no history row.
RecordNoHistory(w) ==
  /\ pc[w] = "history"
  /\ Goto(w, "record_read")
  /\ UNCHANGED <<queue, sent, tables, key, seen, base, attempt, outcome, event,
                 pending, signals, crashes, ran, prevented>>

\* _record_task_history: inserted, and committed only by a later commit.
RecordHistory(w) ==
  /\ pc[w] = "history"
  /\ CanWrite(w)
  /\ pending' = [pending EXCEPT ![w] =
       {[key |-> key[w], worker |-> w, attempt |-> attempt[w],
         status |-> outcome[w]]}]
  /\ Goto(w, "record_read")
  /\ UNCHANGED <<queue, sent, tables, key, seen, base, attempt, outcome, event,
                 signals, crashes, ran, prevented>>

\* Mutant: a failed run is not sent to the dead letters.
AfterOutcomeNoLetter == [completed |-> "finish", cancelled |-> "finish",
                         failed |-> "finish", retry_scheduled |-> "sleep"]

\* The record_task_run that follows; it commits the history row too.
AfterOutcome == [completed |-> "finish", cancelled |-> "finish",
                 failed |-> "dead_letter", retry_scheduled |-> "sleep"]

RecordOutcome(w) ==
  /\ pc[w] = "record_write"
  /\ Upsert(w, IF outcome[w] = "retry_scheduled" THEN "running" ELSE outcome[w],
            attempt[w], outcome[w] = "failed", 0, FALSE)
  /\ Goto(w, AfterOutcome[outcome[w]])
  /\ UNCHANGED <<queue, sent, key, seen, base, attempt, outcome, event,
                 signals, crashes, ran, prevented>>

\* Mutant: the loop goes round without counting the attempt.
WakeUncounted(w) ==
  /\ pc[w] = "sleep"
  /\ Goto(w, "begin")
  /\ UNCHANGED <<queue, sent, tables, key, seen, base, attempt, outcome, event,
                 pending, signals, crashes, ran, prevented>>

\* Mutant: a shutdown that arrives during the delay is not woken up for.
WakeUnlessShutdown(w) ==
  /\ pc[w] = "sleep"
  /\ ~event[w]
  /\ attempt' = [attempt EXCEPT ![w] = @ + 1]
  /\ Goto(w, "begin")
  /\ UNCHANGED <<queue, sent, tables, key, seen, base, outcome, event, pending,
                 signals, crashes, ran, prevented>>

\* sleeper(retry_delay), then the next iteration of the attempt loop.
Wake(w) ==
  /\ pc[w] = "sleep"
  /\ attempt' = [attempt EXCEPT ![w] = @ + 1]
  /\ Goto(w, "begin")
  /\ UNCHANGED <<queue, sent, tables, key, seen, base, outcome, event, pending,
                 signals, crashes, ran, prevented>>

DeadLetter(w) ==
  /\ pc[w] = "dead_letter"
  /\ CanWrite(w)
  /\ dlq' = dlq \cup {key[w]}
  /\ Goto(w, "finish")
  /\ UNCHANGED <<queue, sent, row, history, key, seen, base, attempt, outcome,
                 event, pending, signals, crashes, ran, prevented>>

\* The controller is unregistered, its handlers restored, the row returned.
Finish(w) ==
  /\ pc[w] = "finish"
  /\ Reset(w)
  /\ UNCHANGED <<queue, sent, tables, signals, crashes, ran, prevented>>

-----------------------------------------------------------------------------
(* What happens to a worker from outside                                     *)

\* _handle_signal in the worker's main thread: it sets the event, then
\* request_task_run_shutdown updates the row and commits whatever the
\* connection has pending.  With no row the FundingBotError it raises unwinds
\* the runner.
Signal(w) ==
  /\ pc[w] \in InstalledPcs
  /\ signals < MaxSignals
  /\ CanWrite(w)
  /\ signals' = signals + 1
  /\ history' = history \cup pending[w]
  /\ IF row[key[w]].status = "absent"
     THEN Reset(w) /\ UNCHANGED row
     ELSE /\ row' = [row EXCEPT ![key[w]].shutdown = TRUE]
          /\ event' = [event EXCEPT ![w] = TRUE]
          /\ pending' = [pending EXCEPT ![w] = {}]
          /\ UNCHANGED <<pc, key, seen, base, attempt, outcome>>
  /\ UNCHANGED <<queue, sent, dlq, crashes, ran, prevented>>

\* The process is killed: an open transaction rolls back, the request is gone.
Crash(w) ==
  /\ pc[w] # "idle"
  /\ crashes < MaxCrashes
  /\ crashes' = crashes + 1
  /\ Reset(w)
  /\ UNCHANGED <<queue, sent, tables, signals, ran, prevented>>

-----------------------------------------------------------------------------
Step(w) ==
  \/ \E k \in Keys : Receive(w, k)
  \/ Lookup(w) \/ ReadExisting(w) \/ PreventDuplicate(w)
  \/ InstallController(w) \/ RecordStart(w) \/ BeginAttempt(w)
  \/ UpdateProgress(w) \/ CheckBeforeWork(w) \/ Work(w) \/ CheckAfterWork(w)
  \/ RecordHistory(w) \/ RecordOutcome(w) \/ Wake(w) \/ DeadLetter(w)
  \/ Finish(w)

Next ==
  \/ \E k \in Keys : Enqueue(k)
  \/ \E w \in Workers : Step(w) \/ Signal(w) \/ Crash(w)

Spec == Init /\ [][Next]_vars

\* A worker process that is alive keeps running.
FairSpec == Spec /\ \A w \in Workers : WF_vars(Step(w))
-----------------------------------------------------------------------------
(* Properties that hold with any number of workers, signals and crashes      *)

Quiet == \A w \in Workers : pc[w] = "idle"

\* A row says completed, failed or cancelled only if some attempt of that key
\* ended so and its history row is committed: the history is written in the
\* transaction of the row, whatever interleaves or is lost
\* (_record_task_history before record_task_run in execute_queue_task).
TerminalBacked ==
  \A k \in Keys : row[k].status \in Terminal =>
    \E h \in history : h.key = k /\ h.status = row[k].status

\* A dead letter has behind it one run that used its first try and every retry:
\* the attempt loop gives up neither early nor without recording the failures.
FailingRun(k, w) ==
  \A a \in Attempts :
    [key |-> k, worker |-> w, attempt |-> a,
     status |-> IF a <= RetryLimit THEN "retry_scheduled" ELSE "failed"] \in history
DeadLetterExplained == \A k \in dlq : \E w \in Workers : FailingRun(k, w)

\* The committed history of a run reads as one run: an attempt ends one way,
\* and a later attempt follows an attempt whose retry was scheduled.
HistoryIsARun ==
  \A h \in history :
    /\ \A g \in history :
         <<g.key, g.worker, g.attempt>> = <<h.key, h.worker, h.attempt>>
           => g.status = h.status
    /\ h.attempt > 1 =>
         [h EXCEPT !.attempt = @ - 1, !.status = "retry_scheduled"] \in history

\* Every worker that takes a request gets through it, the retries, signals and
\* waits for the database lock included.
WorkersReturn == \A w \in Workers : pc[w] # "idle" ~> pc[w] = "idle"

-----------------------------------------------------------------------------
(* Properties of one worker: nothing executes between Lookup and RecordStart *)

\* duplicate_requests is the number of requests answered as duplicates.
DuplicatesCounted == \A k \in Keys : row[k].dup = prevented[k]

\* Without a crash no run is left behind: between requests no row is running,
\* and the failed rows are exactly the dead letters.
NothingLeftBehind ==
  Quiet /\ crashes = 0 =>
    /\ \A k \in Keys : row[k].status # "running"
    /\ dlq = {k \in Keys : row[k].status = "failed"}

\* What a queue run promises, as QueueContract states it.
Contract == INSTANCE QueueContract WITH
  phase <- [k \in Keys |-> row[k].status],
  runs <- ran,
  deadLetters <- dlq
ContractSpec == Contract!Spec

=============================================================================
